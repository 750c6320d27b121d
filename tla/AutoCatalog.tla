----------------------------- MODULE AutoCatalog -----------------------------
(***************************************************************************)
(* A pool with auto_catalog: the catalogs of the providers                 *)
(* (tusker_gateway/catalog.py) are fetched again and again, and what they  *)
(* list at no price joins the models that the operator listed (pools.py).  *)
(* When the configuration changes, config_runtime.py puts a new pool       *)
(* manager, and mostly a new registry of catalogs, in the place of the     *)
(* old ones, while a hook of the old refresh loop may run in a thread.     *)
(*                                                                         *)
(* Managers, registries and PoolConfig objects are numbered as they are    *)
(* made; those that nobody refers to any more stay in their sequences.     *)
(***************************************************************************)
EXTENDS Naturals, Sequences

CONSTANTS
    Model,      \* models of the providers
    Provider,   \* providers with a catalog
    ProviderOf, \* the provider of each model
    Priced,     \* those whose catalogs have prices, or need none
    Listable,     \* models that the operator may list
    ModelsDev,  \* the catalog of prices, models.dev
    MaxEvents   \* bound: changes of catalogs, failures and reloads

ASSUME ProviderAssumption == ProviderOf \in [Model -> Provider] /\ Priced \subseteq Provider
ASSUME ListedAssumption == Listable \subseteq Model /\ ModelsDev \notin Provider
ASSUME EventsAssumption == MaxEvents \in Nat

VARIABLES
    upstream,   \* what each source would list now
    failed,     \* models that failed permanently
    deployment, \* where the pools are kept; whether a reload makes a registry
    pools,      \* PoolConfig objects: models, and those the operator listed
    managers,   \* pool managers
    registries, \* catalogs: entries of each client, entries with a price of zero
    live,       \* the manager in use
    refresh,    \* the startup, then the refresh loop
    hooks,      \* hooks whose loop was cancelled
    candidate,  \* a manager is built and not yet in use
    events,     \* events so far
    seen        \* history: what each source listed when it was last fetched

catalogVars == <<upstream, failed, deployment, pools, managers, registries, live,
                 refresh, hooks, candidate, events, seen>>

Client == Provider \cup {ModelsDev}
Of(c) == {m \in Model : ProviderOf[m] = c}

NewRegistry == [entries |-> [c \in Client |-> {}], free |-> {}]
Pool(g) == managers[g].pool
Happen == events < MaxEvents /\ events' = events + 1

-----------------------------------------------------------------------------
(* Sources.                                                                  *)

\* A provider lists one of its models or lists it no more; models.dev prices
\* one at zero or knows it no more.
ListingChanges(c) ==
    /\ Happen
    /\ \E m \in (IF c = ModelsDev THEN UNION {Of(p) : p \in Provider \ Priced} ELSE Of(c)) :
          upstream' = [upstream EXCEPT ![c] = IF m \in @ THEN @ \ {m} ELSE @ \cup {m}]
    /\ UNCHANGED <<failed, deployment, pools, managers, registries, live, refresh, hooks, candidate, seen>>

\* mark_permanently_failed after a call of the live manager's pool.
ModelFails(m) ==
    /\ Happen
    /\ m \in managers[live].models
    /\ failed' = failed \cup {m}
    /\ UNCHANGED <<upstream, deployment, pools, managers, registries, live, refresh, hooks, candidate, seen>>

-----------------------------------------------------------------------------
(* CatalogRegistry.refresh_all: every client on its own, then the prices.    *)

\* Entries are new objects; those without prices wait for models.dev's.
AfterFetch(r, c) ==
    [entries |-> [r.entries EXCEPT ![c] = upstream[c]],
     free    |-> IF c \in Provider \ Priced THEN r.free \ Of(c) ELSE r.free]

\* Fault: an error leaves no entries.
NothingLeft(r, c) == [r EXCEPT !.entries[c] = {}]

\* "On error, retain last good state."
AfterError(r, c) == r

Fetching(c) == refresh.pc \in {"boot", "fetch"} /\ c \in refresh.todo /\ candidate = 0
Fetched(c) ==
    /\ refresh' = [refresh EXCEPT !.todo = @ \ {c}]
    /\ UNCHANGED <<upstream, failed, deployment, pools, managers, live, hooks, candidate>>

FetchSucceeds(c) ==
    /\ Fetching(c)
    /\ registries' = [registries EXCEPT ![refresh.registry] = AfterFetch(@, c)]
    /\ seen' = [seen EXCEPT ![c] = upstream[c]]
    /\ Fetched(c)
    /\ UNCHANGED events

FetchFails(c) ==
    /\ Fetching(c)
    /\ Happen
    /\ registries' = [registries EXCEPT ![refresh.registry] = AfterError(@, c)]
    /\ Fetched(c)
    /\ UNCHANGED seen

\* _postprocess_refresh, in a thread.
PricesFilled ==
    /\ refresh.pc \in {"boot", "fetch"} /\ refresh.todo = {}
    /\ registries' = [registries EXCEPT ![refresh.registry].free =
          @ \cup {m \in registries[refresh.registry].entries[ModelsDev] :
                    m \in registries[refresh.registry].entries[ProviderOf[m]]}]
    /\ refresh' = [refresh EXCEPT !.pc = IF @ = "boot" THEN "booted" ELSE "hook"]
    /\ UNCHANGED <<upstream, failed, deployment, pools, managers, live, hooks, candidate, events, seen>>

\* The startup waits for ten seconds.
BootTimesOut ==
    /\ refresh.pc = "boot"
    /\ Happen
    /\ refresh' = [refresh EXCEPT !.pc = "booted"]
    /\ UNCHANGED <<upstream, failed, deployment, pools, managers, registries, live, hooks, candidate, seen>>

-----------------------------------------------------------------------------
(* PoolManager.extend_pools_with_auto_catalog.                               *)

\* An entry without a price is no free one.
CostsNothing(r, m) == ProviderOf[m] \in Priced \/ m \in r.free
EligibleNow(r) == {m \in Model : m \in r.entries[ProviderOf[m]] /\ CostsNothing(r, m) /\ m \notin failed}

\* What was there when the manager was built stays, the rest is as eligible.
Extended(g) ==
    (pools[Pool(g)].models \cap managers[g].static)
    \cup (EligibleNow(registries[managers[g].registry]) \ managers[g].static)

\* The specs are made anew only if the pool has changed.
Rebuilt(g, models) ==
    IF models = pools[Pool(g)].models THEN managers
    ELSE [managers EXCEPT ![g].models = models]

Extend(g, models) ==
    /\ managers' = Rebuilt(g, models)
    /\ pools' = [pools EXCEPT ![Pool(g)].models = models]

LoopFor(g, r) == [pc |-> "fetch", todo |-> Client, manager |-> g, registry |-> r, models |-> {}]

Booted ==
    /\ refresh.pc = "booted"
    /\ Extend(live, Extended(live))
    /\ refresh' = LoopFor(live, refresh.registry)
    /\ UNCHANGED <<upstream, failed, deployment, registries, live, hooks, candidate, events, seen>>

\* on_refresh in a worker thread: it reads the catalogs, and then replaces the
\* models of the pool.
HookReads ==
    /\ refresh.pc = "hook"
    /\ refresh' = [refresh EXCEPT !.pc = "replace", !.models = Extended(refresh.manager)]
    /\ UNCHANGED <<upstream, failed, deployment, pools, managers, registries, live, hooks, candidate, events, seen>>

HookReplaces ==
    /\ refresh.pc = "replace"
    /\ Extend(refresh.manager, refresh.models)
    /\ refresh' = [refresh EXCEPT !.pc = "wait", !.models = {}]
    /\ UNCHANGED <<upstream, failed, deployment, registries, live, hooks, candidate, events, seen>>

WaitEnds ==
    /\ refresh.pc = "wait" /\ candidate = 0
    /\ refresh' = LoopFor(refresh.manager, refresh.registry)
    /\ UNCHANGED <<upstream, failed, deployment, pools, managers, registries, live, hooks, candidate, events, seen>>

\* The thread of a cancelled loop goes on.
OldHookReplaces(h) ==
    /\ Extend(h.manager, h.models)
    /\ hooks' = hooks \ {h}
    /\ UNCHANGED <<upstream, failed, deployment, registries, live, refresh, candidate, events, seen>>

-----------------------------------------------------------------------------
(* ConfigRuntime._apply, on the event loop.                                  *)

Built(object, models) ==
    /\ refresh.pc \notin {"boot", "booted"} /\ candidate = 0
    /\ Happen
    /\ managers' = Append(managers, [pool |-> object, static |-> models, models |-> models,
                                     registry |-> managers[live].registry])
    /\ candidate' = Len(managers) + 1
    /\ UNCHANGED <<upstream, failed, deployment, registries, live, refresh, hooks, seen>>

\* Pools of the environment, or of a generation that is applied again, are the
\* same objects ...
BuildAgain ==
    /\ Built(Pool(live), pools[Pool(live)].models)
    /\ UNCHANGED pools

\* ... and those that the store has read from its tables are new.
BuildNew ==
    /\ deployment.pools = "database"
    /\ \E listed \in SUBSET Listable :
          /\ Built(Len(pools) + 1, listed)
          /\ pools' = Append(pools, [models |-> listed, listed |-> listed])

\* Fault: the new loop still extends the old manager's pool.
OldManager == live

NewManager == candidate

\* _rebuild_catalog: where a provider has changed, a new registry starts without
\* entries, with a loop of its own.
CatalogRebuilt(built) ==
    LET r == Len(registries) + 1
    IN IF deployment.rebuilds
       THEN /\ registries' = Append(registries, NewRegistry)
            /\ managers' = [built EXCEPT ![candidate].registry = r]
            /\ refresh' = LoopFor(NewManager, r)
            /\ hooks' = IF refresh.pc = "replace"
                        THEN hooks \cup {[manager |-> refresh.manager, models |-> refresh.models]}
                        ELSE hooks
       ELSE /\ managers' = built
            /\ UNCHANGED <<registries, refresh, hooks>>

\* The manager is extended from the old catalogs and put to use.
Publish ==
    /\ candidate # 0
    /\ LET models == Extended(candidate)
       IN /\ pools' = [pools EXCEPT ![Pool(candidate)].models = models]
          /\ CatalogRebuilt(Rebuilt(candidate, models))
    /\ live' = candidate
    /\ candidate' = 0
    /\ UNCHANGED <<upstream, failed, deployment, events, seen>>

-----------------------------------------------------------------------------
CatalogInit ==
    /\ upstream = [c \in Client |-> IF c = ModelsDev THEN Model ELSE Of(c)]
    /\ failed = {}
    /\ deployment \in [pools : {"environment", "database"}, rebuilds : BOOLEAN]
    /\ \E listed \in SUBSET Listable :
          /\ pools = <<[models |-> listed, listed |-> listed]>>
          /\ managers = <<[pool |-> 1, static |-> listed, models |-> listed, registry |-> 1]>>
    /\ registries = <<NewRegistry>>
    /\ live = 1
    /\ refresh = [LoopFor(1, 1) EXCEPT !.pc = "boot"]
    /\ hooks = {} /\ candidate = 0 /\ events = 0
    /\ seen = [c \in Client |-> {}]

Fetches(c) == FetchSucceeds(c) \/ FetchFails(c)

CatalogNext ==
    \/ \E c \in Client : ListingChanges(c) \/ Fetches(c)
    \/ \E m \in Model : ModelFails(m)
    \/ PricesFilled \/ BootTimesOut \/ Booted
    \/ HookReads \/ HookReplaces \/ WaitEnds
    \/ \E h \in hooks : OldHookReplaces(h)
    \/ BuildAgain \/ BuildNew \/ Publish

\* Fetches end, waits end, threads run and the event loop goes on.
CatalogFairness ==
    /\ \A c \in Client : WF_catalogVars(Fetches(c))
    /\ WF_catalogVars(PricesFilled) /\ WF_catalogVars(Booted)
    /\ WF_catalogVars(HookReads) /\ WF_catalogVars(HookReplaces) /\ WF_catalogVars(WaitEnds)
    /\ WF_catalogVars(\E h \in hooks : OldHookReplaces(h))
    /\ WF_catalogVars(Publish)

CatalogSpec == CatalogInit /\ [][CatalogNext]_catalogVars /\ CatalogFairness

-----------------------------------------------------------------------------
CatalogTypeOK ==
    /\ upstream \in [Client -> SUBSET Model] /\ seen \in [Client -> SUBSET Model]
    /\ failed \subseteq Model
    /\ pools \in Seq([models : SUBSET Model, listed : SUBSET Listable])
    /\ managers \in Seq([pool : DOMAIN pools, static : SUBSET Model, models : SUBSET Model,
                         registry : DOMAIN registries])
    /\ registries \in Seq([entries : [Client -> SUBSET Model], free : SUBSET Model])
    /\ live \in DOMAIN managers /\ candidate \in {0} \cup DOMAIN managers
    /\ refresh \in [pc : {"boot", "booted", "fetch", "hook", "replace", "wait"}, todo : SUBSET Client,
                 manager : DOMAIN managers, registry : DOMAIN registries, models : SUBSET Model]
    /\ hooks \subseteq [manager : DOMAIN managers, models : SUBSET Model]
    /\ events \in 0..MaxEvents

\* "static entries are never pruned" (docs/gateway-model-routing.md): whatever
\* hooks of old and new managers do to a pool that they share, and however
\* catalogs, failures and reloads come, the live pool has all that the operator
\* listed.
StaticStays == pools[Pool(live)].listed \subseteq managers[live].models

\* "On error, retain last good state" (CatalogClient.refresh): a refresh never
\* takes a model from the live pool that its source, and models.dev if it has no
\* prices of its own, had when they were last fetched; one that failed excepted.
\* (Only as long as there is one registry: a reload starts without entries.)
OutagePrunesNothing == [][
    (live' = live /\ Len(registries') = 1) =>
        \A m \in managers[live].models \ managers'[live].models :
            \/ m \notin seen[ProviderOf[m]] \/ m \in failed
            \/ ProviderOf[m] \notin Priced /\ m \notin seen[ModelsDev]]_catalogVars

\* "Pools with auto_catalog also receive eligible catalog entries at startup and
\* on each refresh", and lose them when they disappear: once the sources and the
\* configuration are at rest, the live pool ends up with what the operator listed
\* and what is eligible now -- if no two managers have had the same PoolConfig and
\* reloads make new registries.
Reused == \E g, h \in DOMAIN managers : g # h /\ Pool(g) = Pool(h)
Available == {m \in Model :
    /\ m \in upstream[ProviderOf[m]] /\ m \notin failed
    /\ ProviderOf[m] \in Priced \/ m \in upstream[ModelsDev]}
CatalogConverges ==
    <>[](Reused \/ ~ deployment.rebuilds \/ managers[live].models = pools[Pool(live)].listed \cup Available)
=============================================================================
