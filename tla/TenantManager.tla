--------------------------- MODULE TenantManager ---------------------------
(***************************************************************************)
(* The Manager and the Tenant of internal/tenant/manager.go: the tenants   *)
(* that run, against the rows of the tenants table; what a start opens and *)
(* what a stop waits for. Requests change rows and then have the manager   *)
(* follow them.                                                            *)
(*                                                                         *)
(* A Tenant object is named by the number of the first adapter it opened;  *)
(* its pmsAdapter is the last one. What Start n spawned belongs to adapter *)
(* n: its context, and its processEvents loop.                             *)
(***************************************************************************)
EXTENDS AdminProcess

CONSTANTS
    Configs,        \* settings of a tenant
    PmsOf,          \* host and port of the PMS in them
    ListenConfigs,  \* those in which the FIAS adapter listens on the port
    TigerConfigs    \* those of the protocol tigertms

ASSUME ConfigAssumption ==
    /\ None \notin [cfg : Configs, obj : Nat]
    /\ ListenConfigs \subseteq Configs
    /\ TigerConfigs \subseteq Configs
    /\ DOMAIN PmsOf = Configs

VARIABLES
    rows,       \* the table tenants
    tenants,    \* Manager.tenants
    adapters,   \* every PMS adapter that was created, in that order
    mgr,        \* who holds Manager.mu, for which tenants, and whose loops it waits for
    behind      \* history: tenants whose row the last reload that ended has not seen

tenantVars == <<rows, tenants, adapters, mgr, behind>>

Row == [enabled : BOOLEAN, cfg : Configs]

Wanted(table, id) == table[id] # None /\ table[id].enabled

\* One pair of processEvents' select: the context of its Start and the channel it reads.
Created(id, obj, cfg, outcome) ==
    [tenant |-> id, obj |-> obj, cfg |-> cfg,
     state |-> IF outcome = "pms" THEN "failed" ELSE "open",
     cancelled |-> FALSE, overtaken |-> FALSE,
     loop |-> IF outcome = "ok" THEN "new" ELSE "none",
     on |-> 0,
     queue |-> 0,
     started |-> outcome = "ok"]

AdaptersOf(obj) == {n \in DOMAIN adapters : adapters[n].obj = obj}

\* Tenant.pmsAdapter
Current(obj) == CHOOSE n \in AdaptersOf(obj) : \A m \in AdaptersOf(obj) : m <= n

\* The adapter of a tenant in the map.
Link(id) == adapters[Current(tenants[id].obj)]

Listens(n, port) ==
    /\ adapters[n].cfg \in ListenConfigs
    /\ adapters[n].state = "open"
    /\ PmsOf[adapters[n].cfg] = port

\* Start opens the adapter, then the provider, then the loop. A FIAS adapter that listens
\* needs the port for itself, and one for iLink has nothing to connect to.
StartOutcomes(cfg) ==
    IF cfg \in ListenConfigs /\ \E n \in DOMAIN adapters : Listens(n, PmsOf[cfg])
    THEN {"pms"}
    ELSE {"ok", "pbx"} \cup (IF cfg \in TigerConfigs THEN {} ELSE {"pms"})

Outcomes == {"ok", "pms", "pbx"}

Start(id, obj, cfg, outcome) ==
    /\ outcome \in StartOutcomes(cfg)
    /\ Fails(outcome # "ok" /\ StartOutcomes(cfg) # {"pms"})
    /\ adapters' = Append(adapters, Created(id, obj, cfg, outcome))

NewObject == Len(adapters) + 1

TenantInit ==
    /\ rows \in [TenantIds -> Row \cup {None}]
    /\ tenants = [id \in TenantIds |-> None]
    /\ adapters = <<>>
    /\ mgr = [holder |-> None, todo |-> {}, stopping |-> None]
    /\ behind = {}

-----------------------------------------------------------------------------
(* Boot: LoadFromDB starts every enabled tenant, and StartAll starts it again. *)

LoadFromDB ==
    /\ phase = "load"
    /\ MainGoes("tenants", {id \in TenantIds : Wanted(rows, id)})
    /\ UNCHANGED tenantVars

\* Without the list of them main gives up.
LoadFails ==
    /\ phase = "load"
    /\ Fails(TRUE)
    /\ phase' = "fatal"
    /\ UNCHANGED <<work, requests, tenantVars>>

\* A tenant that does not start is not in the map; what it opened stays open.
LoadTenant(id, outcome) ==
    /\ MainHas("tenants", id)
    /\ Start(id, NewObject, rows[id].cfg, outcome)
    /\ tenants' = [tenants EXCEPT ![id] =
           IF outcome = "ok" THEN [cfg |-> rows[id].cfg, obj |-> NewObject] ELSE None]
    /\ work' = [work EXCEPT ![Main].todo = @ \ {id}]
    /\ UNCHANGED <<phase, requests, rows, mgr, behind>>

Loaded == {id \in TenantIds : tenants[id] # None}

BeginStartAll ==
    /\ MainDid("tenants")
    /\ MainGoes("start", Loaded)
    /\ UNCHANGED tenantVars

\* main gives up when a tenant does not start the second time.
StartAll(id, outcome) ==
    /\ MainHas("start", id)
    /\ Start(id, tenants[id].obj, tenants[id].cfg, outcome)
    /\ phase' = IF outcome = "ok" THEN phase ELSE "fatal"
    /\ work' = [work EXCEPT ![Main].todo = @ \ {id}]
    /\ UNCHANGED <<requests, rows, tenants, mgr, behind>>

-----------------------------------------------------------------------------
(* processEvents *)

\* It asks the tenant for its adapter each time around.
LoopSelects(n) ==
    /\ adapters[n].loop = "new"
    /\ adapters' = [adapters EXCEPT ![n].loop = "blocked", ![n].on = Current(adapters[n].obj)]
    /\ UNCHANGED <<processVars, rows, tenants, mgr, behind>>

\* An event arrives. The channel of an adapter for iLink gets only what a request puts there.
LoopHandles(n) ==
    LET m == adapters[n].on IN
    /\ adapters[n].loop = "blocked"
    /\ adapters[m].state = "open"
    /\ adapters[m].cfg \in TigerConfigs => adapters[m].queue > 0
    /\ adapters' = [adapters EXCEPT
           ![n].loop = "new",
           ![m].queue = IF adapters[m].cfg \in TigerConfigs THEN @ - 1 ELSE @]
    /\ UNCHANGED <<processVars, rows, tenants, mgr, behind>>

\* An event of the tenant's own provider, which is only logged. The channel of a provider that
\* was closed ends, so that the loop comes round for what is left of it a few times at most:
\* not after Stop, here.
handlePBXEvent(n) ==
    /\ adapters[n].loop = "blocked"
    /\ ~adapters[n].cancelled
    /\ adapters' = [adapters EXCEPT ![n].loop = "new"]
    /\ UNCHANGED <<processVars, rows, tenants, mgr, behind>>

LoopEnds(n) ==
    /\ adapters[n].loop = "blocked"
    /\ adapters[n].cancelled \/ adapters[adapters[n].on].state = "closed"
    /\ adapters' = [adapters EXCEPT ![n].loop = "none"]
    /\ UNCHANGED <<processVars, rows, tenants, mgr, behind>>

-----------------------------------------------------------------------------
(* The requests of admin_tenants.go. A row is changed, and the manager told. *)

Writes(id, row) ==
    /\ rows' = [rows EXCEPT ![id] = row]
    /\ behind' = behind \cup {id}

\* A row that is created disabled is enabled: its column has a default, which replaces FALSE.
createTenant(w, id, cfg) ==
    /\ rows[id] = None
    /\ Request(w, [at |-> "written"])
    /\ Writes(id, [enabled |-> TRUE, cfg |-> cfg])
    /\ UNCHANGED <<tenants, adapters, mgr>>

\* What importTenants does with a tenant that exists; a new one it creates as createTenant does.
importTenants(w, id) ==
    /\ rows[id] # None
    /\ Request(w, [at |-> "written"])
    /\ UNCHANGED tenantVars

\* What one request changes; the other columns are written as they were read.
Edits(row) == {[row EXCEPT !.enabled = e] : e \in BOOLEAN}
                \cup {[row EXCEPT !.cfg = c] : c \in Configs}

\* Two queries: the row that is written back is the one that was read, changed.
updateTenantReads(w, id) ==
    /\ rows[id] # None
    /\ Request(w, [at |-> "read", id |-> id, row |-> rows[id]])
    /\ UNCHANGED tenantVars

updateTenantWrites(w, row) ==
    LET job == work[w] IN
    /\ job.at = "read"
    /\ row \in Edits(job.row)
    /\ IF rows[job.id] # None
       THEN Writes(job.id, row)
       ELSE UNCHANGED <<rows, behind>>
    /\ Goes(w, [at |-> "written"])
    /\ UNCHANGED <<tenants, adapters, mgr>>

deleteTenant(w, id) ==
    /\ rows[id] # None
    /\ Request(w, [at |-> "invalidate", snap |-> [rows EXCEPT ![id] = None], only |-> {id}])
    /\ Writes(id, None)
    /\ UNCHANGED <<tenants, adapters, mgr>>

-----------------------------------------------------------------------------
(* ReloadFromDB lists the rows and then takes the lock; InvalidateCache takes it *)
(* for one tenant. Both stop tenants while they hold it.                         *)

ListTenants(w) ==
    /\ work[w].at = "written"
    /\ Goes(w, [at |-> "listed", snap |-> rows, only |-> TenantIds])
    /\ UNCHANGED tenantVars

ListFails(w) ==
    /\ work[w].at = "written"
    /\ Fails(TRUE)
    /\ work' = [work EXCEPT ![w] = Idle]
    /\ UNCHANGED <<phase, requests, tenantVars>>

LockManager(w) ==
    LET job == work[w] IN
    /\ job.at \in {"listed", "invalidate"}
    /\ mgr.holder = None
    /\ mgr' = [mgr EXCEPT !.holder = w,
                          !.todo = {id \in job.only : tenants[id] # None \/ Wanted(job.snap, id)}]
    /\ Goes(w, [job EXCEPT !.at = "follow"])
    /\ UNCHANGED <<rows, tenants, adapters, behind>>

\* Tenants whose row has changed since the list was read.
Outdated(job) == {id \in job.only : job.snap[id] # rows[id]}

\* The holder is at a tenant of its list.
At(w, id) ==
    /\ work[w].at = "follow"
    /\ mgr.holder = w
    /\ mgr.stopping = None
    /\ id \in mgr.todo

\* Mutant: a row that is disabled counts as there.
GoneRow(w, id) == tenants[id] # None /\ work[w].snap[id] = None

Gone(w, id) == tenants[id] # None /\ ~Wanted(work[w].snap, id)

\* Mutant: all settings are compared.
ChangedAtAll(w, id) ==
    /\ tenants[id] # None
    /\ Wanted(work[w].snap, id)
    /\ tenants[id].cfg # work[w].snap[id].cfg

\* Only host and port of the PMS are compared.
Changed(w, id) ==
    /\ tenants[id] # None
    /\ Wanted(work[w].snap, id)
    /\ PmsOf[tenants[id].cfg] # PmsOf[work[w].snap[id].cfg]

\* Those that are gone are stopped before any other tenant is looked at.
GoneFirst(w) == \A id \in mgr.todo : ~Gone(w, id)

MustStop(w, id) == Gone(w, id) \/ (GoneFirst(w) /\ Changed(w, id))

\* Mutant: Stop waits for the loops before it cancels and closes.
StopWaitsFirst(n, state) == adapters

\* Stop cancels the context of the last Start, closes its adapter and its provider, and
\* then waits for every loop of the tenant.
StopEffects(n, state) == [adapters EXCEPT ![n].cancelled = TRUE, ![n].state = state]

\* Close of an adapter waits, with its mutex held, for a read loop that may want the mutex, or
\* be the one that called it: such a Close never returns (see PmsLinks), and is "closing" for
\* ever. One for iLink has no read loop.
CloseOutcomes(cfg) == {"closed"} \cup (IF cfg \in TigerConfigs THEN {} ELSE {"closing"})

Stop(id) ==
    /\ \E state \in CloseOutcomes(Link(id).cfg) :
           adapters' = StopEffects(Current(tenants[id].obj), state)
    /\ mgr' = [mgr EXCEPT !.stopping = id]

\* A read loop of the adapter (mitel), or the subscription of the tenant's own provider (bicom,
\* zultys), had an event in hand when Stop closed the channel it is for: it sends it, and
\* nothing recovers from the panic.
SendsOnClosed(n) ==
    /\ adapters[n].state \in {"closing", "closed"}
    /\ adapters' = [adapters EXCEPT ![n].overtaken = TRUE]
    /\ phase' = "panicked"
    /\ UNCHANGED <<work, requests, failures, rows, tenants, mgr, behind>>

AlreadyStopped(id) == Link(id).state = "closed"

LoopsEnded(obj) == \A n \in AdaptersOf(obj) : adapters[n].loop = "none"

StopTenant(w, id) ==
    /\ At(w, id)
    /\ MustStop(w, id)
    /\ ~AlreadyStopped(id)
    /\ Stop(id)
    /\ UNCHANGED <<processVars, rows, tenants, behind>>

\* A tenant whose restart failed is still in the map. To stop it again closes a closed
\* channel: the panic unwinds the handler, which releases the lock.
StopsTwice(w) ==
    /\ \E id \in TenantIds : At(w, id) /\ MustStop(w, id) /\ AlreadyStopped(id)
    /\ mgr' = [mgr EXCEPT !.holder = None, !.todo = {}]
    /\ Goes(w, Idle)
    /\ behind' = behind \cup Outdated(work[w])
    /\ UNCHANGED <<rows, tenants, adapters>>

\* Mutant: Stop does not wait.
StoppedAtOnce(w, id) ==
    /\ mgr.holder = w
    /\ mgr.stopping = id

Stopped(w, id) ==
    /\ mgr.holder = w
    /\ mgr.stopping = id
    /\ Link(id).state = "closed"
    /\ LoopsEnded(tenants[id].obj)

RemoveTenant(w, id) ==
    /\ work[w].at = "follow"
    /\ Stopped(w, id)
    /\ Gone(w, id)
    /\ tenants' = [tenants EXCEPT ![id] = None]
    /\ mgr' = [mgr EXCEPT !.stopping = None, !.todo = @ \ {id}]
    /\ UNCHANGED <<processVars, rows, adapters, behind>>

\* Mutant: the new tenant is not put into the map.
ReplaceForgets(w, id, outcome) ==
    /\ Start(id, NewObject, work[w].snap[id].cfg, outcome)
    /\ mgr' = [mgr EXCEPT !.stopping = None, !.todo = @ \ {id}]
    /\ UNCHANGED <<phase, work, requests, rows, tenants, behind>>

\* The new object takes the place of the old one if it starts.
Replace(w, id, outcome) ==
    LET cfg == work[w].snap[id].cfg IN
    /\ Start(id, NewObject, cfg, outcome)
    /\ tenants' = IF outcome = "ok"
                  THEN [tenants EXCEPT ![id] = [cfg |-> cfg, obj |-> NewObject]]
                  ELSE tenants
    /\ mgr' = [mgr EXCEPT !.stopping = None, !.todo = @ \ {id}]
    /\ UNCHANGED <<phase, work, requests, rows, behind>>

RestartTenant(w, id, outcome) ==
    /\ work[w].at = "follow"
    /\ Stopped(w, id)
    /\ Changed(w, id)
    /\ Replace(w, id, outcome)

StartTenant(w, id, outcome) ==
    /\ At(w, id)
    /\ GoneFirst(w)
    /\ tenants[id] = None
    /\ Replace(w, id, outcome)

UpdateTenant(w, id) ==
    /\ At(w, id)
    /\ GoneFirst(w)
    /\ tenants[id] # None
    /\ ~Changed(w, id)
    /\ tenants' = [tenants EXCEPT ![id].cfg = work[w].snap[id].cfg]
    /\ mgr' = [mgr EXCEPT !.todo = @ \ {id}]
    /\ UNCHANGED <<processVars, rows, adapters, behind>>

UnlockManager(w) ==
    LET job == work[w] IN
    /\ job.at = "follow"
    /\ mgr.holder = w
    /\ mgr.todo = {}
    /\ mgr' = [mgr EXCEPT !.holder = None]
    /\ Goes(w, Idle)
    /\ behind' = (behind \ job.only) \cup Outdated(job)
    /\ UNCHANGED <<rows, tenants, adapters>>

-----------------------------------------------------------------------------
(* StopAll, with the read lock, when main ends *)

BeginStopAll ==
    /\ phase = "serve"
    /\ mgr.holder = None
    /\ phase' = "stop"
    /\ mgr' = [mgr EXCEPT !.holder = Main, !.todo = Loaded]
    /\ UNCHANGED <<work, requests, failures, rows, tenants, adapters, behind>>

StopAll(id) ==
    /\ phase = "stop"
    /\ id \in mgr.todo
    /\ mgr.stopping = None
    /\ IF AlreadyStopped(id)
       THEN phase' = "panicked" /\ UNCHANGED <<adapters, mgr>>
       ELSE Stop(id) /\ UNCHANGED phase
    /\ UNCHANGED <<work, requests, failures, rows, tenants, behind>>

StoppedInAll(id) ==
    /\ phase = "stop"
    /\ Stopped(Main, id)
    /\ mgr' = [mgr EXCEPT !.stopping = None, !.todo = @ \ {id}]
    /\ UNCHANGED <<processVars, rows, tenants, adapters, behind>>

EndStopAll ==
    /\ phase = "stop"
    /\ mgr.todo = {}
    /\ phase' = "close"
    /\ mgr' = [mgr EXCEPT !.holder = None]
    /\ UNCHANGED <<work, requests, failures, rows, tenants, adapters, behind>>

Loop(n) == n \in DOMAIN adapters /\ (LoopSelects(n) \/ LoopEnds(n))

\* What a reload does next, once it is wanted.
ReloadSteps(w) ==
    \/ ListTenants(w) \/ LockManager(w) \/ StopsTwice(w) \/ UnlockManager(w)
    \/ \E id \in TenantIds :
        \/ StopTenant(w, id) \/ RemoveTenant(w, id) \/ UpdateTenant(w, id)
        \/ \E outcome \in Outcomes : RestartTenant(w, id, outcome) \/ StartTenant(w, id, outcome)

StopSteps ==
    \/ EndStopAll
    \/ \E id \in TenantIds : StopAll(id) \/ StoppedInAll(id)

TenantNext ==
    \/ LoadFromDB \/ LoadFails \/ BeginStartAll \/ BeginStopAll \/ StopSteps
    \/ \E id \in TenantIds, outcome \in Outcomes : LoadTenant(id, outcome) \/ StartAll(id, outcome)
    \/ \E n \in DOMAIN adapters : Loop(n) \/ LoopHandles(n) \/ handlePBXEvent(n) \/ SendsOnClosed(n)
    \/ \E w \in Workers :
        \/ ReloadSteps(w) \/ ListFails(w)
        \/ \E row \in Row : updateTenantWrites(w, row)
        \/ \E id \in TenantIds :
            \/ updateTenantReads(w, id) \/ deleteTenant(w, id) \/ importTenants(w, id)
            \/ \E cfg \in Configs : createTenant(w, id, cfg)

=============================================================================
