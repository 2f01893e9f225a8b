------------------------- MODULE HospitalityServer -------------------------
(***************************************************************************)
(* The process of cmd/bicom-hospitality: its tenants, its PBX systems and  *)
(* its iLink endpoints, from boot to shutdown, while requests of the admin *)
(* API change the tables and have the managers follow them.                *)
(***************************************************************************)
EXTENDS PbxManager, ILink

CONSTANT MaxAdapters    \* bound: no behaviour opens more (for the fairness of their loops)

\* LoadFromDB, StartAll and the router open one for each tenant, and so may every reload.
ASSUME AdaptersAssumption ==
    /\ IsFiniteSet(TenantIds)
    /\ MaxAdapters \in Nat
    /\ MaxAdapters >= Cardinality(TenantIds) * (3 + MaxRequests)

vars == <<processVars, tenantVars, ilinkVars, pbxVars>>

Init == ProcessInit /\ TenantInit /\ ILinkInit /\ PbxInit

Next ==
    /\ Running
    /\ \/ TenantNext /\ UNCHANGED <<ilinkVars, pbxVars>>
       \/ ILinkNext /\ UNCHANGED pbxVars
       \/ PbxNext /\ UNCHANGED <<tenantVars, ilinkVars>>

Spec == Init /\ [][Next]_vars

\* Goroutines run: the loops, the requests under way, and main while it stops tenants. No
\* peer has to send anything, and no new request has to come.
Steps(A) == Running /\ A /\ UNCHANGED <<ilinkVars, pbxVars>>

Fairness ==
    /\ \A n \in 1..MaxAdapters : WF_vars(Steps(Loop(n)))
    /\ \A w \in Workers : WF_vars(Steps(ReloadSteps(w)))
    /\ WF_vars(Steps(StopSteps))

FairSpec == Spec /\ Fairness

-----------------------------------------------------------------------------
(* Types *)

Adapter ==
    [tenant : TenantIds, obj : 0..MaxAdapters, cfg : Configs,
     state : {"open", "closing", "closed", "failed"}, cancelled : BOOLEAN, overtaken : BOOLEAN,
     loop : {"none", "new", "blocked"}, on : 0..MaxAdapters, queue : 0..Capacity,
     started : BOOLEAN]

ProviderType ==
    [system : Systems, dial : {"dialling", "up", "down", "reported_up", "reported_down"},
     retry : {"none", "check", "dialling"}, tries : 0..MaxTries,
     connected : BOOLEAN, client : BOOLEAN, subscribed : BOOLEAN, lost : BOOLEAN,
     handling : BOOLEAN, closed : BOOLEAN, overtaken : BOOLEAN]

Entry == [provider : DOMAIN providers, state : {"connecting", "connected", "disconnected"}]

\* Every variable has its type; an entry of the PBX manager and a loop of a tenant name a
\* provider and an adapter that exist.
TypeOK ==
    /\ phase \in Phases
    /\ requests \in 0..MaxRequests
    /\ failures \in 0..MaxFailures
    /\ rows \in [TenantIds -> Row \cup {None}]
    /\ \A id \in TenantIds : tenants[id] # None =>
           /\ tenants[id].cfg \in Configs
           /\ tenants[id].obj \in DOMAIN adapters
    /\ Len(adapters) <= MaxAdapters
    /\ \A n \in DOMAIN adapters :
           /\ adapters[n] \in Adapter
           /\ adapters[n].loop = "blocked" => adapters[n].on \in DOMAIN adapters
    /\ mgr.holder \in Goroutines \cup {None}
    /\ mgr.stopping \in TenantIds \cup {None}
    /\ mgr.todo \subseteq TenantIds
    /\ behind \subseteq TenantIds
    /\ tokens \in [TenantIds -> TokenRows]
    /\ answered \in [TenantIds -> 0..MaxRequests]
    /\ dropped \in [TenantIds -> 0..MaxRequests]
    /\ bicom_systems \in [Systems -> SystemRows]
    /\ systems \in [Systems -> Entry \cup {None}]
    /\ \A n \in Providers : providers[n] \in ProviderType

-----------------------------------------------------------------------------
(* Tenants *)

IsLoaded(n) ==
    LET id == adapters[n].tenant IN tenants[id] # None /\ tenants[id].obj = adapters[n].obj

\* A goroutine that handles events of a tenant belongs to the tenant the manager has: none is
\* left of a tenant that was removed or replaced, whose events it would handle beside the new
\* one's.
ReadersAreLoaded == \A n \in DOMAIN adapters : adapters[n].loop # "none" => IsLoaded(n)

Superseded(n) == adapters[n].obj # 0 /\ n # Current(adapters[n].obj)

\* A link to a PMS that is open and that nobody will ever close: the router's own, the one of
\* LoadFromDB that the Start of StartAll replaced, or the one of a Start that failed at the PBX.
\* There is no other leak.
OrphansHaveACause ==
    \A n \in DOMAIN adapters : adapters[n].state = "open" =>
        \/ IsLoaded(n) /\ ~Superseded(n)
        \/ adapters[n].obj = 0
        \/ Superseded(n) /\ adapters[Current(adapters[n].obj)].tenant = adapters[n].tenant
        \/ ~adapters[n].started

\* A tenant that was stopped and is still in the map, and is not being stopped now.
LeftStopped(id) == tenants[id] # None /\ Link(id).state = "closed" /\ mgr.stopping # id

\* When no reload is under way, and the last one saw the row as it is: a tenant that runs is
\* one of an enabled row, has the settings of that row, and a link to the PMS that they name.
MapFollowsRows ==
    \A id \in TenantIds :
        /\ phase = "serve"
        /\ mgr.holder = None
        /\ id \notin behind
        /\ tenants[id] # None
        => /\ Wanted(rows, id)
           /\ ~LeftStopped(id) => /\ tenants[id].cfg = rows[id].cfg
                                  /\ PmsOf[Link(id).cfg] = PmsOf[rows[id].cfg]

\* A port that a listening adapter needs was taken, perhaps.
MayLackPort == \E n \in DOMAIN adapters : adapters[n].cfg \in ListenConfigs

\* An event was on its way to a channel when its adapter or its provider was closed.
EventOvertaken ==
    \/ \E n \in DOMAIN adapters : adapters[n].overtaken
    \/ \E n \in Providers : providers[n].overtaken

\* What ends the process, and what leaves a stopped tenant in the map, for the next reload to
\* stop again and panic, takes a connection or a query that failed, a port that is taken, or an
\* event that a Close overtook (which a plain reload or shutdown may do): there is no fourth.
OnlyFailuresAbort ==
    phase \in {"fatal", "panicked"} \/ (phase = "serve" /\ \E id \in TenantIds : LeftStopped(id))
        => failures > 0 \/ MayLackPort \/ EventOvertaken

Reloading == mgr.holder \in Workers

\* A reload closes the link of no tenant that its list has enabled with the host and port that
\* the tenant has: settings change without a new connection.
ReloadKeepsLinks ==
    [][\A id \in TenantIds :
          /\ Reloading
          /\ tenants[id] # None
          /\ Wanted(work[mgr.holder].snap, id)
          /\ PmsOf[work[mgr.holder].snap[id].cfg] = PmsOf[Link(id).cfg]
          => adapters'[Current(tenants[id].obj)].state = Link(id).state]_vars

StartedOnce(id) == tenants[id] # None /\ Cardinality(AdaptersOf(tenants[id].obj)) = 1

\* The manager, which waits for the loops of a tenant with its lock held, goes on, if the
\* tenant was started once and the Close of its adapter returns. (One that boot started twice
\* may keep the lock for ever, and so does a Close that waits for itself.)
StopsReturn ==
    \A id \in TenantIds :
        mgr.stopping = id /\ StartedOnce(id) /\ Link(id).state # "closing"
            ~> mgr.stopping # id \/ ~Running

-----------------------------------------------------------------------------
(* iLink *)

Waiting(id) == LET n == CHOOSE m \in Registered(id) : TRUE IN adapters[n].queue

\* Every request that is answered with success has its event in the channel, except when this
\* was full - and there they stay: what the router put there is read by nobody.
AnsweredIsQueued ==
    \A id \in TenantIds : Registered(id) # {} =>
        /\ Waiting(id) = answered[id] - dropped[id]
        /\ dropped[id] > 0 => Waiting(id) = Capacity

\* What the comment of the adapter says of its channel: an event that was put there is in a
\* channel that a goroutine of the tenant, if it runs, reads from.
AnsweredIsReadable ==
    \A n \in DOMAIN adapters :
        /\ adapters[n].queue > 0
        /\ tenants[adapters[n].tenant] # None
        /\ ~LeftStopped(adapters[n].tenant)
        => \E m \in DOMAIN adapters :
               /\ adapters[m].loop # "none"
               /\ n = Current(adapters[m].obj)

-----------------------------------------------------------------------------
(* PBX systems *)

\* A provider that was closed stays closed, unless a connection was being made meanwhile; and
\* only an event that a Close overtook, or a second stop, ends the process with a panic.
CloseIsFinal ==
    /\ \A n \in Providers : LET p == providers[n] IN
           p.closed /\ ~p.overtaken => ~p.client /\ ~p.subscribed /\ p.retry # "dialling"
    /\ phase = "panicked" => EventOvertaken \/ \E id \in TenantIds : LeftStopped(id)

Reported(s) == {providers[n].dial : n \in {m \in Providers : providers[m].system = s}}

\* A system is shown connected, or disconnected, if a connection to it was made, or failed; but
\* it need not be the connection of its entry.
ConnectedWasReported ==
    \A s \in Systems : systems[s] # None =>
        /\ systems[s].state = "connected" => "reported_up" \in Reported(s)
        /\ systems[s].state = "disconnected" => "reported_down" \in Reported(s)

=============================================================================
