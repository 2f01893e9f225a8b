------------------------------- MODULE ILink -------------------------------
(***************************************************************************)
(* The iLink endpoints of internal/pms/tigertms/tigertms.go with their     *)
(* inbound tokens. The router opens an adapter of its own for every tenant *)
(* that speaks this protocol when it is built, and a request puts its      *)
(* event there, or drops it when the channel is full.                      *)
(***************************************************************************)
EXTENDS TenantManager

CONSTANTS Capacity      \* of an adapter's channel

ASSUME CapacityAssumption == Capacity \in Nat \ {0}

VARIABLES
    tokens,     \* the row of each tenant: "none", "enabled" or "revoked"
    answered,   \* requests of each tenant that were answered with success
    dropped     \* events of each tenant that found the channel full

ilinkVars == <<tokens, answered, dropped>>

\* A row of tenant_inbound_tokens is disabled to revoke it, and never removed.
TokenRows == {"none", "enabled", "revoked"}

LookupTenantInboundTokenByHash(id) == tokens[id] = "enabled"

ILinkInit ==
    /\ tokens \in [TenantIds -> {"none", "enabled"}]
    /\ answered = [id \in TenantIds |-> 0]
    /\ dropped = [id \in TenantIds |-> 0]

SpeaksILink(id) == Wanted(rows, id) /\ rows[id].cfg \in TigerConfigs

BuildRouter ==
    /\ MainDid("start")
    /\ MainGoes("routes", {id \in TenantIds : SpeaksILink(id)})
    /\ UNCHANGED <<tenantVars, ilinkVars>>

\* The adapter belongs to no Tenant object: 0 stands for the router.
RegisterTenant(id) ==
    /\ MainHas("routes", id)
    /\ adapters' = Append(adapters, [Created(id, 0, rows[id].cfg, "ok") EXCEPT !.loop = "none"])
    /\ work' = [work EXCEPT ![Main].todo = @ \ {id}]
    /\ UNCHANGED <<phase, requests, failures, rows, tenants, mgr, behind, ilinkVars>>

ListenAndServe ==
    /\ MainDid("routes")
    /\ phase' = "serve"
    /\ UNCHANGED <<work, requests, failures, tenantVars, ilinkVars>>

\* The unique index is on the tenant alone: a tenant has one token, for good.
createTenantToken(w, id) ==
    /\ tokens[id] = "none"
    /\ Request(w, Idle)
    /\ tokens' = [tokens EXCEPT ![id] = "enabled"]
    /\ UNCHANGED <<tenantVars, answered, dropped>>

revokeTenantToken(w, id) ==
    /\ tokens[id] = "enabled"
    /\ Request(w, Idle)
    /\ tokens' = [tokens EXCEPT ![id] = "revoked"]
    /\ UNCHANGED <<tenantVars, answered, dropped>>

\* resolveAndAuth: the token, and then the adapter that is registered for its tenant. A request
\* goes no further without one, or if its body is not what the endpoint requires.
Registered(id) == {n \in DOMAIN adapters : adapters[n].obj = 0 /\ adapters[n].tenant = id}

resolveAndAuth(w, id) ==
    /\ LookupTenantInboundTokenByHash(id)
    /\ \E valid \in BOOLEAN :
           Request(w, IF valid /\ Registered(id) # {} THEN [at |-> "post", id |-> id] ELSE Idle)
    /\ UNCHANGED <<tenantVars, ilinkVars>>

\* Mutant: what finds the channel full is lost without a trace.
EnqueuedOrLost(n) ==
    /\ adapters' = IF adapters[n].queue < Capacity
                   THEN [adapters EXCEPT ![n].queue = @ + 1] ELSE adapters
    /\ UNCHANGED dropped

\* What enqueue does with the event; the answer is the same.
Enqueued(n) ==
    IF adapters[n].queue < Capacity
    THEN /\ adapters' = [adapters EXCEPT ![n].queue = @ + 1]
         /\ UNCHANGED dropped
    ELSE /\ dropped' = [dropped EXCEPT ![adapters[n].tenant] = @ + 1]
         /\ UNCHANGED adapters

handleSet(w) ==
    /\ work[w].at = "post"
    /\ \E n \in Registered(work[w].id) : Enqueued(n)
    /\ answered' = [answered EXCEPT ![work[w].id] = @ + 1]
    /\ Goes(w, Idle)
    /\ UNCHANGED <<rows, tenants, mgr, behind, tokens>>

ILinkNext ==
    \/ BuildRouter \/ ListenAndServe
    \/ \E id \in TenantIds : RegisterTenant(id)
    \/ \E w \in Workers :
        \/ handleSet(w)
        \/ \E id \in TenantIds :
            createTenantToken(w, id) \/ revokeTenantToken(w, id) \/ resolveAndAuth(w, id)

=============================================================================
