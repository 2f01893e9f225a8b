---------------------- MODULE HospitalityServer_proofs ----------------------
(***************************************************************************)
(* Theorems about HospitalityServer, for any numbers of tenants, systems,  *)
(* settings, requests and goroutines that serve them.                      *)
(***************************************************************************)
EXTENDS HospitalityServer, FiniteSetTheorems, TLAPS

USE ProcessAssumption, ConfigAssumption, CapacityAssumption, ProviderAssumption
    DEF ProcessAssumption, ConfigAssumption, CapacityAssumption, ProviderAssumption

\* The states of an adapter whose Close was called.
Shut == {"closing", "closed"}

USE DEF processVars, tenantVars, ilinkVars, pbxVars, Goroutines, Goes, MainHas, MainDid, Shut

----------------------------------------------------------------------------
(***************************************************************************)
(* What the goroutines are doing.                                          *)
(***************************************************************************)

Plain == [at : {"idle", "written"}]
Reads == [at : {"read"}, id : TenantIds, row : Row]
Reloads == [at : {"listed", "invalidate", "follow"},
            snap : [TenantIds -> Row \cup {None}], only : SUBSET TenantIds]
Posts == [at : {"post"}, id : TenantIds]
SystemLists == [at : {"systems"}, enabled : SUBSET Systems]
Connects == [at : {"connect"}, todo : SUBSET Systems, turn : SUBSET Systems,
             got : Systems \cup {None}]
TenantLists == [at : {"main"}, todo : SUBSET TenantIds]

WorkerJobs == Plain \cup Reads \cup Reloads \cup Posts \cup SystemLists \cup Connects
MainJobs == Plain \cup Connects \cup TenantLists

WorkTypes ==
    /\ work \in [Goroutines -> WorkerJobs \cup MainJobs]
    /\ \A w \in Workers : work[w] \in WorkerJobs
    /\ work[Main] \in MainJobs
    /\ phase = "connect" => work[Main] \in Connects
    /\ phase \in {"tenants", "start", "routes"} => work[Main] \in TenantLists

\* The lock of the tenant manager.
Locks == [holder : Goroutines \cup {None}, todo : SUBSET TenantIds,
          stopping : TenantIds \cup {None}]

ProcessTypes ==
    /\ phase \in Phases
    /\ requests \in 0..MaxRequests
    /\ failures \in 0..MaxFailures
    /\ rows \in [TenantIds -> Row \cup {None}]
    /\ mgr \in Locks
    /\ behind \subseteq TenantIds
    /\ tokens \in [TenantIds -> TokenRows]
    /\ bicom_systems \in [Systems -> SystemRows]

\* What is at a given step of its work has the fields of that step.
LEMMA Shapes ==
    ASSUME NEW job \in WorkerJobs \cup MainJobs
    PROVE  /\ job.at = "read" => job \in Reads
           /\ job.at \in {"listed", "invalidate", "follow"} => job \in Reloads
           /\ job.at = "post" => job \in Posts
           /\ job.at = "systems" => job \in SystemLists
           /\ job.at = "connect" => job \in Connects
           /\ job.at = "main" => job \in TenantLists
BY DEF WorkerJobs, MainJobs, Plain, Reads, Reloads, Posts, SystemLists, Connects, TenantLists

\* A worker goes on.
LEMMA WorkerGoes ==
    ASSUME WorkTypes, phase' = phase, NEW w \in Workers, NEW job \in WorkerJobs,
           work' = [work EXCEPT ![w] = job]
    PROVE  WorkTypes'
<1>1. work'[Main] = work[Main] /\ \A v \in Workers : work'[v] = IF v = w THEN job ELSE work[v]
  BY DEF WorkTypes
<1>2. QED
  BY <1>1 DEF WorkTypes

\* main goes on.
LEMMA MainGoesOn ==
    ASSUME WorkTypes, NEW job \in MainJobs, work' = [work EXCEPT ![Main] = job],
           phase' = "connect" => job \in Connects,
           phase' \in {"tenants", "start", "routes"} => job \in TenantLists
    PROVE  WorkTypes'
<1>1. work'[Main] = job /\ \A v \in Workers : work'[v] = work[v]
  BY DEF WorkTypes
<1>2. QED
  BY <1>1 DEF WorkTypes

\* Nobody goes on.
LEMMA NobodyGoes ==
    ASSUME WorkTypes, work' = work,
           phase' = phase \/ phase' \notin {"connect", "tenants", "start", "routes"}
    PROVE  WorkTypes'
BY DEF WorkTypes

\* main does not come to a phase in which it has a list.
Phased == phase' = phase \/ phase' \notin {"connect", "tenants", "start", "routes"}

\* The jobs of the goroutines keep their form.
LEMMA TenantWork ==
    ASSUME WorkTypes, ProcessTypes, TenantNext
    PROVE  WorkTypes'
<1>1. CASE LoadFromDB
  BY <1>1, MainGoesOn DEF LoadFromDB, MainGoes, TenantLists, MainJobs
<1>2. CASE BeginStartAll
  BY <1>2, MainGoesOn DEF BeginStartAll, MainGoes, TenantLists, MainJobs, Loaded
<1>3. CASE LoadFails \/ BeginStopAll \/ StopSteps
  <2>1. work' = work /\ Phased
    BY <1>3 DEF LoadFails, BeginStopAll, StopSteps, EndStopAll, StopAll, StoppedInAll, Phased
  <2>2. QED
    BY <2>1, NobodyGoes DEF Phased
<1>4. ASSUME NEW id \in TenantIds, NEW outcome \in Outcomes,
             LoadTenant(id, outcome) \/ StartAll(id, outcome)
      PROVE  WorkTypes'
  <2>1. /\ phase \in {"tenants", "start"}
        /\ work' = [work EXCEPT ![Main].todo = @ \ {id}]
        /\ phase' = phase \/ phase' = "fatal"
    BY <1>4 DEF LoadTenant, StartAll
  <2>2. work[Main] \in TenantLists
    BY <2>1 DEF WorkTypes
  <2> DEFINE job == [work[Main] EXCEPT !.todo = @ \ {id}]
  <2>3. job \in TenantLists
    BY <2>2 DEF TenantLists
  <2>4. work' = [work EXCEPT ![Main] = job]
    BY <2>1
  <2> HIDE DEF job
  <2>5. QED
    BY <2>1, <2>3, <2>4, MainGoesOn DEF MainJobs
<1>5. ASSUME NEW n \in DOMAIN adapters,
             Loop(n) \/ LoopHandles(n) \/ handlePBXEvent(n) \/ SendsOnClosed(n)
      PROVE  WorkTypes'
  <2>1. work' = work /\ phase' \in {phase, "panicked"}
    BY <1>5 DEF Loop, LoopSelects, LoopEnds, LoopHandles, handlePBXEvent, SendsOnClosed
  <2>2. QED
    BY <2>1, NobodyGoes
<1>6. ASSUME NEW w \in Workers, ReloadSteps(w) \/ ListFails(w)
      PROVE  WorkTypes'
  <2>1. CASE ListTenants(w)
    <3>1. [at |-> "listed", snap |-> rows, only |-> TenantIds] \in Reloads
      BY DEF Reloads, ProcessTypes
    <3>2. QED
      BY <2>1, <3>1, WorkerGoes DEF ListTenants, WorkerJobs
  <2>2. CASE LockManager(w)
    <3>1. work[w] \in Reloads
      BY <2>2, Shapes DEF LockManager, WorkTypes
    <3>2. [work[w] EXCEPT !.at = "follow"] \in Reloads
      BY <3>1 DEF Reloads
    <3>3. QED
      BY <2>2, <3>2, WorkerGoes DEF LockManager, WorkerJobs
  <2>3. CASE StopsTwice(w) \/ UnlockManager(w) \/ ListFails(w)
    <3>1. Idle \in Plain
      BY DEF Idle, Plain
    <3>2. work' = [work EXCEPT ![w] = Idle] /\ phase' = phase
      BY <2>3 DEF StopsTwice, UnlockManager, ListFails
    <3>3. QED
      BY <3>1, <3>2, WorkerGoes DEF WorkerJobs
  <2>4. ASSUME NEW id \in TenantIds,
               \/ StopTenant(w, id) \/ RemoveTenant(w, id) \/ UpdateTenant(w, id)
               \/ \E outcome \in Outcomes :
                     RestartTenant(w, id, outcome) \/ StartTenant(w, id, outcome)
        PROVE  WorkTypes'
    <3>1. UNCHANGED <<phase, work>>
      BY <2>4 DEF StopTenant, RemoveTenant, UpdateTenant, RestartTenant, StartTenant, Replace
    <3>2. QED
      BY <3>1, NobodyGoes
  <2>5. QED
    BY <1>6, <2>1, <2>2, <2>3, <2>4 DEF ReloadSteps
<1>7. ASSUME NEW w \in Workers, NEW row \in Row, updateTenantWrites(w, row)
      PROVE  WorkTypes'
  <2>1. [at |-> "written"] \in Plain
    BY DEF Plain
  <2>2. QED
    BY <1>7, <2>1, WorkerGoes DEF updateTenantWrites, WorkerJobs
<1>8. ASSUME NEW w \in Workers, NEW id \in TenantIds,
             \/ updateTenantReads(w, id) \/ deleteTenant(w, id) \/ importTenants(w, id)
             \/ \E cfg \in Configs : createTenant(w, id, cfg)
      PROVE  WorkTypes'
  <2>1. [at |-> "written"] \in Plain
    BY DEF Plain
  <2>2. rows[id] # None => [at |-> "read", id |-> id, row |-> rows[id]] \in Reads
    BY DEF Reads, ProcessTypes
  <2>3. [rows EXCEPT ![id] = None] \in [TenantIds -> Row \cup {None}]
    BY DEF ProcessTypes
  <2>4. [at |-> "invalidate", snap |-> [rows EXCEPT ![id] = None], only |-> {id}] \in Reloads
    BY <2>3 DEF Reloads
  <2>5. PICK job \in WorkerJobs : work' = [work EXCEPT ![w] = job] /\ phase' = phase
    BY <1>8, <2>1, <2>2, <2>4
       DEF updateTenantReads, deleteTenant, importTenants, createTenant, Request, WorkerJobs
  <2>6. QED
    BY <2>5, WorkerGoes
<1>9. QED
  BY <1>1, <1>2, <1>3, <1>4, <1>5, <1>6, <1>7, <1>8 DEF TenantNext

\* So do those of the endpoints.
LEMMA ILinkWork ==
    ASSUME WorkTypes, ProcessTypes, ILinkNext
    PROVE  WorkTypes'
<1>1. CASE BuildRouter
  BY <1>1, MainGoesOn DEF BuildRouter, MainGoes, TenantLists, MainJobs
<1>2. CASE ListenAndServe
  BY <1>2, NobodyGoes DEF ListenAndServe
<1>3. ASSUME NEW id \in TenantIds, RegisterTenant(id)
      PROVE  WorkTypes'
  <2>1. work[Main] \in TenantLists
    BY <1>3 DEF RegisterTenant, WorkTypes
  <2> DEFINE job == [work[Main] EXCEPT !.todo = @ \ {id}]
  <2>2. job \in TenantLists
    BY <2>1 DEF TenantLists
  <2>3. work' = [work EXCEPT ![Main] = job] /\ phase' = phase
    BY <1>3 DEF RegisterTenant
  <2> HIDE DEF job
  <2>4. QED
    BY <1>3, <2>2, <2>3, MainGoesOn DEF MainJobs, RegisterTenant
<1>4. ASSUME NEW w \in Workers, handleSet(w)
      PROVE  WorkTypes'
  <2>1. Idle \in Plain
    BY DEF Idle, Plain
  <2>2. QED
    BY <1>4, <2>1, WorkerGoes DEF handleSet, WorkerJobs
<1>5. ASSUME NEW w \in Workers, NEW id \in TenantIds,
             createTenantToken(w, id) \/ revokeTenantToken(w, id) \/ resolveAndAuth(w, id)
      PROVE  WorkTypes'
  <2>1. Idle \in Plain /\ [at |-> "post", id |-> id] \in Posts
    BY DEF Idle, Plain, Posts
  <2>2. PICK job \in WorkerJobs : work' = [work EXCEPT ![w] = job] /\ phase' = phase
    BY <1>5, <2>1
       DEF createTenantToken, revokeTenantToken, resolveAndAuth, Request, WorkerJobs
  <2>3. QED
    BY <2>2, WorkerGoes
<1>6. QED
  BY <1>1, <1>2, <1>3, <1>4, <1>5 DEF ILinkNext

\* And those of the PBX manager.
LEMMA PbxWork ==
    ASSUME WorkTypes, ProcessTypes, PbxNext
    PROVE  WorkTypes'
<1>1. CASE ProviderNext \/ \E n \in Providers : Reports(n)
  <2>1. work' = work /\ Phased
    BY <1>1 DEF ProviderNext, Dialled, Reconnected, SubscriptionLost, ReconnectChecks,
                EventArrives, EventSent, Reports, Phased
  <2>2. QED
    BY <2>1, NobodyGoes DEF Phased
<1>2. CASE LoadFromDBSystems
  <2>1. \A listed \in SUBSET Systems : ConnectList(listed, listed) \in Connects
    BY DEF ConnectList, Connects
  <2>2. PICK listed \in SUBSET Systems :
           work' = [work EXCEPT ![Main] = ConnectList(listed, listed)]
    BY <1>2 DEF LoadFromDBSystems, Enabled
  <2>3. QED
    BY <1>2, <2>1, <2>2, MainGoesOn DEF LoadFromDBSystems, MainJobs
<1>3. CASE SystemsLoaded \/ CloseSystems
  BY <1>3, NobodyGoes DEF SystemsLoaded, CloseSystems
<1>4. ASSUME NEW w \in Goroutines,
             Connect(w) \/ \E s \in Systems : GetBicomSystem(w, s) \/ TurnOf(w, s)
      PROVE  WorkTypes'
  <2>1. work[w] \in Connects
    BY <1>4, Shapes DEF Connect, GetBicomSystem, TurnOf, Connecting, WorkTypes
  <2>2. PICK job \in Connects : work' = [work EXCEPT ![w] = job] /\ phase' = phase
    <3>1. \A s : /\ Passed(work[w], s) \in Connects
                 /\ s \in Systems => /\ [work[w] EXCEPT !.got = s] \in Connects
                                     /\ [work[w] EXCEPT !.turn = {s}] \in Connects
      BY <2>1 DEF Connects, Passed
    <3>2. CASE Connect(w)
      BY <3>1, <3>2 DEF Connect
    <3>3. ASSUME NEW s \in Systems, GetBicomSystem(w, s)
          PROVE  \E job \in Connects : work' = [work EXCEPT ![w] = job] /\ phase' = phase
      BY <3>1, <3>3 DEF GetBicomSystem
    <3>4. ASSUME NEW s \in Systems, TurnOf(w, s)
          PROVE  \E job \in Connects : work' = [work EXCEPT ![w] = job] /\ phase' = phase
      BY <3>1, <3>4 DEF TurnOf
    <3>5. QED
      BY <1>4, <3>2, <3>3, <3>4
  <2>3. w = Main => work[Main] \notin TenantLists
    BY <2>1 DEF Connects, TenantLists
  <2>4. QED
    BY <2>2, <2>3, WorkerGoes, MainGoesOn DEF WorkerJobs, MainJobs, WorkTypes
<1>5. ASSUME NEW w \in Goroutines, ConnectsDone(w)
      PROVE  WorkTypes'
  <2>1. Idle \in Plain
    BY DEF Idle, Plain
  <2>2. QED
    BY <1>5, <2>1, WorkerGoes DEF ConnectsDone, WorkerJobs
<1>6. ASSUME NEW w \in Workers,
             \/ ReloadSystems(w) \/ FollowSystems(w)
             \/ \E s \in Systems :
                   ReloadSystem(w, s) \/ \E state \in SystemRows : WriteSystem(w, s, state)
      PROVE  WorkTypes'
  <2>1. CASE ReloadSystems(w)
    <3>1. Idle \in Plain /\ [at |-> "systems", enabled |-> Enabled] \in SystemLists
      BY DEF Idle, Plain, Enabled, SystemLists
    <3>2. QED
      BY <2>1, <3>1, WorkerGoes DEF ReloadSystems, Request, WorkerJobs
  <2>2. CASE FollowSystems(w)
    <3>1. work[w] \in SystemLists
      BY <2>2, Shapes DEF FollowSystems, WorkTypes
    <3>2. ConnectList(work[w].enabled, {}) \in Connects
      BY <3>1 DEF ConnectList, Connects, SystemLists
    <3>3. QED
      BY <2>2, <3>2, WorkerGoes DEF FollowSystems, WorkerJobs
  <2>3. ASSUME NEW s \in Systems, ReloadSystem(w, s)
        PROVE  WorkTypes'
    <3>1. ConnectList({s}, {s}) \in Connects
      BY DEF ConnectList, Connects
    <3>2. QED
      BY <2>3, <3>1, WorkerGoes DEF ReloadSystem, Request, WorkerJobs
  <2>4. ASSUME NEW s \in Systems, NEW state \in SystemRows, WriteSystem(w, s, state)
        PROVE  WorkTypes'
    <3>1. Idle \in Plain
      BY DEF Idle, Plain
    <3>2. QED
      BY <2>4, <3>1, WorkerGoes DEF WriteSystem, Request, WorkerJobs
  <2>5. QED
    BY <1>6, <2>1, <2>2, <2>3, <2>4
<1>7. QED
  BY <1>1, <1>2, <1>3, <1>4, <1>5, <1>6 DEF PbxNext

----------------------------------------------------------------------------
(***************************************************************************)
(* The process, the tables and the lock of the tenant manager.             *)
(***************************************************************************)

\* The manager turns to a tenant, or has done with it.
LEMMA LocksKept ==
    ASSUME mgr \in Locks, NEW id \in TenantIds,
           \/ mgr' = mgr
           \/ mgr' = [mgr EXCEPT !.stopping = id]
           \/ mgr' = [mgr EXCEPT !.todo = @ \ {id}]
           \/ mgr' = [mgr EXCEPT !.stopping = None, !.todo = @ \ {id}]
    PROVE  mgr' \in Locks
<1>1. mgr.todo \ {id} \in SUBSET TenantIds
  BY DEF Locks
<1>2. QED
  BY <1>1 DEF Locks

\* What a tenant step does with them.
LEMMA TenantProcess ==
    ASSUME WorkTypes, ProcessTypes, TenantNext, UNCHANGED <<tokens, bicom_systems>>
    PROVE  ProcessTypes'
<1> USE DEF ProcessTypes, Locks
<1>1. CASE LoadFromDB \/ LoadFails \/ BeginStartAll
  BY <1>1 DEF LoadFromDB, LoadFails, BeginStartAll, MainGoes, Fails, Phases
<1>2. CASE BeginStopAll \/ StopSteps
  <2>1. CASE BeginStopAll
    BY <2>1 DEF BeginStopAll, Phases, Loaded
  <2>2. CASE EndStopAll
    BY <2>2 DEF EndStopAll, Phases
  <2>3. ASSUME NEW id \in TenantIds, StopAll(id) \/ StoppedInAll(id)
        PROVE  ProcessTypes'
    <3>1. /\ phase' \in {phase, "panicked"} /\ UNCHANGED <<requests, failures, rows, behind>>
          /\ \/ mgr' = mgr
             \/ mgr' = [mgr EXCEPT !.stopping = id]
             \/ mgr' = [mgr EXCEPT !.stopping = None, !.todo = @ \ {id}]
      <4>1. CASE StopAll(id) /\ AlreadyStopped(id)
        BY <4>1 DEF StopAll
      <4>2. CASE StopAll(id) /\ ~ AlreadyStopped(id)
        BY <4>2 DEF StopAll, Stop
      <4>3. CASE StoppedInAll(id)
        BY <4>3 DEF StoppedInAll
      <4>4. QED
        BY <2>3, <4>1, <4>2, <4>3
    <3>2. QED
      BY <3>1, LocksKept DEF Phases, Locks
  <2>4. QED
    BY <1>2, <2>1, <2>2, <2>3 DEF StopSteps
<1>3. ASSUME NEW id \in TenantIds, NEW outcome \in Outcomes,
             LoadTenant(id, outcome) \/ StartAll(id, outcome)
      PROVE  ProcessTypes'
  BY <1>3 DEF LoadTenant, StartAll, Start, Fails, Phases
<1>4. ASSUME NEW n \in DOMAIN adapters,
             Loop(n) \/ LoopHandles(n) \/ handlePBXEvent(n) \/ SendsOnClosed(n)
      PROVE  ProcessTypes'
  BY <1>4 DEF Loop, LoopSelects, LoopEnds, LoopHandles, handlePBXEvent, SendsOnClosed, Phases
<1>5. ASSUME NEW w \in Workers, ReloadSteps(w) \/ ListFails(w)
      PROVE  ProcessTypes'
  <2>1. CASE ListTenants(w) \/ ListFails(w)
    BY <2>1 DEF ListTenants, ListFails, Fails
  <2>2. CASE LockManager(w)
    <3>1. work[w] \in Reloads
      BY <2>2, Shapes DEF LockManager, WorkTypes
    <3>2. PICK todo \in SUBSET TenantIds :
             mgr' = [mgr EXCEPT !.holder = w, !.todo = todo]
      BY <2>2, <3>1 DEF LockManager, Reloads
    <3>3. QED
      BY <2>2, <3>2 DEF LockManager
  <2>3. CASE StopsTwice(w) \/ UnlockManager(w)
    <3>1. work[w] \in Reloads
      BY <2>3, Shapes DEF StopsTwice, UnlockManager, At, WorkTypes
    <3>2. Outdated(work[w]) \subseteq TenantIds
      BY <3>1 DEF Outdated, Reloads
    <3>3. QED
      BY <2>3, <3>2 DEF StopsTwice, UnlockManager
  <2>4. ASSUME NEW id \in TenantIds,
               \/ StopTenant(w, id) \/ RemoveTenant(w, id) \/ UpdateTenant(w, id)
               \/ \E outcome \in Outcomes :
                     RestartTenant(w, id, outcome) \/ StartTenant(w, id, outcome)
        PROVE  ProcessTypes'
    <3>1. /\ \/ mgr' = [mgr EXCEPT !.todo = @ \ {id}]
             \/ mgr' = [mgr EXCEPT !.stopping = id]
             \/ mgr' = [mgr EXCEPT !.stopping = None, !.todo = @ \ {id}]
          /\ UNCHANGED <<phase, requests, rows, behind>>
      <4>1. CASE StopTenant(w, id)
        BY <4>1 DEF StopTenant, Stop
      <4>2. CASE RemoveTenant(w, id) \/ UpdateTenant(w, id)
        BY <4>2 DEF RemoveTenant, UpdateTenant
      <4>3. ASSUME NEW outcome \in Outcomes, Replace(w, id, outcome)
            PROVE  /\ mgr' = [mgr EXCEPT !.stopping = None, !.todo = @ \ {id}]
                   /\ UNCHANGED <<phase, requests, rows, behind>>
        BY <4>3 DEF Replace
      <4>4. QED
        BY <2>4, <4>1, <4>2, <4>3 DEF RestartTenant, StartTenant
    <3>2. failures' \in 0..MaxFailures
      <4>1. CASE StopTenant(w, id) \/ RemoveTenant(w, id) \/ UpdateTenant(w, id)
        BY <4>1 DEF StopTenant, RemoveTenant, UpdateTenant
      <4>2. ASSUME NEW outcome \in Outcomes,
                   RestartTenant(w, id, outcome) \/ StartTenant(w, id, outcome)
            PROVE  failures' \in 0..MaxFailures
        <5>1. PICK failing \in BOOLEAN : Fails(failing)
          <6>1. PICK failing : /\ failing = (outcome # "ok" /\ StartOutcomes(work[w].snap[id].cfg) # {"pms"})
                               /\ Fails(failing)
            BY <4>2 DEF RestartTenant, StartTenant, Replace, Start
          <6>2. QED
            BY <6>1
        <5>2. QED
          BY <5>1 DEF Fails
      <4>3. QED
        BY <2>4, <4>1, <4>2
    <3>3. QED
      BY <3>1, <3>2, LocksKept DEF Locks
  <2>5. QED
    BY <1>5, <2>1, <2>2, <2>3, <2>4 DEF ReloadSteps
<1>6. ASSUME NEW w \in Workers, NEW row \in Row, updateTenantWrites(w, row)
      PROVE  ProcessTypes'
  <2>1. work[w] \in Reads
    BY <1>6, Shapes DEF updateTenantWrites, WorkTypes
  <2>2. QED
    BY <1>6, <2>1 DEF updateTenantWrites, Writes, Reads
<1>7. ASSUME NEW w \in Workers, NEW id \in TenantIds,
             \/ updateTenantReads(w, id) \/ deleteTenant(w, id) \/ importTenants(w, id)
             \/ \E cfg \in Configs : createTenant(w, id, cfg)
      PROVE  ProcessTypes'
  <2>1. \A cfg \in Configs : [enabled |-> TRUE, cfg |-> cfg] \in Row
    BY DEF Row
  <2>2. requests' \in 0..MaxRequests /\ UNCHANGED <<phase, failures>>
    <3>1. PICK job : Request(w, job)
      BY <1>7 DEF updateTenantReads, deleteTenant, importTenants, createTenant
    <3>2. QED
      BY <3>1 DEF Request
  <2>3. \/ UNCHANGED <<rows, behind>>
        \/ \E row \in Row \cup {None} : Writes(id, row)
    BY <1>7, <2>1 DEF updateTenantReads, deleteTenant, importTenants, createTenant
  <2>4. UNCHANGED mgr
    BY <1>7 DEF updateTenantReads, deleteTenant, importTenants, createTenant
  <2>5. QED
    BY <2>2, <2>3, <2>4 DEF Writes
<1>8. QED
  BY <1>1, <1>2, <1>3, <1>4, <1>5, <1>6, <1>7 DEF TenantNext

\* What a step of the endpoints does with them.
LEMMA ILinkProcess ==
    ASSUME ProcessTypes, ILinkNext, UNCHANGED bicom_systems
    PROVE  ProcessTypes'
<1> USE DEF ProcessTypes, Locks
<1>1. CASE BuildRouter \/ ListenAndServe
  BY <1>1 DEF BuildRouter, ListenAndServe, MainGoes, Phases
<1>2. ASSUME NEW id \in TenantIds, RegisterTenant(id)
      PROVE  ProcessTypes'
  BY <1>2 DEF RegisterTenant
<1>3. ASSUME NEW w \in Workers, handleSet(w)
      PROVE  ProcessTypes'
  BY <1>3 DEF handleSet
<1>4. ASSUME NEW w \in Workers, NEW id \in TenantIds,
             createTenantToken(w, id) \/ revokeTenantToken(w, id) \/ resolveAndAuth(w, id)
      PROVE  ProcessTypes'
  <2>1. requests' \in 0..MaxRequests /\ UNCHANGED <<phase, failures, rows, mgr, behind>>
    BY <1>4 DEF createTenantToken, revokeTenantToken, resolveAndAuth, Request
  <2>2. \/ tokens' = tokens
        \/ tokens' = [tokens EXCEPT ![id] = "enabled"]
        \/ tokens' = [tokens EXCEPT ![id] = "revoked"]
    BY <1>4 DEF createTenantToken, revokeTenantToken, resolveAndAuth
  <2>3. QED
    BY <2>1, <2>2 DEF TokenRows
<1>5. QED
  BY <1>1, <1>2, <1>3, <1>4 DEF ILinkNext

\* What a step of the PBX manager does with them.
LEMMA PbxProcess ==
    ASSUME ProcessTypes, PbxNext, UNCHANGED <<tenantVars, ilinkVars>>
    PROVE  ProcessTypes'
<1> USE DEF ProcessTypes, Locks
<1>1. CASE ProviderNext
  <2>1. phase' \in {phase, "panicked"} /\ requests' = requests /\ bicom_systems' = bicom_systems
    BY <1>1 DEF ProviderNext, Dialled, Reconnected, SubscriptionLost, ReconnectChecks,
                EventArrives, EventSent, Provider
  <2>2. failures' \in 0..MaxFailures
    BY <1>1 DEF ProviderNext, Dialled, Reconnected, SubscriptionLost, ReconnectChecks,
                EventArrives, EventSent, Provider, Fails
  <2>3. QED
    BY <2>1, <2>2 DEF Phases
<1>2. CASE \E n \in Providers : Reports(n)
  BY <1>2 DEF Reports
<1>3. CASE LoadFromDBSystems \/ SystemsLoaded \/ CloseSystems
  BY <1>3 DEF LoadFromDBSystems, SystemsLoaded, CloseSystems, Fails, Phases
<1>4. ASSUME NEW w \in Goroutines,
             \/ Connect(w) \/ ConnectsDone(w)
             \/ \E s \in Systems : GetBicomSystem(w, s) \/ TurnOf(w, s)
      PROVE  ProcessTypes'
  <2>1. UNCHANGED <<phase, requests, bicom_systems>>
    BY <1>4 DEF Connect, ConnectsDone, GetBicomSystem, TurnOf
  <2>2. failures' = failures \/ \E broken \in BOOLEAN : Fails(broken)
    BY <1>4 DEF Connect, ConnectsDone, GetBicomSystem, TurnOf
  <2>3. failures' \in 0..MaxFailures
    BY <2>2 DEF Fails
  <2>4. QED
    BY <2>1, <2>3
<1>5. ASSUME NEW w \in Workers,
             \/ ReloadSystems(w) \/ FollowSystems(w)
             \/ \E s \in Systems :
                   ReloadSystem(w, s) \/ \E state \in SystemRows : WriteSystem(w, s, state)
      PROVE  ProcessTypes'
  <2>1. CASE FollowSystems(w)
    BY <2>1 DEF FollowSystems
  <2>2. CASE ~ FollowSystems(w)
    <3>1. PICK job : Request(w, job)
      BY <1>5, <2>2 DEF ReloadSystems, ReloadSystem, WriteSystem
    <3>2. requests' \in 0..MaxRequests /\ UNCHANGED <<phase, failures>>
      BY <3>1 DEF Request
    <3>3. \/ bicom_systems' = bicom_systems
          \/ \E s \in Systems, state \in SystemRows :
                bicom_systems' = [bicom_systems EXCEPT ![s] = state]
      BY <1>5, <2>2 DEF ReloadSystems, ReloadSystem, WriteSystem
    <3>4. QED
      BY <3>2, <3>3
  <2>3. QED
    BY <2>1, <2>2
<1>6. QED
  BY <1>1, <1>2, <1>3, <1>4, <1>5 DEF PbxNext

\* The process and what its goroutines do.
Process == WorkTypes /\ ProcessTypes

\* It begins so.
LEMMA ProcessInitially == Init => Process
<1> SUFFICES ASSUME Init PROVE Process
  OBVIOUS
<1>1. ProcessTypes
  <2>1. tokens \in [TenantIds -> TokenRows]
    BY DEF Init, ILinkInit, TokenRows
  <2>2. QED
    BY <2>1 DEF Init, ProcessInit, TenantInit, PbxInit, ProcessTypes, Locks, Phases
<1>2. WorkTypes
  <2>1. Idle \in Plain
    BY DEF Idle, Plain
  <2>2. QED
    BY <2>1 DEF Init, ProcessInit, WorkTypes, WorkerJobs, MainJobs
<1>3. QED
  BY <1>1, <1>2 DEF Process

\* It stays so.
LEMMA ProcessStep == Process /\ [Next]_vars => Process'
<1> SUFFICES ASSUME Process, [Next]_vars PROVE Process'
  OBVIOUS
<1> USE DEF Process
<1>1. CASE TenantNext /\ UNCHANGED <<ilinkVars, pbxVars>>
  BY <1>1, TenantWork, TenantProcess
<1>2. CASE ILinkNext /\ UNCHANGED pbxVars
  BY <1>2, ILinkWork, ILinkProcess
<1>3. CASE PbxNext /\ UNCHANGED <<tenantVars, ilinkVars>>
  BY <1>3, PbxWork, PbxProcess
<1>4. CASE UNCHANGED vars
  BY <1>4 DEF vars, WorkTypes, ProcessTypes
<1>5. QED
  BY <1>1, <1>2, <1>3, <1>4 DEF Next

----------------------------------------------------------------------------
(***************************************************************************)
(* The providers and the entries of the PBX manager.                       *)
(***************************************************************************)

\* A closed provider that was not overtaken is out of use.
Silent(p) == /\ ~ p.connected /\ ~ p.client /\ ~ p.subscribed /\ ~ p.handling
             /\ p.dial # "dialling" /\ p.retry # "dialling"

ClosedAreSilent ==
    \A n \in Providers : /\ providers[n].closed /\ ~ providers[n].overtaken => Silent(providers[n])
                         /\ providers[n].overtaken => providers[n].closed

\* An entry has a provider of its own, which nobody has closed.
EntriesAreOpen ==
    \A s \in Systems : systems[s] # None =>
        /\ systems[s] \in Entry
        /\ providers[systems[s].provider].system = s
        /\ ~ providers[systems[s].provider].closed

\* What a state of an entry shows.
StatesWereReported ==
    \A s \in Systems : systems[s] # None =>
        /\ systems[s].state = "connected" =>
              \E n \in Providers : providers[n].system = s /\ providers[n].dial = "reported_up"
        /\ systems[s].state = "disconnected" =>
              \E n \in Providers : providers[n].system = s /\ providers[n].dial = "reported_down"

PbxInv ==
    /\ providers \in Seq(ProviderType)
    /\ DOMAIN systems = Systems
    /\ ClosedAreSilent
    /\ EntriesAreOpen
    /\ StatesWereReported

\* A function on the numbers up to n is a sequence of length n.
LEMMA NumberedIsSeq ==
    ASSUME NEW S, NEW n \in Nat, NEW f \in [1..n -> S]
    PROVE  f \in Seq(S) /\ Len(f) = n
OBVIOUS

\* One provider changes, and the outcome of its first connection, once reported, stays.
LEMMA OneProvider ==
    ASSUME PbxInv, NEW n \in Providers, NEW p \in ProviderType, Provider(n, p),
           p.system = providers[n].system, p.closed = providers[n].closed,
           p.overtaken = providers[n].overtaken,
           providers[n].dial \in {"reported_up", "reported_down"} => p.dial = providers[n].dial,
           p.closed /\ ~ p.overtaken => Silent(p)
    PROVE  PbxInv'
<1>1. /\ providers' \in Seq(ProviderType) /\ Len(providers') = Len(providers)
      /\ providers'[n] = p /\ \A m \in Providers : m # n => providers'[m] = providers[m]
  BY DEF PbxInv, Provider, Providers
<1>2. Providers' = Providers /\ DOMAIN providers = Providers /\ DOMAIN providers' = Providers
  BY <1>1 DEF Providers, PbxInv
<1>3. systems' = systems
  BY DEF Provider
<1>4. ClosedAreSilent'
  BY <1>1, <1>2 DEF PbxInv, ClosedAreSilent, Silent
<1>5. EntriesAreOpen'
  BY <1>1, <1>2, <1>3 DEF PbxInv, EntriesAreOpen, Entry
<1>6. StatesWereReported'
  <2>1. \A m \in Providers : /\ providers'[m].system = providers[m].system
                             /\ \A d \in {"reported_up", "reported_down"} :
                                   providers[m].dial = d => providers'[m].dial = d
    BY <1>1
  <2>2. QED
    BY <1>2, <1>3, <2>1 DEF PbxInv, StatesWereReported
<1>7. QED
  BY <1>1, <1>3, <1>4, <1>5, <1>6 DEF PbxInv

\* The entries of some systems go, and their providers are closed.
LEMMA SystemsClose ==
    ASSUME PbxInv, NEW ids \in SUBSET Systems, Closing(ids), Forget(ids)
    PROVE  PbxInv'
<1>1. /\ DOMAIN providers = Providers /\ Providers = 1..Len(providers) /\ Len(providers) \in Nat
      /\ \A n \in Providers : providers[n] \in ProviderType
  BY DEF PbxInv, Providers
<1>2. \A p \in ProviderType : Closed(p) \in ProviderType
  <2>1. \A p : Busy(p) \in BOOLEAN
    BY Zenon DEF Busy
  <2>2. ASSUME NEW p \in ProviderType
        PROVE  Closed(p) \in ProviderType
    <3>1. PICK b \in BOOLEAN : b = Busy(p)
      BY <2>1, Zenon
    <3>2. PICK r \in {"none", "check", "dialling"} : r = IF p.subscribed THEN "check" ELSE p.retry
      BY DEF ProviderType
    <3>3. Closed(p) = [p EXCEPT !.connected = FALSE, !.client = FALSE, !.subscribed = FALSE,
                                !.closed = TRUE, !.retry = r, !.overtaken = b]
      BY <3>1, <3>2 DEF Closed
    <3>4. QED
      BY <3>3 DEF ProviderType
  <2>3. QED
    BY <2>2
<1>3. providers' \in [1..Len(providers) -> ProviderType]
  BY <1>1, <1>2 DEF Closing
<1>4. providers' \in Seq(ProviderType) /\ Len(providers') = Len(providers)
  BY <1>1, <1>3, NumberedIsSeq
<1>5. Providers' = Providers /\ DOMAIN providers' = Providers
  BY <1>1, <1>4 DEF Providers
<1>6. \A n \in Providers : providers'[n] \in {providers[n], Closed(providers[n])}
  BY DEF Closing
<1>7. \A s \in Systems : systems'[s] = IF s \in ids THEN None ELSE systems[s]
  BY DEF Forget
<1>8. \A p \in ProviderType :
          /\ Closed(p).system = p.system /\ Closed(p).dial = p.dial /\ Closed(p).closed
          /\ ~ Closed(p).overtaken => Silent(Closed(p))
  <2>1. ASSUME NEW p \in ProviderType
        PROVE  /\ Closed(p).system = p.system /\ Closed(p).dial = p.dial /\ Closed(p).closed
               /\ ~ Closed(p).overtaken => Silent(Closed(p))
    <3>1. PICK r : r = IF p.subscribed THEN "check" ELSE p.retry
      OBVIOUS
    <3>2. PICK b : b = Busy(p)
      OBVIOUS
    <3>3. Closed(p) = [p EXCEPT !.connected = FALSE, !.client = FALSE, !.subscribed = FALSE,
                                !.closed = TRUE, !.retry = r, !.overtaken = b]
      BY <3>1, <3>2 DEF Closed
    <3>4. /\ Closed(p).system = p.system /\ Closed(p).dial = p.dial
          /\ Closed(p).closed /\ ~ Closed(p).connected /\ ~ Closed(p).client
          /\ ~ Closed(p).subscribed /\ Closed(p).handling = p.handling
          /\ Closed(p).retry = r /\ Closed(p).overtaken = b
      BY <3>3 DEF ProviderType
    <3>5. ~ b => p.dial # "dialling" /\ r # "dialling" /\ ~ p.handling
      BY <3>1, <3>2 DEF Busy
    <3>6. QED
      BY <3>4, <3>5 DEF Silent
  <2>2. QED
    BY <2>1
<1>9. ClosedAreSilent'
  <2>1. ASSUME NEW n \in Providers
        PROVE  /\ providers'[n].closed /\ ~ providers'[n].overtaken => Silent(providers'[n])
               /\ providers'[n].overtaken => providers'[n].closed
    <3>1. CASE providers'[n] = providers[n]
      BY <3>1 DEF PbxInv, ClosedAreSilent
    <3>2. CASE providers'[n] = Closed(providers[n])
      BY <1>1, <1>8, <3>2
    <3>3. QED
      BY <1>6, <3>1, <3>2
  <2>2. QED
    BY <1>5, <2>1 DEF ClosedAreSilent
<1>10. \A s \in Systems \ ids : systems[s] # None =>
           providers'[systems[s].provider] = providers[systems[s].provider]
  <2>1. ASSUME NEW s \in Systems \ ids, systems[s] # None
        PROVE  providers'[systems[s].provider] = providers[systems[s].provider]
    <3>1. systems[s].provider \in Providers /\ providers[systems[s].provider].system = s
      BY <1>1, <2>1 DEF PbxInv, EntriesAreOpen, Entry
    <3>2. \A t \in ids : systems[t] # None => systems[t].provider # systems[s].provider
      BY <3>1, <2>1 DEF PbxInv, EntriesAreOpen
    <3>3. QED
      BY <3>1, <3>2 DEF Closing
  <2>2. QED
    BY <2>1
<1>11. EntriesAreOpen'
  BY <1>1, <1>5, <1>7, <1>10 DEF PbxInv, EntriesAreOpen, Entry
<1>12. StatesWereReported'
  <2>1. \A n \in Providers : /\ providers'[n].system = providers[n].system
                             /\ providers'[n].dial = providers[n].dial
    BY <1>1, <1>6, <1>8
  <2>2. QED
    BY <1>5, <1>7, <2>1 DEF PbxInv, StatesWereReported
<1>13. DOMAIN systems' = Systems
  BY DEF Forget
<1>14. QED
  BY <1>4, <1>9, <1>11, <1>12, <1>13 DEF PbxInv

\* What the event loops and the dialling goroutines of the providers do.
LEMMA ProvidersStep ==
    ASSUME PbxInv, ProviderNext
    PROVE  PbxInv'
<1> SUFFICES ASSUME NEW n \in Providers,
                    \/ \E ok \in BOOLEAN : Dialled(n, ok) \/ Reconnected(n, ok)
                    \/ SubscriptionLost(n) \/ ReconnectChecks(n) \/ EventArrives(n) \/ EventSent(n)
             PROVE  PbxInv'
  BY DEF ProviderNext
<1> DEFINE q == providers[n]
<1>1. q \in ProviderType
  BY DEF PbxInv, Providers
<1>2. q.closed /\ ~ q.overtaken => Silent(q)
  BY DEF PbxInv, ClosedAreSilent
<1>3. ASSUME NEW p, Provider(n, p), p \in ProviderType,
             p.system = q.system, p.closed = q.closed, p.overtaken = q.overtaken,
             q.dial \in {"reported_up", "reported_down"} => p.dial = q.dial,
             p.closed /\ ~ p.overtaken => Silent(p)
      PROVE  PbxInv'
  BY <1>3, OneProvider
<1> HIDE DEF q
<1>4. ASSUME NEW ok \in BOOLEAN, Dialled(n, ok)
      PROVE  PbxInv'
  <2> DEFINE p == IF ok THEN [Connected(q) EXCEPT !.dial = "up"] ELSE [q EXCEPT !.dial = "down"]
  <2>1. Provider(n, p) /\ q.dial = "dialling"
    BY <1>4 DEF Dialled, q
  <2>2. p \in ProviderType /\ p.system = q.system /\ p.closed = q.closed /\ p.overtaken = q.overtaken
    BY <1>1 DEF Connected, ProviderType
  <2>3. ~ (q.closed /\ ~ q.overtaken)
    BY <1>2, <2>1 DEF Silent
  <2> HIDE DEF p
  <2>4. QED
    BY <1>3, <2>1, <2>2, <2>3
<1>5. ASSUME NEW ok \in BOOLEAN, Reconnected(n, ok)
      PROVE  PbxInv'
  <2> DEFINE p == IF ok THEN [Connected(q) EXCEPT !.retry = "none", !.tries = 0]
                        ELSE [q EXCEPT !.retry = "check"]
  <2>1. Provider(n, p) /\ q.retry = "dialling"
    BY <1>5 DEF Reconnected, q
  <2>2. /\ p \in ProviderType /\ p.system = q.system /\ p.closed = q.closed
        /\ p.overtaken = q.overtaken /\ p.dial = q.dial
    <3>1. 0 \in 0..MaxTries
      OBVIOUS
    <3>2. Connected(q) \in ProviderType
      BY <1>1 DEF Connected, ProviderType
    <3>3. [Connected(q) EXCEPT !.retry = "none", !.tries = 0] \in ProviderType
      BY <3>1, <3>2 DEF ProviderType
    <3>4. [q EXCEPT !.retry = "check"] \in ProviderType
      BY <1>1 DEF ProviderType
    <3>5. QED
      BY <1>1, <3>3, <3>4 DEF Connected, ProviderType
  <2>3. ~ (q.closed /\ ~ q.overtaken)
    BY <1>2, <2>1 DEF Silent
  <2> HIDE DEF p
  <2>4. QED
    BY <1>3, <2>1, <2>2, <2>3
<1>6. CASE SubscriptionLost(n)
  <2> DEFINE p == [q EXCEPT !.subscribed = FALSE, !.retry = "check", !.lost = TRUE]
  <2>1. Provider(n, p) /\ q.subscribed
    BY <1>6 DEF SubscriptionLost, q
  <2>2. /\ p \in ProviderType /\ p.system = q.system /\ p.closed = q.closed
        /\ p.overtaken = q.overtaken /\ p.dial = q.dial
    BY <1>1 DEF ProviderType
  <2>3. ~ (q.closed /\ ~ q.overtaken)
    BY <1>2, <2>1 DEF Silent
  <2> HIDE DEF p
  <2>4. QED
    BY <1>3, <2>1, <2>2, <2>3
<1>7. CASE ReconnectChecks(n)
  <2> DEFINE p == IF q.connected /\ q.tries < MaxTries
                  THEN [q EXCEPT !.retry = "dialling", !.tries = @ + 1]
                  ELSE [q EXCEPT !.retry = "none", !.tries = 0]
  <2>1. Provider(n, p)
    BY <1>7 DEF ReconnectChecks, q
  <2>2. /\ p \in ProviderType /\ p.system = q.system /\ p.closed = q.closed
        /\ p.overtaken = q.overtaken /\ p.dial = q.dial
    <3>1. 0 \in 0..MaxTries /\ (q.tries < MaxTries => q.tries + 1 \in 0..MaxTries)
      BY <1>1 DEF ProviderType
    <3>2. q.tries < MaxTries =>
              [q EXCEPT !.retry = "dialling", !.tries = @ + 1] \in ProviderType
      BY <1>1, <3>1 DEF ProviderType
    <3>3. [q EXCEPT !.retry = "none", !.tries = 0] \in ProviderType
      BY <1>1, <3>1 DEF ProviderType
    <3>4. QED
      BY <1>1, <3>2, <3>3 DEF ProviderType
  <2>3. Silent(q) => Silent(p)
    BY <1>1 DEF Silent, ProviderType
  <2> HIDE DEF p
  <2>4. QED
    BY <1>2, <1>3, <2>1, <2>2, <2>3
<1>8. CASE EventArrives(n)
  <2> DEFINE p == [q EXCEPT !.handling = TRUE]
  <2>1. Provider(n, p) /\ q.subscribed
    BY <1>8 DEF EventArrives, q
  <2>2. /\ p \in ProviderType /\ p.system = q.system /\ p.closed = q.closed
        /\ p.overtaken = q.overtaken /\ p.dial = q.dial
    BY <1>1 DEF ProviderType
  <2>3. ~ (q.closed /\ ~ q.overtaken)
    BY <1>2, <2>1 DEF Silent
  <2> HIDE DEF p
  <2>4. QED
    BY <1>3, <2>1, <2>2, <2>3
<1>9. CASE EventSent(n)
  <2> DEFINE p == [q EXCEPT !.handling = FALSE]
  <2>1. Provider(n, p)
    BY <1>9 DEF EventSent, q
  <2>2. /\ p \in ProviderType /\ p.system = q.system /\ p.closed = q.closed
        /\ p.overtaken = q.overtaken /\ p.dial = q.dial
    BY <1>1 DEF ProviderType
  <2>3. Silent(q) => Silent(p)
    BY <1>1 DEF Silent, ProviderType
  <2> HIDE DEF p
  <2>4. QED
    BY <1>2, <1>3, <2>1, <2>2, <2>3
<1>10. QED
  BY <1>4, <1>5, <1>6, <1>7, <1>8, <1>9

\* The goroutine of Connect writes its outcome into the entry it finds.
LEMMA ReportsStep ==
    ASSUME PbxInv, NEW n \in Providers, Reports(n)
    PROVE  PbxInv'
<1> DEFINE s == providers[n].system
           d == IF providers[n].dial = "up" THEN "reported_up" ELSE "reported_down"
           state == IF providers[n].dial = "up" THEN "connected" ELSE "disconnected"
           p == [providers[n] EXCEPT !.dial = d]
<1>1. /\ DOMAIN providers = Providers /\ providers[n] \in ProviderType
      /\ \A m \in Providers : providers[m] \in ProviderType
  BY DEF PbxInv, Providers
<1>2. /\ providers[n].dial \in {"up", "down"}
      /\ providers' = [providers EXCEPT ![n] = p]
  BY DEF Reports
<1>3. p \in ProviderType /\ p.system = s /\ p.dial = d /\ p.closed = providers[n].closed
      /\ p.overtaken = providers[n].overtaken /\ (Silent(providers[n]) => Silent(p))
  BY <1>1 DEF ProviderType, Silent
<1>4. s \in Systems
  BY <1>1 DEF ProviderType
<1>5. IF systems[s] = None THEN systems' = systems
      ELSE systems' = [systems EXCEPT ![s].state = state]
  BY DEF Reports
<1> HIDE DEF p
<1>6. /\ providers' \in Seq(ProviderType) /\ Len(providers') = Len(providers)
      /\ providers'[n] = p /\ \A m \in Providers : m # n => providers'[m] = providers[m]
  BY <1>2, <1>3 DEF PbxInv, Providers
<1>7. Providers' = Providers /\ DOMAIN providers' = Providers
  BY <1>6 DEF Providers
<1>8. ClosedAreSilent'
  BY <1>3, <1>6, <1>7 DEF PbxInv, ClosedAreSilent
<1>9. \A m \in Providers : /\ providers'[m].system = providers[m].system
                           /\ providers'[m].closed = providers[m].closed
                           /\ \A o \in {"reported_up", "reported_down"} :
                                 providers[m].dial = o => providers'[m].dial = o
  BY <1>2, <1>3, <1>6
<1>10. DOMAIN systems' = Systems /\ \A t \in Systems : t # s => systems'[t] = systems[t]
  BY <1>5 DEF PbxInv
<1>11. systems[s] # None => /\ systems'[s] \in Entry /\ systems'[s].state = state
                            /\ systems'[s].provider = systems[s].provider
  <2>1. systems[s] # None => systems[s] \in Entry
    BY <1>4 DEF PbxInv, EntriesAreOpen
  <2>2. state \in {"connecting", "connected", "disconnected"}
    OBVIOUS
  <2>3. systems[s] # None => systems'[s] = [systems[s] EXCEPT !.state = state]
    BY <1>4, <1>5 DEF PbxInv
  <2> HIDE DEF state, s
  <2>4. QED
    BY <2>1, <2>2, <2>3 DEF Entry
<1>12. systems[s] = None => systems'[s] = None
  BY <1>5
<1>13. Entry' = Entry
  BY <1>1, <1>7 DEF Entry
<1>14. EntriesAreOpen'
  <2>1. \A t \in Systems : systems[t] # None => systems[t].provider \in Providers
    BY <1>1 DEF PbxInv, EntriesAreOpen, Entry
  <2>2. \A t \in Systems : systems'[t] # None =>
            /\ systems[t] # None /\ systems'[t] \in Entry
            /\ systems'[t].provider = systems[t].provider
    BY <1>10, <1>11, <1>12 DEF PbxInv, EntriesAreOpen
  <2> HIDE DEF s, d, state
  <2>3. QED
    BY <1>9, <1>13, <2>1, <2>2 DEF PbxInv, EntriesAreOpen
<1>15. StatesWereReported'
  <2>1. providers'[n].system = s /\ providers'[n].dial = d
    BY <1>3, <1>6
  <2>2. ASSUME NEW t \in Systems, systems'[t] # None, t # s
        PROVE  /\ systems'[t].state = "connected" => \E m \in Providers :
                      providers'[m].system = t /\ providers'[m].dial = "reported_up"
               /\ systems'[t].state = "disconnected" => \E m \in Providers :
                      providers'[m].system = t /\ providers'[m].dial = "reported_down"
    BY <1>9, <1>10, <2>2 DEF PbxInv, StatesWereReported
  <2>3. ASSUME systems'[s] # None
        PROVE  /\ systems'[s].state = "connected" => \E m \in Providers :
                      providers'[m].system = s /\ providers'[m].dial = "reported_up"
               /\ systems'[s].state = "disconnected" => \E m \in Providers :
                      providers'[m].system = s /\ providers'[m].dial = "reported_down"
    BY <1>2, <1>11, <1>12, <2>1, <2>3
  <2>4. QED
    BY <1>7, <2>2, <2>3 DEF StatesWereReported
<1>16. QED
  BY <1>6, <1>8, <1>10, <1>14, <1>15 DEF PbxInv

\* Connect puts a new provider into the place of an entry that is not connected.
LEMMA ConnectStep ==
    ASSUME PbxInv, NEW w \in Goroutines, work[w] \in Connects, Connect(w)
    PROVE  PbxInv'
<1> DEFINE s == work[w].got
           entry == [provider |-> Len(providers) + 1, state |-> "connecting"]
<1>1. CASE UNCHANGED <<systems, providers>>
  BY <1>1 DEF PbxInv, ClosedAreSilent, EntriesAreOpen, StatesWereReported, Providers, Entry
<1>2. CASE /\ providers' = Append(providers, NewProvider(s))
           /\ systems' = [systems EXCEPT ![s] = entry]
  <2>1. s \in Systems
    BY DEF Connect, Connects
  <2>2. NewProvider(s) \in ProviderType
    BY <2>1 DEF NewProvider, ProviderType
  <2>3. /\ providers' \in Seq(ProviderType) /\ Len(providers) \in Nat
        /\ Len(providers') = Len(providers) + 1
        /\ providers'[Len(providers) + 1] = NewProvider(s)
        /\ \A m \in Providers : providers'[m] = providers[m]
    BY <1>2, <2>2 DEF PbxInv, Providers
  <2>4. /\ Providers' = Providers \cup {Len(providers) + 1}
        /\ DOMAIN providers = Providers /\ DOMAIN providers' = Providers'
    BY <2>3 DEF Providers, PbxInv
  <2>5. /\ NewProvider(s).system = s /\ ~ NewProvider(s).closed /\ ~ NewProvider(s).overtaken
    BY DEF NewProvider
  <2>6. ClosedAreSilent'
    BY <2>3, <2>4, <2>5 DEF PbxInv, ClosedAreSilent
  <2>7. /\ DOMAIN systems' = Systems /\ systems'[s] = entry
        /\ \A t \in Systems : t # s => systems'[t] = systems[t]
    BY <1>2, <2>1 DEF PbxInv
  <2>8. entry \in Entry' /\ \A e \in Entry : e \in Entry' /\ e.provider \in Providers
    BY <2>4 DEF Entry
  <2>9. entry.provider = Len(providers) + 1 /\ entry.state = "connecting"
    OBVIOUS
  <2> HIDE DEF s, entry
  <2>10. EntriesAreOpen'
    BY <2>3, <2>5, <2>7, <2>8, <2>9 DEF PbxInv, EntriesAreOpen
  <2>11. StatesWereReported'
    BY <2>3, <2>4, <2>7, <2>9 DEF PbxInv, StatesWereReported
  <2>12. QED
    BY <2>3, <2>6, <2>7, <2>10, <2>11 DEF PbxInv
<1>3. QED
  BY <1>1, <1>2 DEF Connect

\* Every step keeps it.
LEMMA PbxStep == Process /\ PbxInv /\ [Next]_vars => PbxInv'
<1> SUFFICES ASSUME Process, PbxInv, [Next]_vars PROVE PbxInv'
  OBVIOUS
<1>1. ASSUME UNCHANGED <<systems, providers>> PROVE PbxInv'
  BY <1>1 DEF PbxInv, ClosedAreSilent, EntriesAreOpen, StatesWereReported, Providers, Entry
<1>2. CASE TenantNext /\ UNCHANGED <<ilinkVars, pbxVars>>
  BY <1>1, <1>2
<1>3. CASE ILinkNext /\ UNCHANGED pbxVars
  BY <1>1, <1>3
<1>4. CASE UNCHANGED vars
  BY <1>1, <1>4 DEF vars
<1>5. CASE PbxNext
  <2>1. CASE ProviderNext
    BY <2>1, ProvidersStep
  <2>2. CASE \E n \in Providers : Reports(n)
    BY <2>2, ReportsStep
  <2>3. CASE LoadFromDBSystems \/ SystemsLoaded
    BY <1>1, <2>3 DEF LoadFromDBSystems, SystemsLoaded
  <2>4. CASE CloseSystems
    BY <2>4, SystemsClose DEF CloseSystems
  <2>5. ASSUME NEW w \in Goroutines, Connect(w)
        PROVE  PbxInv'
    BY <2>5, ConnectStep, Shapes DEF Connect, Connecting, Process, WorkTypes
  <2>6. ASSUME NEW w \in Goroutines,
               ConnectsDone(w) \/ \E s \in Systems : GetBicomSystem(w, s) \/ TurnOf(w, s)
        PROVE  PbxInv'
    BY <1>1, <2>6 DEF ConnectsDone, GetBicomSystem, TurnOf
  <2>7. ASSUME NEW w \in Workers,
               ReloadSystems(w) \/ \E s \in Systems, state \in SystemRows : WriteSystem(w, s, state)
        PROVE  PbxInv'
    BY <1>1, <2>7 DEF ReloadSystems, WriteSystem
  <2>8. ASSUME NEW w \in Workers, FollowSystems(w)
        PROVE  PbxInv'
    BY <2>8, SystemsClose DEF FollowSystems
  <2>9. ASSUME NEW w \in Workers, NEW s \in Systems, ReloadSystem(w, s)
        PROVE  PbxInv'
    BY <2>9, SystemsClose DEF ReloadSystem
  <2>10. QED
    BY <1>5, <2>1, <2>2, <2>3, <2>4, <2>5, <2>6, <2>7, <2>8, <2>9 DEF PbxNext
<1>6. QED
  BY <1>2, <1>3, <1>4, <1>5 DEF Next

\* It holds in every reachable state.
LEMMA PbxInvInductive == Spec => [](Process /\ PbxInv)
<1>1. Init => Process /\ PbxInv
  <2>1. ASSUME Init PROVE PbxInv
    BY <2>1 DEF Init, PbxInit, PbxInv, ClosedAreSilent, EntriesAreOpen, StatesWereReported,
                Providers
  <2>2. QED
    BY <2>1, ProcessInitially
<1>2. QED
  BY <1>1, ProcessStep, PbxStep, PTL DEF Spec

\* A system that is shown connected, or disconnected, is so because a connection to it was
\* made, or failed.
THEOREM ConnectionsWereReported == Spec => []ConnectedWasReported
<1>1. PbxInv => ConnectedWasReported
  BY DEF PbxInv, StatesWereReported, ConnectedWasReported, Reported
<1>2. QED
  BY <1>1, PbxInvInductive, PTL

----------------------------------------------------------------------------
(***************************************************************************)
(* Who holds the lock of the tenant manager, and when.                     *)
(***************************************************************************)

Booting == phase \in {"systems", "connect", "load", "tenants", "start", "routes"}

\* Nobody serves requests before main does.
Quiet == Booting => /\ \A w \in Workers : work[w] = Idle
                    /\ mgr.holder = None
                    /\ behind = {}

\* The holder is the goroutine that follows its list, or main while it stops all tenants;
\* the tenant it waits for is on the list.
Held ==
    /\ mgr.holder = None => mgr.todo = {}
    /\ mgr.stopping # None => mgr.stopping \in mgr.todo
    /\ \A w \in Workers : work[w].at = "follow" <=> mgr.holder = w
    /\ phase = "stop" => mgr.holder = Main
    /\ mgr.holder = Main => phase \in {"stop", "panicked"}

LockInv == Quiet /\ Held

\* Steps that have nothing to do with the lock.
LEMMA LockApart ==
    ASSUME LockInv, WorkTypes, mgr' = mgr, NEW w \in Goroutines, NEW job,
           work' = work \/ work' = [work EXCEPT ![w] = job],
           w \in Workers /\ work' # work =>
               ~ Booting' /\ work[w].at # "follow" /\ job.at # "follow",
           Booting' => Booting /\ behind' = behind,
           phase' = phase \/ (phase' # "stop" /\ (mgr.holder # Main \/ phase' = "panicked"))
    PROVE  LockInv'
<1>1. \A v \in Workers : v # w => work'[v] = work[v]
  BY DEF WorkTypes
<1>2. w \in Workers => work'[w] = work[w] \/ work'[w] = job
  BY DEF WorkTypes
<1>3. \A v \in Workers : work'[v].at = "follow" <=> work[v].at = "follow"
  BY <1>1, <1>2
<1>4. Held'
  BY <1>3 DEF LockInv, Held
<1>5. Booting' => \A v \in Workers : work'[v] = work[v]
  BY <1>1, <1>2
<1>6. Quiet'
  BY <1>5 DEF LockInv, Quiet
<1>7. QED
  BY <1>4, <1>6 DEF LockInv

\* The holder goes on to another tenant of its list.
LEMMA LockGoesOn ==
    ASSUME LockInv, ProcessTypes, work' = work, phase' = phase, behind' = behind,
           mgr.holder # None, NEW id \in mgr.todo,
           \/ mgr' = [mgr EXCEPT !.stopping = id]
           \/ mgr' = [mgr EXCEPT !.stopping = None, !.todo = @ \ {id}]
           \/ mgr.stopping = None /\ mgr' = [mgr EXCEPT !.todo = @ \ {id}]
    PROVE  LockInv'
<1>1. mgr'.holder = mgr.holder
  BY DEF ProcessTypes, Locks
<1>2. mgr'.stopping # None => mgr'.stopping \in mgr'.todo
  BY DEF ProcessTypes, Locks
<1>3. QED
  BY <1>1, <1>2 DEF LockInv, Held, Quiet, Booting

\* What the tenants' part does with the lock.
LEMMA TenantLock ==
    ASSUME LockInv, Process, TenantNext
    PROVE  LockInv'
<1> USE DEF Process
<1>1. CASE LoadFromDB \/ LoadFails \/ BeginStartAll
  <2>1. PICK job : work' = work \/ work' = [work EXCEPT ![Main] = job]
    BY <1>1 DEF LoadFromDB, LoadFails, BeginStartAll, MainGoes
  <2>2. /\ Booting /\ mgr' = mgr /\ behind' = behind /\ phase' # "stop"
    BY <1>1 DEF LoadFromDB, LoadFails, BeginStartAll, MainGoes, Booting
  <2>3. mgr.holder # Main
    BY <2>2 DEF LockInv, Quiet
  <2>4. QED
    BY <2>1, <2>2, <2>3, LockApart
<1>2. CASE BeginStopAll
  <2>1. mgr' = [mgr EXCEPT !.holder = Main, !.todo = Loaded] /\ mgr.holder = None
        /\ phase' = "stop" /\ work' = work
    BY <1>2 DEF BeginStopAll
  <2>2. mgr.stopping = None
    BY <2>1 DEF LockInv, Held
  <2>3. mgr'.holder = Main /\ mgr'.stopping = None
    BY <2>1, <2>2 DEF ProcessTypes, Locks
  <2>4. \A w \in Workers : work[w].at # "follow"
    BY <2>1 DEF LockInv, Held
  <2>5. QED
    BY <2>1, <2>3, <2>4 DEF LockInv, Held, Quiet, Booting
<1>3. CASE EndStopAll
  <2>1. mgr' = [mgr EXCEPT !.holder = None] /\ phase = "stop" /\ mgr.todo = {}
        /\ phase' = "close" /\ work' = work
    BY <1>3 DEF EndStopAll
  <2>2. mgr.stopping = None
    BY <2>1 DEF LockInv, Held
  <2>3. mgr'.holder = None /\ mgr'.stopping = None /\ mgr'.todo = {}
    BY <2>1, <2>2 DEF ProcessTypes, Locks
  <2>4. \A w \in Workers : work[w].at # "follow"
    BY <2>1 DEF LockInv, Held
  <2>5. QED
    BY <2>1, <2>3, <2>4 DEF LockInv, Held, Quiet, Booting
<1>4. ASSUME NEW id \in TenantIds, StopAll(id)
      PROVE  LockInv'
  <2>1. CASE AlreadyStopped(id)
    <3>1. mgr' = mgr /\ work' = work /\ phase' = "panicked"
      BY <1>4, <2>1 DEF StopAll
    <3>2. QED
      BY <3>1, LockApart DEF Booting
  <2>2. CASE ~ AlreadyStopped(id)
    <3>1. /\ mgr' = [mgr EXCEPT !.stopping = id] /\ id \in mgr.todo /\ phase = "stop"
          /\ work' = work /\ phase' = phase /\ behind' = behind
      BY <1>4, <2>2 DEF StopAll, Stop
    <3>2. mgr.holder # None
      BY <3>1 DEF LockInv, Held
    <3>3. QED
      BY <3>1, <3>2, LockGoesOn
  <2>3. QED
    BY <2>1, <2>2
<1>5. ASSUME NEW id \in TenantIds, StoppedInAll(id)
      PROVE  LockInv'
  <2>1. /\ mgr' = [mgr EXCEPT !.stopping = None, !.todo = @ \ {id}] /\ mgr.stopping = id
        /\ mgr.holder = Main /\ work' = work /\ phase' = phase /\ behind' = behind
    BY <1>5 DEF StoppedInAll, Stopped
  <2>2. id \in mgr.todo
    BY <2>1 DEF LockInv, Held
  <2>3. QED
    BY <2>1, <2>2, LockGoesOn
<1>6. ASSUME NEW id \in TenantIds, NEW outcome \in Outcomes,
             LoadTenant(id, outcome) \/ StartAll(id, outcome)
      PROVE  LockInv'
  <2> DEFINE job == [work[Main] EXCEPT !.todo = @ \ {id}]
  <2>1. work' = [work EXCEPT ![Main] = job] /\ UNCHANGED <<mgr, behind>>
    BY <1>6 DEF LoadTenant, StartAll
  <2>2. Booting /\ phase' \in {phase, "fatal"}
    BY <1>6 DEF LoadTenant, StartAll, Booting
  <2>3. mgr.holder # Main
    BY <2>2 DEF LockInv, Quiet
  <2> HIDE DEF job
  <2>4. QED
    BY <2>1, <2>2, <2>3, LockApart
<1>7. ASSUME NEW n \in DOMAIN adapters,
             Loop(n) \/ LoopHandles(n) \/ handlePBXEvent(n) \/ SendsOnClosed(n)
      PROVE  LockInv'
  <2>1. UNCHANGED <<work, mgr, behind>> /\ phase' \in {phase, "panicked"}
    BY <1>7 DEF Loop, LoopSelects, LoopEnds, LoopHandles, handlePBXEvent, SendsOnClosed
  <2>2. QED
    BY <2>1 DEF LockInv, Quiet, Held, Booting
<1>8. ASSUME NEW w \in Workers, ReloadSteps(w) \/ ListFails(w)
      PROVE  LockInv'
  <2>1. CASE ListTenants(w) \/ ListFails(w)
    <3>1. PICK job : work' = [work EXCEPT ![w] = job] /\ job.at # "follow"
      <4>1. Idle.at # "follow" /\ [at |-> "listed", snap |-> rows, only |-> TenantIds].at # "follow"
        BY DEF Idle
      <4>2. QED
        BY <2>1, <4>1 DEF ListTenants, ListFails
    <3>2. work[w].at = "written" /\ mgr' = mgr /\ phase' = phase
      BY <2>1 DEF ListTenants, ListFails
    <3>3. ~ Booting
      BY <3>2 DEF LockInv, Quiet, Idle
    <3>4. ~ Booting'
      BY <3>2, <3>3 DEF Booting
    <3>5. QED
      BY <3>1, <3>2, <3>4, LockApart
  <2>2. CASE LockManager(w)
    <3>1. /\ work[w].at # "idle" /\ mgr.holder = None /\ phase' = phase
          /\ work' = [work EXCEPT ![w] = [work[w] EXCEPT !.at = "follow"]]
      BY <2>2 DEF LockManager
    <3>2. work[w] \in Reloads
      BY <2>2, Shapes DEF LockManager, WorkTypes
    <3>3. ~ Booting
      BY <3>1 DEF LockInv, Quiet, Idle
    <3>4. ~ Booting'
      BY <3>1, <3>3 DEF Booting
    <3>5. PICK todo : mgr' = [mgr EXCEPT !.holder = w, !.todo = todo]
      BY <2>2 DEF LockManager
    <3>6. mgr.stopping = None /\ \A v \in Workers : work[v].at # "follow"
      BY <3>1 DEF LockInv, Held
    <3>7. mgr'.holder = w /\ mgr'.stopping = None
      BY <3>5, <3>6 DEF ProcessTypes, Locks
    <3>8. \A v \in Workers : work'[v].at = "follow" <=> v = w
      BY <3>1, <3>2, <3>6 DEF WorkTypes, Reloads
    <3>9. phase # "stop"
      BY <3>1 DEF LockInv, Held
    <3>10. QED
      BY <3>1, <3>4, <3>7, <3>8, <3>9 DEF LockInv, Quiet, Held
  <2>3. CASE StopsTwice(w) \/ UnlockManager(w)
    <3>1. /\ work[w].at = "follow" /\ mgr.holder = w /\ mgr'.holder = None /\ mgr'.todo = {}
          /\ mgr'.stopping = mgr.stopping /\ phase' = phase
          /\ work' = [work EXCEPT ![w] = Idle]
      BY <2>3 DEF StopsTwice, UnlockManager, At, ProcessTypes, Locks
    <3>2. mgr.stopping = None
      BY <2>3 DEF StopsTwice, UnlockManager, At, LockInv, Held
    <3>3. ~ Booting
      BY <3>1 DEF LockInv, Quiet
    <3>4. ~ Booting'
      BY <3>1, <3>3 DEF Booting
    <3>5. \A v \in Workers : work'[v].at # "follow"
      BY <3>1 DEF LockInv, Held, WorkTypes, Idle
    <3>6. phase # "stop"
      BY <3>1 DEF LockInv, Held
    <3>7. QED
      BY <3>1, <3>2, <3>4, <3>5, <3>6 DEF LockInv, Quiet, Held
  <2>4. ASSUME NEW id \in TenantIds, StopTenant(w, id) \/ UpdateTenant(w, id)
        PROVE  LockInv'
    <3>1. /\ mgr.holder = w /\ id \in mgr.todo /\ mgr.stopping = None
          /\ UNCHANGED <<phase, work, behind>>
          /\ \/ mgr' = [mgr EXCEPT !.stopping = id]
             \/ mgr' = [mgr EXCEPT !.todo = @ \ {id}]
      BY <2>4 DEF StopTenant, UpdateTenant, Stop, At
    <3>2. QED
      BY <3>1, LockGoesOn
  <2>5. ASSUME NEW id \in TenantIds,
               \/ RemoveTenant(w, id)
               \/ \E outcome \in Outcomes :
                     RestartTenant(w, id, outcome) \/ StartTenant(w, id, outcome)
        PROVE  LockInv'
    <3>1. mgr.holder = w /\ UNCHANGED <<phase, work, behind>>
          /\ mgr' = [mgr EXCEPT !.stopping = None, !.todo = @ \ {id}]
      BY <2>5 DEF RemoveTenant, RestartTenant, StartTenant, Replace, Stopped, At
    <3>2. id \in mgr.todo
      BY <2>5 DEF RemoveTenant, RestartTenant, StartTenant, Stopped, At, LockInv, Held
    <3>3. QED
      BY <3>1, <3>2, LockGoesOn
  <2>6. QED
    BY <1>8, <2>1, <2>2, <2>3, <2>4, <2>5 DEF ReloadSteps
<1>9. ASSUME NEW w \in Workers, NEW row \in Row, updateTenantWrites(w, row)
      PROVE  LockInv'
  <2> DEFINE job == [at |-> "written"]
  <2>1. /\ work[w].at = "read" /\ work' = [work EXCEPT ![w] = job]
        /\ mgr' = mgr /\ phase' = phase
    BY <1>9 DEF updateTenantWrites
  <2>2. job.at # "follow"
    OBVIOUS
  <2>3. ~ Booting
    BY <2>1 DEF LockInv, Quiet, Idle
  <2>4. ~ Booting'
    BY <2>1, <2>3 DEF Booting
  <2> HIDE DEF job
  <2>5. QED
    BY <2>1, <2>2, <2>4, LockApart
<1>10. ASSUME NEW w \in Workers, NEW id \in TenantIds,
              \/ updateTenantReads(w, id) \/ deleteTenant(w, id) \/ importTenants(w, id)
              \/ \E cfg \in Configs : createTenant(w, id, cfg)
       PROVE  LockInv'
  <2>1. PICK job : Request(w, job) /\ job.at # "follow"
    <3>1. CASE updateTenantReads(w, id)
      BY <3>1 DEF updateTenantReads
    <3>2. CASE deleteTenant(w, id)
      BY <3>2 DEF deleteTenant
    <3>3. CASE importTenants(w, id)
      BY <3>3 DEF importTenants
    <3>4. CASE \E cfg \in Configs : createTenant(w, id, cfg)
      BY <3>4 DEF createTenant
    <3>5. QED
      BY <1>10, <3>1, <3>2, <3>3, <3>4
  <2>2. mgr' = mgr
    BY <1>10 DEF updateTenantReads, deleteTenant, importTenants, createTenant
  <2>3. work' = [work EXCEPT ![w] = job] /\ phase' = phase /\ ~ Booting' /\ work[w].at # "follow"
    BY <2>1 DEF Request, Booting, Idle
  <2>4. QED
    BY <2>1, <2>2, <2>3, LockApart
<1>11. QED
  BY <1>1, <1>2, <1>3, <1>4, <1>5, <1>6, <1>7, <1>8, <1>9, <1>10 DEF TenantNext, StopSteps

\* The other parts do not touch it.
LEMMA OthersLock ==
    ASSUME LockInv, Process, ILinkNext \/ PbxNext, UNCHANGED <<mgr, behind>>
    PROVE  LockInv'
<1> USE DEF Process
<1>1. ASSUME NEW job, work' = [work EXCEPT ![Main] = job], Booting, phase' # "stop"
      PROVE  LockInv'
  <2>1. mgr.holder # Main
    BY <1>1 DEF LockInv, Quiet
  <2>2. QED
    BY <1>1, <2>1, LockApart
<1>2. ASSUME NEW w \in Workers, NEW job, work' = [work EXCEPT ![w] = job], phase' = phase,
             ~ Booting, work[w].at # "follow", job.at # "follow"
      PROVE  LockInv'
  <2>1. ~ Booting'
    BY <1>2 DEF Booting
  <2>2. QED
    BY <1>2, <2>1, LockApart
<1>3. ASSUME NEW w \in Workers, NEW job, Request(w, job), job.at # "follow"
      PROVE  LockInv'
  <2>1. work' = [work EXCEPT ![w] = job] /\ phase' = phase /\ phase = "serve" /\ work[w] = Idle
    BY <1>3 DEF Request
  <2>2. Idle.at = "idle"
    BY DEF Idle
  <2>3. QED
    BY <1>2, <1>3, <2>1, <2>2 DEF Booting
<1>4. ASSUME work' = work, phase' = phase PROVE LockInv'
  BY <1>4 DEF LockInv, Quiet, Held, Booting
<1>5. CASE BuildRouter \/ LoadFromDBSystems
  <2>1. PICK job : work' = [work EXCEPT ![Main] = job]
    BY <1>5 DEF BuildRouter, LoadFromDBSystems, MainGoes
  <2>2. Booting /\ phase' # "stop"
    BY <1>5 DEF BuildRouter, LoadFromDBSystems, MainGoes, Booting
  <2>3. QED
    BY <1>1, <2>1, <2>2
<1>6. CASE ListenAndServe \/ SystemsLoaded \/ CloseSystems
  <2>1. /\ work' = work /\ (Booting \/ phase = "close") /\ phase' # "stop"
        /\ phase' \in {"serve", "load", "ended"} /\ (phase' = "load" => Booting)
    BY <1>6 DEF ListenAndServe, SystemsLoaded, CloseSystems, Booting
  <2>2. mgr.holder # Main
    BY <2>1 DEF LockInv, Quiet, Held
  <2>3. Booting' => Booting
    BY <2>1 DEF Booting
  <2>4. QED
    BY <2>1, <2>2, <2>3, LockApart
<1>7. ASSUME NEW id \in TenantIds, RegisterTenant(id)
      PROVE  LockInv'
  <2> DEFINE job == [work[Main] EXCEPT !.todo = @ \ {id}]
  <2>1. work' = [work EXCEPT ![Main] = job] /\ Booting /\ phase' # "stop"
    BY <1>7 DEF RegisterTenant, Booting
  <2> HIDE DEF job
  <2>2. QED
    BY <1>1, <2>1
<1>8. ASSUME NEW w \in Workers, handleSet(w)
      PROVE  LockInv'
  <2>1. work[w].at = "post" /\ work' = [work EXCEPT ![w] = Idle] /\ phase' = phase
    BY <1>8 DEF handleSet
  <2>2. Idle.at = "idle"
    BY DEF Idle
  <2>3. ~ Booting
    BY <2>1, <2>2 DEF LockInv, Quiet
  <2>4. QED
    BY <1>2, <2>1, <2>2, <2>3
<1>9. ASSUME NEW w \in Workers, NEW id \in TenantIds,
             createTenantToken(w, id) \/ revokeTenantToken(w, id) \/ resolveAndAuth(w, id)
      PROVE  LockInv'
  <2>1. PICK job : Request(w, job) /\ job.at # "follow"
    BY <1>9 DEF createTenantToken, revokeTenantToken, resolveAndAuth, Idle
  <2>2. QED
    BY <1>3, <2>1
<1>10. CASE ProviderNext \/ \E n \in Providers : Reports(n)
  <2>1. work' = work /\ phase' \in {phase, "panicked"}
    BY <1>10 DEF ProviderNext, Dialled, Reconnected, SubscriptionLost, ReconnectChecks,
                 EventArrives, EventSent, Reports
  <2>2. phase' = "panicked" => ~ Booting'
    BY DEF Booting
  <2>3. QED
    BY <1>4, <2>1, <2>2, LockApart
<1>11. ASSUME NEW w \in Goroutines,
              Connect(w) \/ \E s \in Systems : GetBicomSystem(w, s) \/ TurnOf(w, s)
       PROVE  LockInv'
  <2>1. work[w] \in Connects /\ phase' = phase
    BY <1>11, Shapes DEF Connect, GetBicomSystem, TurnOf, Connecting, WorkTypes
  <2>2. PICK job : work' = [work EXCEPT ![w] = job] /\ job.at = "connect"
    <3>1. \A s : /\ Passed(work[w], s).at = "connect"
                 /\ [work[w] EXCEPT !.got = s].at = "connect"
                 /\ [work[w] EXCEPT !.turn = {s}].at = "connect"
      BY <2>1 DEF Connects, Passed
    <3>2. CASE Connect(w)
      BY <3>1, <3>2 DEF Connect
    <3>3. ASSUME NEW s \in Systems, GetBicomSystem(w, s)
          PROVE  \E job : work' = [work EXCEPT ![w] = job] /\ job.at = "connect"
      BY <3>1, <3>3 DEF GetBicomSystem
    <3>4. ASSUME NEW s \in Systems, TurnOf(w, s)
          PROVE  \E job : work' = [work EXCEPT ![w] = job] /\ job.at = "connect"
      BY <3>1, <3>4 DEF TurnOf
    <3>5. QED
      BY <1>11, <3>2, <3>3, <3>4
  <2>3. work[w].at = "connect"
    BY <2>1 DEF Connects
  <2>4. CASE w \in Workers
    <3>1. ~ Booting
      BY <2>3, <2>4 DEF LockInv, Quiet, Idle
    <3>2. QED
      BY <1>2, <2>1, <2>2, <2>3, <2>4, <3>1
  <2>5. CASE w = Main
    <3>1. Booting' <=> Booting
      BY <2>1 DEF Booting
    <3>2. QED
      BY <2>1, <2>2, <2>5, <3>1, LockApart
  <2>6. QED
    BY <2>4, <2>5
<1>12. ASSUME NEW w \in Workers, ConnectsDone(w) \/ FollowSystems(w)
       PROVE  LockInv'
  <2>1. /\ work[w].at \in {"connect", "systems"} /\ phase' = phase
        /\ \E job : work' = [work EXCEPT ![w] = job] /\ job.at # "follow"
    BY <1>12 DEF ConnectsDone, FollowSystems, Connecting, ConnectList, Idle
  <2>2. ~ Booting
    BY <2>1 DEF LockInv, Quiet, Idle
  <2>3. QED
    BY <1>2, <2>1, <2>2
<1>13. ASSUME NEW w \in Workers,
              \/ ReloadSystems(w)
              \/ \E s \in Systems :
                    ReloadSystem(w, s) \/ \E state \in SystemRows : WriteSystem(w, s, state)
       PROVE  LockInv'
  <2>1. PICK job : Request(w, job) /\ job.at # "follow"
    <3>1. CASE ReloadSystems(w)
      BY <3>1 DEF ReloadSystems, Idle
    <3>2. CASE \E s \in Systems : ReloadSystem(w, s)
      <4>1. \A s : ConnectList({s}, {s}).at = "connect"
        BY DEF ConnectList
      <4>2. QED
        BY <3>2, <4>1 DEF ReloadSystem
    <3>3. CASE \E s \in Systems, state \in SystemRows : WriteSystem(w, s, state)
      <4>1. Idle.at = "idle"
        BY DEF Idle
      <4>2. QED
        BY <3>3, <4>1 DEF WriteSystem
    <3>4. QED
      BY <1>13, <3>1, <3>2, <3>3
  <2>2. QED
    BY <1>3, <2>1
<1>14. QED
  BY <1>5, <1>6, <1>7, <1>8, <1>9, <1>10, <1>11, <1>12, <1>13
     DEF ILinkNext, PbxNext, ConnectsDone

\* Every step keeps it.
LEMMA LockStep == Process /\ LockInv /\ [Next]_vars => LockInv'
<1>1. UNCHANGED vars /\ LockInv => LockInv'
  BY DEF vars, LockInv, Quiet, Held, Booting
<1>2. ILinkNext => UNCHANGED <<mgr, behind>>
  BY DEF ILinkNext, BuildRouter, ListenAndServe, RegisterTenant, handleSet, createTenantToken,
         revokeTenantToken, resolveAndAuth
<1>3. QED
  BY <1>1, <1>2, TenantLock, OthersLock DEF Next

\* It holds at the beginning.
LEMMA LockInitially == Init => LockInv
BY DEF Init, ProcessInit, TenantInit, LockInv, Quiet, Held, Idle

----------------------------------------------------------------------------
(***************************************************************************)
(* The tenants, their objects and their adapters.                          *)
(***************************************************************************)

Object == [cfg : Configs, obj : Nat]

LinkType ==
    [tenant : TenantIds, obj : Nat, cfg : Configs,
     state : {"open", "closing", "closed", "failed"}, cancelled : BOOLEAN, overtaken : BOOLEAN,
     loop : {"none", "new", "blocked"}, on : Nat, queue : 0..Capacity, started : BOOLEAN]

ObjectTypes ==
    /\ adapters \in Seq(LinkType)
    /\ tenants \in [TenantIds -> Object \cup {None}]

\* An object is named by its first adapter; all its adapters are of the same tenant.
Named ==
    \A n \in DOMAIN adapters : LET o == adapters[n].obj IN o # 0 =>
        o \in DOMAIN adapters /\ adapters[o].obj = o /\ adapters[o].tenant = adapters[n].tenant

\* The object of a tenant in the map exists.
Owned ==
    \A id \in TenantIds : tenants[id] # None => LET o == tenants[id].obj IN
        o # 0 /\ o \in DOMAIN adapters /\ adapters[o].obj = o /\ adapters[o].tenant = id

IsLast(n, o) == n \in AdaptersOf(o) /\ \A m \in AdaptersOf(o) : m <= n

HaveLast == \A o : AdaptersOf(o) # {} => \E n : IsLast(n, o)

\* A loop reads from an adapter of its own object.
ReadOwn ==
    \A n \in DOMAIN adapters : adapters[n].loop = "blocked" =>
        adapters[n].on \in AdaptersOf(adapters[n].obj)

\* The last adapter that a Start opened for an object is open only if the tenant has that object.
LastAreLoaded ==
    \A n \in DOMAIN adapters : \A o :
        adapters[n].state = "open" /\ adapters[n].started /\ IsLast(n, o) => o = 0 \/ IsLoaded(n)

Objects == ObjectTypes /\ Named /\ Owned /\ HaveLast /\ ReadOwn /\ ReadersAreLoaded /\ LastAreLoaded

\* An adapter that exists has its type.
LEMMA AdaptersTyped ==
    ASSUME ObjectTypes, NEW n \in DOMAIN adapters
    PROVE  /\ adapters[n] \in LinkType /\ adapters[n].tenant \in TenantIds
           /\ DOMAIN adapters = 1..Len(adapters) /\ Len(adapters) \in Nat
<1>1. adapters[n] \in LinkType /\ DOMAIN adapters = 1..Len(adapters) /\ Len(adapters) \in Nat
  BY DEF ObjectTypes
<1>2. QED
  BY <1>1 DEF LinkType

\* Current is the last adapter of an object.
LEMMA CurrentIsLast ==
    ASSUME ObjectTypes, NEW o, NEW n, IsLast(n, o)
    PROVE  Current(o) = n
<1>1. AdaptersOf(o) \subseteq Nat
  BY DEF ObjectTypes, AdaptersOf
<1>2. \E m \in AdaptersOf(o) : \A k \in AdaptersOf(o) : k <= m
  BY DEF IsLast
<1>3. Current(o) \in AdaptersOf(o) /\ \A k \in AdaptersOf(o) : k <= Current(o)
  BY <1>2, Zenon DEF Current
<1>4. n \in AdaptersOf(o) /\ n <= Current(o) /\ Current(o) <= n
  BY <1>3 DEF IsLast
<1>5. QED
  BY <1>1, <1>3, <1>4

\* A tenant in the map has a link.
LEMMA LinkExists ==
    ASSUME Objects, NEW id \in TenantIds, tenants[id] # None
    PROVE  LET n == Current(tenants[id].obj) IN
           /\ IsLast(n, tenants[id].obj)
           /\ n \in DOMAIN adapters /\ adapters[n].obj = tenants[id].obj
           /\ adapters[n].tenant = id
           /\ Link(id) = adapters[n]
<1> DEFINE o == tenants[id].obj
<1>1. o # 0 /\ o \in DOMAIN adapters /\ adapters[o].obj = o /\ adapters[o].tenant = id
  BY DEF Objects, Owned
<1>2. PICK n : IsLast(n, o)
  BY <1>1 DEF Objects, HaveLast, AdaptersOf
<1>3. n = Current(o)
  BY <1>2, CurrentIsLast DEF Objects
<1>4. n \in DOMAIN adapters /\ adapters[n].obj = o
  BY <1>2 DEF IsLast, AdaptersOf
<1>5. adapters[n].tenant = id
  BY <1>1, <1>4 DEF Objects, Named
<1>6. QED
  BY <1>2, <1>3, <1>4, <1>5 DEF Link

\* Neither the map nor the adapters change but in what they are doing.
LEMMA ObjectsInPlace ==
    ASSUME Objects, adapters' \in Seq(LinkType), Len(adapters') = Len(adapters),
           ObjectTypes', Owned',
           \A id \in TenantIds : tenants[id] # None =>
               tenants'[id] # None /\ tenants'[id].obj = tenants[id].obj,
           \A n \in DOMAIN adapters :
               /\ adapters'[n].obj = adapters[n].obj
               /\ adapters'[n].tenant = adapters[n].tenant
               /\ adapters'[n].started = adapters[n].started
               /\ adapters'[n].state = "open" => adapters[n].state = "open"
               /\ adapters'[n].loop # "none" => adapters[n].loop # "none"
               /\ adapters'[n].loop = "blocked" => adapters'[n].on \in AdaptersOf(adapters[n].obj)
    PROVE  Objects'
<1>1. DOMAIN adapters' = DOMAIN adapters
  BY DEF Objects, ObjectTypes
<1>2. \A o : AdaptersOf(o)' = AdaptersOf(o)
  BY <1>1 DEF AdaptersOf
<1>3. ASSUME NEW n, NEW o PROVE IsLast(n, o)' <=> IsLast(n, o)
  <2>1. AdaptersOf(o)' = AdaptersOf(o)
    BY <1>2
  <2>2. QED
    BY <2>1 DEF IsLast
<1>4. \A n \in DOMAIN adapters : adapters[n].tenant \in TenantIds
  BY AdaptersTyped DEF Objects
<1>5. \A n \in DOMAIN adapters : IsLoaded(n) => IsLoaded(n)'
  BY <1>4 DEF IsLoaded
<1>6. Named'
  BY <1>1 DEF Objects, Named
<1>7. HaveLast'
  BY <1>2, <1>3 DEF Objects, HaveLast
<1>8. ReadOwn'
  BY <1>1, <1>2 DEF Objects, ReadOwn
<1>9. ReadersAreLoaded'
  BY <1>1, <1>5 DEF Objects, ReadersAreLoaded
<1>10. LastAreLoaded'
  BY <1>1, <1>3, <1>5 DEF Objects, LastAreLoaded
<1>11. QED
  BY <1>6, <1>7, <1>8, <1>9, <1>10 DEF Objects

\* Nothing is left to do for the object that a tenant has, if it has one.
Vacant(id) ==
    tenants[id] # None => LoopsEnded(tenants[id].obj) /\ Link(id).state # "open"

\* The tenant may get another object, or none.
LEMMA VacantHasNone ==
    ASSUME Objects, NEW id \in TenantIds, Vacant(id), NEW n \in DOMAIN adapters,
           adapters[n].tenant = id, IsLoaded(n)
    PROVE  /\ adapters[n].loop = "none"
           /\ IsLast(n, adapters[n].obj) => adapters[n].state # "open"
<1>1. tenants[id] # None /\ adapters[n].obj = tenants[id].obj
  BY DEF IsLoaded
<1>2. n \in AdaptersOf(tenants[id].obj)
  BY <1>1 DEF AdaptersOf
<1>3. adapters[n].loop = "none"
  BY <1>1, <1>2 DEF Vacant, LoopsEnded
<1>4. ASSUME IsLast(n, adapters[n].obj) PROVE adapters[n].state # "open"
  <2>1. Current(tenants[id].obj) = n
    BY <1>1, <1>4, CurrentIsLast DEF Objects
  <2>2. QED
    BY <1>1, <2>1 DEF Vacant, Link
<1>5. QED
  BY <1>3, <1>4

\* Which adapter is the last one of an object when one is opened.
LEMMA LastOpens ==
    ASSUME ObjectTypes, NEW r, adapters' = Append(adapters, r), NEW n, n = Len(adapters) + 1
    PROVE  /\ \A o : AdaptersOf(o)' = AdaptersOf(o) \cup (IF o = r.obj THEN {n} ELSE {})
           /\ IsLast(n, r.obj)'
           /\ \A m \in DOMAIN adapters : \A o :
                 /\ IsLast(m, o)' => IsLast(m, o)
                 /\ IsLast(m, o) /\ o # r.obj => IsLast(m, o)'
<1>1. /\ Len(adapters) \in Nat /\ DOMAIN adapters = 1..Len(adapters)
      /\ DOMAIN adapters' = DOMAIN adapters \cup {n}
      /\ n \notin DOMAIN adapters /\ adapters'[n] = r /\ n \in Nat
      /\ \A m \in DOMAIN adapters : adapters'[m] = adapters[m] /\ m < n /\ m \in Nat
  BY DEF ObjectTypes
<1>2. \A o : AdaptersOf(o)' = AdaptersOf(o) \cup (IF o = r.obj THEN {n} ELSE {})
  BY <1>1 DEF AdaptersOf
<1>3. ASSUME NEW m \in DOMAIN adapters, NEW o, IsLast(m, o)'
      PROVE  IsLast(m, o)
  <2>1. AdaptersOf(o) \subseteq AdaptersOf(o)'
    BY <1>2
  <2>2. m \in AdaptersOf(o)' /\ \A k \in AdaptersOf(o)' : k <= m
    BY <1>3 DEF IsLast
  <2>3. m \in AdaptersOf(o)
    BY <1>1, <1>2, <2>2
  <2>4. QED
    BY <2>1, <2>2, <2>3 DEF IsLast
<1>4. ASSUME NEW m \in DOMAIN adapters, NEW o, IsLast(m, o), o # r.obj
      PROVE  IsLast(m, o)'
  <2>1. AdaptersOf(o)' = AdaptersOf(o)
    BY <1>2, <1>4
  <2>2. QED
    BY <1>4, <2>1 DEF IsLast
<1>5. IsLast(n, r.obj)'
  <2>1. AdaptersOf(r.obj)' = AdaptersOf(r.obj) \cup {n}
    BY <1>2
  <2>2. \A k \in AdaptersOf(r.obj) : k <= n
    BY <1>1 DEF AdaptersOf
  <2>3. n <= n
    BY <1>1
  <2>4. QED
    BY <2>1, <2>2, <2>3 DEF IsLast
<1>6. QED
  BY <1>2, <1>3, <1>4, <1>5

\* A Start opens an adapter, for an object that is new or for the one the tenant has; or the
\* router opens one of its own.
LEMMA ObjectsOpen ==
    ASSUME Objects, NEW r \in LinkType, adapters' = Append(adapters, r), r.loop # "blocked",
           \/ r.obj \in {0, Len(adapters) + 1}
           \/ /\ r.obj \in DOMAIN adapters
              /\ adapters[r.obj].obj = r.obj /\ adapters[r.obj].tenant = r.tenant,
           \/ tenants' = tenants
           \/ /\ r.obj = Len(adapters) + 1
              /\ Vacant(r.tenant)
              /\ tenants' = [tenants EXCEPT ![r.tenant] = [cfg |-> r.cfg, obj |-> r.obj]],
           r.loop # "none" \/ (r.state = "open" /\ r.started /\ r.obj # 0) =>
               tenants'[r.tenant] # None /\ tenants'[r.tenant].obj = r.obj
    PROVE  Objects'
<1>0. PICK n : n = Len(adapters) + 1
  OBVIOUS
<1>1. /\ Len(adapters) \in Nat /\ DOMAIN adapters = 1..Len(adapters)
      /\ adapters' \in Seq(LinkType) /\ DOMAIN adapters' = DOMAIN adapters \cup {n}
      /\ n \notin DOMAIN adapters /\ adapters'[n] = r
      /\ \A m \in DOMAIN adapters : adapters'[m] = adapters[m] /\ m < n /\ m \in Nat
  BY <1>0 DEF Objects, ObjectTypes
<1>2. /\ r.tenant \in TenantIds /\ r.obj \in Nat /\ r.cfg \in Configs
      /\ n \in Nat /\ n # 0
  BY <1>0, <1>1, SMTT(30) DEF LinkType
<1>3. [cfg |-> r.cfg, obj |-> r.obj] \in Object /\ None \notin Object
  BY <1>2 DEF Object
<1> DEFINE Others == \A m \in DOMAIN adapters :
                         \/ IsLoaded(m) => IsLoaded(m)'
                         \/ /\ adapters[m].loop = "none"
                            /\ IsLast(m, adapters[m].obj) => adapters[m].state # "open"
<1>5. ObjectTypes' /\ Owned' /\ Others
  <2>1. CASE tenants' = tenants
    BY <1>1, <2>1 DEF Objects, ObjectTypes, Owned, IsLoaded
  <2>2. CASE /\ r.obj = n
             /\ Vacant(r.tenant)
             /\ tenants' = [tenants EXCEPT ![r.tenant] = [cfg |-> r.cfg, obj |-> r.obj]]
    <3>1. /\ DOMAIN tenants' = TenantIds
          /\ tenants'[r.tenant] = [cfg |-> r.cfg, obj |-> r.obj]
          /\ \A id \in TenantIds : id # r.tenant => tenants'[id] = tenants[id]
      BY <1>2, <2>2 DEF Objects, ObjectTypes
    <3>2. ObjectTypes'
      BY <1>1, <1>3, <3>1 DEF Objects, ObjectTypes
    <3>3. tenants'[r.tenant].obj = n /\ n \in DOMAIN adapters' /\ adapters'[n] = r
      BY <1>1, <2>2, <3>1
    <3>4. Owned'
      BY <1>1, <1>2, <2>2, <3>1, <3>3 DEF Objects, Owned
    <3>5. Others
      <4>1. ASSUME NEW m \in DOMAIN adapters, adapters[m].tenant # r.tenant
            PROVE  IsLoaded(m) => IsLoaded(m)'
        <5>1. adapters[m].tenant \in TenantIds
          BY AdaptersTyped DEF Objects
        <5>2. QED
          BY <1>1, <3>1, <4>1, <5>1 DEF IsLoaded
      <4>2. ASSUME NEW m \in DOMAIN adapters, adapters[m].tenant = r.tenant, IsLoaded(m)
            PROVE  /\ adapters[m].loop = "none"
                   /\ IsLast(m, adapters[m].obj) => adapters[m].state # "open"
        BY <1>2, <2>2, <4>2, VacantHasNone
      <4>3. QED
        BY <4>1, <4>2
    <3>6. QED
      BY <3>2, <3>4, <3>5
  <2>3. QED
    BY <1>0, <2>1, <2>2
<1> HIDE DEF Others
<1>6. Named'
  BY <1>0, <1>1 DEF Objects, Named
<1>7. \A o : AdaptersOf(o)' = AdaptersOf(o) \cup (IF o = r.obj THEN {n} ELSE {})
  BY <1>0, LastOpens DEF Objects
<1>8. ASSUME NEW m \in DOMAIN adapters, NEW o, IsLast(m, o)'
      PROVE  IsLast(m, o)
  BY <1>0, <1>8, LastOpens DEF Objects
<1>9. ASSUME NEW m \in DOMAIN adapters, NEW o, IsLast(m, o), o # r.obj
      PROVE  IsLast(m, o)'
  BY <1>0, <1>9, LastOpens DEF Objects
<1>10. IsLast(n, r.obj)'
  BY <1>0, LastOpens DEF Objects
<1>11. HaveLast'
  <2>1. ASSUME NEW o, AdaptersOf(o)' # {} PROVE \E k : IsLast(k, o)'
    <3>1. CASE o = r.obj
      BY <1>10, <3>1
    <3>2. CASE o # r.obj
      <4>1. PICK k : IsLast(k, o)
        BY <1>7, <2>1, <3>2 DEF Objects, HaveLast
      <4>2. k \in DOMAIN adapters
        BY <4>1 DEF IsLast, AdaptersOf
      <4>3. QED
        BY <1>9, <3>2, <4>1, <4>2
    <3>3. QED
      BY <3>1, <3>2
  <2>2. QED
    BY <2>1 DEF HaveLast
<1>12. ReadOwn'
  BY <1>1, <1>7 DEF Objects, ReadOwn
<1>13. ReadersAreLoaded'
  <2>1. \A m \in DOMAIN adapters : adapters[m].loop # "none" => IsLoaded(m)'
    BY <1>5 DEF Others, Objects, ReadersAreLoaded
  <2>2. r.loop # "none" => IsLoaded(n)'
    BY <1>1 DEF IsLoaded
  <2>3. QED
    BY <1>1, <2>1, <2>2 DEF ReadersAreLoaded
<1>14. LastAreLoaded'
  <2>1. ASSUME NEW m \in DOMAIN adapters, NEW o, IsLast(m, o)',
               adapters[m].state = "open", adapters[m].started
        PROVE  o = 0 \/ IsLoaded(m)'
    <3>1. IsLast(m, o)
      BY <1>8, <2>1
    <3>2. adapters[m].obj = o
      BY <3>1 DEF IsLast, AdaptersOf
    <3>3. QED
      BY <1>5, <2>1, <3>1, <3>2 DEF Others, Objects, LastAreLoaded
  <2>2. ASSUME NEW o, IsLast(n, o)', r.state = "open", r.started
        PROVE  o = 0 \/ IsLoaded(n)'
    <3>1. o = r.obj
      BY <1>1, <2>2 DEF IsLast, AdaptersOf
    <3>2. QED
      BY <1>1, <2>2, <3>1 DEF IsLoaded
  <2>3. QED
    BY <1>1, <2>1, <2>2 DEF LastAreLoaded
<1>15. QED
  BY <1>5, <1>6, <1>11, <1>12, <1>13, <1>14 DEF Objects

\* The map forgets a tenant.
LEMMA ObjectsForget ==
    ASSUME Objects, NEW id \in TenantIds, Vacant(id), tenants' = [tenants EXCEPT ![id] = None],
           adapters' = adapters
    PROVE  Objects'
<1>1. /\ DOMAIN tenants' = TenantIds /\ tenants'[id] = None
      /\ \A t \in TenantIds : t # id => tenants'[t] = tenants[t]
  BY DEF Objects, ObjectTypes
<1>2. ASSUME NEW n \in DOMAIN adapters, adapters[n].tenant # id
      PROVE  IsLoaded(n) => IsLoaded(n)'
  <2>1. adapters[n].tenant \in TenantIds
    BY AdaptersTyped DEF Objects
  <2>2. QED
    BY <1>1, <1>2, <2>1 DEF IsLoaded
<1>3. ASSUME NEW n \in DOMAIN adapters, adapters[n].tenant = id, IsLoaded(n)
      PROVE  adapters[n].loop = "none" /\ (IsLast(n, adapters[n].obj) => adapters[n].state # "open")
  BY <1>3, VacantHasNone
<1>4. ObjectTypes' /\ Named' /\ Owned' /\ ReadOwn'
  BY <1>1 DEF Objects, ObjectTypes, Named, Owned, ReadOwn, AdaptersOf
<1>5. ASSUME NEW n, NEW o PROVE IsLast(n, o)' <=> IsLast(n, o)
  <2>1. AdaptersOf(o)' = AdaptersOf(o)
    BY DEF AdaptersOf
  <2>2. QED
    BY <2>1 DEF IsLast
<1>6. HaveLast'
  <2>1. \A o : AdaptersOf(o)' = AdaptersOf(o)
    BY DEF AdaptersOf
  <2>2. QED
    BY <1>5, <2>1 DEF Objects, HaveLast
<1>7. ReadersAreLoaded'
  BY <1>2, <1>3 DEF Objects, ReadersAreLoaded
<1>8. LastAreLoaded'
  <2>1. ASSUME NEW n \in DOMAIN adapters, NEW o, adapters[n].state = "open", adapters[n].started,
               IsLast(n, o)
        PROVE  o = 0 \/ IsLoaded(n)'
    <3>1. adapters[n].obj = o
      BY <2>1 DEF IsLast, AdaptersOf
    <3>2. QED
      BY <1>2, <1>3, <2>1, <3>1 DEF Objects, LastAreLoaded
  <2>2. QED
    BY <1>5, <2>1 DEF LastAreLoaded
<1>9. QED
  BY <1>4, <1>6, <1>7, <1>8 DEF Objects

LastIsCurrent == \A n, o : ObjectTypes /\ IsLast(n, o) => Current(o) = n

\* This is so in every state,
LEMMA LastsAreCurrent == []LastIsCurrent
<1>1. LastIsCurrent
  BY CurrentIsLast DEF LastIsCurrent
<1>2. QED
  BY <1>1, PTL

\* and hence in the next one.
LEMMA CurrentIsLastNext == ASSUME ObjectTypes', NEW o, NEW n, IsLast(n, o)' PROVE Current(o)' = n
<1>1. LastIsCurrent'
  BY LastsAreCurrent, PTL
<1>2. QED
  BY <1>1 DEF LastIsCurrent

\* A tenant keeps its link while no adapter is opened.
LEMMA LinkStays ==
    ASSUME Objects, Objects', NEW id \in TenantIds, tenants[id] # None,
           tenants'[id].obj = tenants[id].obj,
           NEW n, n = Current(tenants[id].obj),
           \A o : AdaptersOf(o)' = AdaptersOf(o)
    PROVE  Link(id)' = adapters'[n]
<1>1. PICK o : o = tenants[id].obj
  OBVIOUS
<1>2. IsLast(n, o)
  BY <1>1, LinkExists
<1>3. IsLast(n, o)'
  <2>1. AdaptersOf(o)' = AdaptersOf(o)
    OBVIOUS
  <2>2. QED
    BY <1>2, <2>1 DEF IsLast
<1>4. Current(o)' = n
  BY <1>3, CurrentIsLastNext DEF Objects
<1>5. QED
  BY <1>1, <1>4 DEF Link

----------------------------------------------------------------------------
(***************************************************************************)
(* What boot and a stop find.                                              *)
(***************************************************************************)

\* The lists of main while it boots.
Boot ==
    /\ phase \in {"systems", "connect", "load"} => \A id \in TenantIds : tenants[id] = None
    /\ phase = "tenants" => \A id \in work[Main].todo : tenants[id] = None /\ Wanted(rows, id)
    /\ phase = "start" => work[Main].todo \subseteq Loaded
    /\ phase = "routes" => \A id \in work[Main].todo : Wanted(rows, id)
    /\ Booting => \A n \in DOMAIN adapters : adapters[n].state \notin Shut

\* The list of the holder, and the tenant it waits for.
Waits ==
    /\ mgr.stopping # None => tenants[mgr.stopping] # None /\ Link(mgr.stopping).state \in Shut
    /\ phase = "stop" => mgr.todo \subseteq Loaded
    /\ \A w \in Workers : mgr.holder = w =>
          \A id \in mgr.todo : tenants[id] # None \/ Wanted(work[w].snap, id)

TenantsInv == Objects /\ Boot /\ Waits

\* What a Start opens.
LEMMA WhatIsCreated ==
    ASSUME NEW id \in TenantIds, NEW obj \in Nat, NEW cfg \in Configs, NEW outcome \in Outcomes
    PROVE  LET r == Created(id, obj, cfg, outcome) IN
           /\ r \in LinkType
           /\ r.tenant = id /\ r.obj = obj /\ r.cfg = cfg /\ r.queue = 0
           /\ r.loop = IF outcome = "ok" THEN "new" ELSE "none"
           /\ r.started <=> outcome = "ok"
           /\ r.state = IF outcome = "pms" THEN "failed" ELSE "open"
<1>1. 0 \in 0..Capacity
  OBVIOUS
<1>2. (outcome = "ok") \in BOOLEAN
  OBVIOUS
<1>3. QED
  BY <1>1, <1>2 DEF Created, LinkType, Outcomes

\* What no adapter and no entry of the map has changed keeps its place.
LEMMA ObjectsSame == ASSUME Objects, UNCHANGED <<adapters, tenants>> PROVE Objects'
<1>1. \A n \in DOMAIN adapters : adapters[n].loop = "blocked" =>
          adapters[n].on \in AdaptersOf(adapters[n].obj)
  BY DEF Objects, ReadOwn
<1>2. ObjectTypes' /\ Owned'
  BY DEF Objects, ObjectTypes, Owned
<1>3. QED
  BY <1>1, <1>2, ObjectsInPlace DEF Objects, ObjectTypes

\* Links do not change with the adapters and the objects.
LEMMA LinksSame ==
    ASSUME Objects, adapters' = adapters, Objects', NEW id \in TenantIds, tenants[id] # None,
           tenants'[id].obj = tenants[id].obj
    PROVE  Link(id)' = Link(id)
<1>1. \A o : AdaptersOf(o)' = AdaptersOf(o)
  BY DEF AdaptersOf
<1>2. QED
  BY <1>1, LinkStays DEF Link

\* Steps that leave tenants and adapters alone.
LEMMA TenantsApart ==
    ASSUME TenantsInv, ProcessTypes, UNCHANGED <<adapters, tenants, mgr>>,
           \A w \in Workers : mgr.holder = w => work'[w].snap = work[w].snap,
           phase' = "stop" => phase = "stop",
           Boot'
    PROVE  TenantsInv'
<1>1. Objects'
  BY ObjectsSame DEF TenantsInv
<1> PICK id : id = mgr.stopping
  OBVIOUS
<1>2. id # None => tenants[id] # None /\ Link(id)' = Link(id)
  <2>1. id # None => id \in TenantIds
    BY DEF ProcessTypes, Locks
  <2>2. QED
    BY <1>1, <2>1, LinksSame DEF TenantsInv, Waits
<1>3. Waits'
  <2>1. \A w \in Workers : mgr'.holder = w =>
            \A i \in mgr'.todo : tenants'[i] # None \/ Wanted(work'[w].snap, i)
    BY DEF TenantsInv, Waits, Wanted
  <2>2. mgr'.stopping = id /\ (id # None => tenants'[id] # None /\ Link(id)'.state \in Shut)
    BY <1>2 DEF TenantsInv, Waits
  <2>3. phase' = "stop" => mgr'.todo \subseteq Loaded'
    BY DEF TenantsInv, Waits, Loaded
  <2>4. QED
    BY <2>1, <2>2, <2>3 DEF Waits
<1>4. QED
  BY <1>1, <1>3 DEF TenantsInv

\* The goroutine that waits for nobody has only its list to keep.
LEMMA NobodyWaits ==
    ASSUME Objects', Boot', mgr'.stopping = None,
           phase' = "stop" => mgr'.todo \subseteq Loaded',
           \A w \in Workers : mgr'.holder = w =>
               \A id \in mgr'.todo : tenants'[id] # None \/ Wanted(work'[w].snap, id)
    PROVE  TenantsInv'
BY DEF TenantsInv, Waits

\* Nothing is reloaded, and nobody stops tenants, before main serves.
LEMMA BootingIsQuiet ==
    ASSUME LockInv, Booting
    PROVE  mgr.holder = None /\ mgr.todo = {} /\ mgr.stopping = None
BY DEF LockInv, Quiet, Held

\* main goes from one list to the next.
LEMMA MainLists ==
    ASSUME TenantsInv, LockInv, Process, UNCHANGED <<ilinkVars, pbxVars>>,
           LoadFromDB \/ BeginStartAll \/ BuildRouter \/ ListenAndServe
    PROVE  TenantsInv'
<1> USE DEF Process
<1>1. UNCHANGED tenantVars /\ Booting
  BY DEF LoadFromDB, BeginStartAll, BuildRouter, ListenAndServe, Booting
<1>2. mgr.holder = None
  BY <1>1, BootingIsQuiet
<1>3. Boot'
  <2>1. \A n \in DOMAIN adapters : adapters[n].state \notin Shut
    BY <1>1 DEF TenantsInv, Boot
  <2>2. CASE LoadFromDB
    <3>1. /\ phase' = "tenants"
          /\ work'[Main].todo = {id \in TenantIds : Wanted(rows, id)}
          /\ \A id \in TenantIds : tenants[id] = None
      BY <2>2 DEF LoadFromDB, MainGoes, TenantsInv, Boot, WorkTypes
    <3>2. QED
      BY <1>1, <2>1, <3>1 DEF Boot, Wanted
  <2>3. CASE BeginStartAll
    <3>1. phase' = "start" /\ work'[Main].todo = Loaded
      BY <2>3 DEF BeginStartAll, MainGoes, WorkTypes
    <3>2. QED
      BY <1>1, <2>1, <3>1 DEF Boot, Loaded
  <2>4. CASE BuildRouter
    <3>1. phase' = "routes" /\ work'[Main].todo = {id \in TenantIds : SpeaksILink(id)}
      BY <2>4 DEF BuildRouter, MainGoes, WorkTypes
    <3>2. QED
      BY <1>1, <2>1, <3>1 DEF Boot, SpeaksILink, Wanted
  <2>5. CASE ListenAndServe
    BY <2>5 DEF ListenAndServe, Boot, Booting
  <2>6. QED
    BY <2>2, <2>3, <2>4, <2>5
<1>4. phase' # "stop"
  BY DEF LoadFromDB, BeginStartAll, BuildRouter, ListenAndServe, MainGoes
<1>5. \A w \in Workers : mgr.holder # w
  BY <1>2
<1>6. QED
  BY <1>1, <1>3, <1>4, <1>5, TenantsApart

\* LoadFromDB starts a tenant.
LEMMA LoadStep ==
    ASSUME TenantsInv, LockInv, Process, NEW id \in TenantIds, NEW outcome \in Outcomes,
           LoadTenant(id, outcome)
    PROVE  TenantsInv'
<1> USE DEF Process
<1>1. /\ phase = "tenants" /\ phase' = phase /\ UNCHANGED <<rows, mgr>>
      /\ id \in work[Main].todo
      /\ adapters' = Append(adapters, Created(id, NewObject, rows[id].cfg, outcome))
      /\ work' = [work EXCEPT ![Main].todo = @ \ {id}]
  BY DEF LoadTenant, Start
<1>2. tenants[id] = None /\ rows[id] \in Row
  BY <1>1 DEF TenantsInv, Boot, Wanted, ProcessTypes
<1>3. rows[id].cfg \in Configs /\ NewObject \in Nat /\ NewObject = Len(adapters) + 1
  BY <1>2 DEF Row, NewObject, TenantsInv, Objects, ObjectTypes
<1> PICK cfg : cfg = rows[id].cfg
  OBVIOUS
<1> PICK r : r = Created(id, NewObject, cfg, outcome)
  OBVIOUS
<1>4. /\ r \in LinkType /\ r.tenant = id /\ r.obj = NewObject /\ r.cfg = cfg
      /\ r.loop = IF outcome = "ok" THEN "new" ELSE "none"
      /\ r.started <=> outcome = "ok"
      /\ r.state \notin Shut
  BY <1>3, WhatIsCreated
<1>5. tenants' = IF outcome = "ok" THEN [tenants EXCEPT ![id] = [cfg |-> cfg, obj |-> NewObject]]
                                   ELSE tenants
  <2>1. tenants' = [tenants EXCEPT ![id] =
                       IF outcome = "ok" THEN [cfg |-> cfg, obj |-> NewObject] ELSE None]
    BY DEF LoadTenant
  <2>2. [tenants EXCEPT ![id] = None] = tenants
    BY <1>2 DEF TenantsInv, Objects, ObjectTypes
  <2>3. QED
    BY <2>1, <2>2
<1>6. outcome = "ok" => tenants'[id] # None /\ tenants'[id].obj = NewObject
  BY <1>3, <1>5 DEF TenantsInv, Objects, ObjectTypes
<1>7. Vacant(id)
  BY <1>2 DEF Vacant
<1>8. adapters' = Append(adapters, r)
  BY <1>1
<1>9. Objects'
  BY <1>3, <1>4, <1>5, <1>6, <1>7, <1>8, ObjectsOpen, ZenonT(40) DEF TenantsInv
<1>10. Boot'
  <2>1. \A t \in work'[Main].todo : t # id /\ t \in work[Main].todo
    BY <1>1 DEF WorkTypes, TenantLists
  <2>2. \A t \in work'[Main].todo : tenants'[t] = None /\ Wanted(rows, t)
    <3>1. \A t \in work[Main].todo : t \in TenantIds
      BY <1>1 DEF WorkTypes, TenantLists
    <3>2. QED
      BY <1>1, <1>5, <2>1, <3>1 DEF TenantsInv, Boot, Objects, ObjectTypes
  <2>3. \A n \in DOMAIN adapters' : adapters'[n].state \notin Shut
    BY <1>1, <1>4, <1>8 DEF TenantsInv, Boot, Booting, Objects, ObjectTypes
  <2>4. QED
    BY <1>1, <2>2, <2>3 DEF Boot, Wanted
<1>11. mgr' = mgr /\ mgr.holder = None /\ mgr.todo = {} /\ mgr.stopping = None
  BY <1>1, BootingIsQuiet DEF Booting
<1>12. QED
  BY <1>1, <1>9, <1>10, <1>11, NobodyWaits

\* StartAll starts it again.
LEMMA StartAllStep ==
    ASSUME TenantsInv, LockInv, Process, NEW id \in TenantIds, NEW outcome \in Outcomes,
           StartAll(id, outcome)
    PROVE  TenantsInv'
<1> USE DEF Process
<1>1. /\ phase = "start" /\ phase' \in {"start", "fatal"} /\ UNCHANGED <<rows, tenants, mgr>>
      /\ id \in work[Main].todo
      /\ adapters' = Append(adapters, Created(id, tenants[id].obj, tenants[id].cfg, outcome))
      /\ work' = [work EXCEPT ![Main].todo = @ \ {id}]
  BY DEF StartAll, Start
<1>2. tenants[id] # None
  BY <1>1 DEF TenantsInv, Boot, Loaded
<1>3. tenants[id].cfg \in Configs /\ tenants[id].obj \in Nat
  BY <1>2 DEF Object, TenantsInv, Objects, ObjectTypes
<1> PICK obj : obj = tenants[id].obj
  OBVIOUS
<1> PICK r : r = Created(id, obj, tenants[id].cfg, outcome)
  OBVIOUS
<1>4. /\ r \in LinkType /\ r.tenant = id /\ r.obj = obj
      /\ r.loop # "blocked" /\ r.state \notin Shut
  BY <1>3, WhatIsCreated
<1>5. obj \in DOMAIN adapters /\ adapters[obj].obj = obj /\ adapters[obj].tenant = id
  BY <1>2 DEF TenantsInv, Objects, Owned
<1>6. adapters' = Append(adapters, r)
  BY <1>1
<1>7. Objects'
  BY <1>1, <1>2, <1>4, <1>5, <1>6, ObjectsOpen DEF TenantsInv
<1>8. Boot'
  <2>1. \A t \in work'[Main].todo : t \in work[Main].todo
    BY <1>1 DEF WorkTypes, TenantLists
  <2>2. \A n \in DOMAIN adapters' : adapters'[n].state \notin Shut
    BY <1>1, <1>4, <1>6 DEF TenantsInv, Boot, Booting, Objects, ObjectTypes
  <2>3. QED
    BY <1>1, <2>1, <2>2 DEF Boot, Loaded, TenantsInv
<1>9. mgr' = mgr /\ mgr.holder = None /\ mgr.todo = {} /\ mgr.stopping = None
  BY <1>1, BootingIsQuiet DEF Booting
<1>10. QED
  BY <1>1, <1>7, <1>8, <1>9, NobodyWaits

\* The router opens its own.
LEMMA RegisterStep ==
    ASSUME TenantsInv, LockInv, Process, NEW id \in TenantIds, RegisterTenant(id)
    PROVE  TenantsInv'
<1> USE DEF Process
<1>1. /\ phase = "routes" /\ phase' = "routes" /\ UNCHANGED <<rows, tenants, mgr>>
      /\ id \in work[Main].todo
      /\ adapters' = Append(adapters,
                            [Created(id, 0, rows[id].cfg, "ok") EXCEPT !.loop = "none"])
      /\ work' = [work EXCEPT ![Main].todo = @ \ {id}]
  BY DEF RegisterTenant
<1>2. rows[id] \in Row
  BY <1>1 DEF TenantsInv, Boot, Wanted, ProcessTypes
<1>3. rows[id].cfg \in Configs
  BY <1>2 DEF Row
<1>4. "ok" \in Outcomes
  BY DEF Outcomes
<1> PICK q : q = Created(id, 0, rows[id].cfg, "ok")
  OBVIOUS
<1>5. q \in LinkType /\ q.tenant = id /\ q.obj = 0 /\ q.state \notin Shut
  BY <1>3, <1>4, WhatIsCreated
<1> PICK r : r = [q EXCEPT !.loop = "none"]
  OBVIOUS
<1>6. r \in LinkType /\ r.tenant = id /\ r.obj = 0 /\ r.loop = "none" /\ r.state \notin Shut
  BY <1>5 DEF LinkType
<1>7. adapters' = Append(adapters, r)
  BY <1>1
<1>8. Objects'
  BY <1>1, <1>6, <1>7, ObjectsOpen DEF TenantsInv
<1>9. Boot'
  <2>1. \A t \in work'[Main].todo : t \in work[Main].todo
    BY <1>1 DEF WorkTypes, TenantLists
  <2>2. \A n \in DOMAIN adapters' : adapters'[n].state \notin Shut
    BY <1>1, <1>6, <1>7 DEF TenantsInv, Boot, Booting, Objects, ObjectTypes
  <2>3. QED
    BY <1>1, <2>1, <2>2 DEF Boot, Wanted, TenantsInv
<1>10. mgr' = mgr /\ mgr.holder = None /\ mgr.todo = {} /\ mgr.stopping = None
  BY <1>1, BootingIsQuiet DEF Booting
<1>11. QED
  BY <1>1, <1>8, <1>9, <1>10, NobodyWaits

\* What a loop does, and an event that is put into a channel, changes no link.
LEMMA LinksInPlace ==
    ASSUME TenantsInv, Process, adapters' \in Seq(LinkType), Len(adapters') = Len(adapters),
           UNCHANGED <<rows, tenants, mgr>>, phase' \in {phase, "panicked"},
           work'[Main] = work[Main],
           \A w \in Workers : mgr.holder = w => work'[w] = work[w],
           \A n \in DOMAIN adapters :
               /\ adapters'[n].obj = adapters[n].obj
               /\ adapters'[n].tenant = adapters[n].tenant
               /\ adapters'[n].started = adapters[n].started
               /\ adapters'[n].state = adapters[n].state
               /\ adapters'[n].loop # "none" => adapters[n].loop # "none"
               /\ adapters'[n].loop = "blocked" => adapters'[n].on \in AdaptersOf(adapters[n].obj)
    PROVE  TenantsInv'
<1> USE DEF Process
<1>1. DOMAIN adapters' = DOMAIN adapters
  BY DEF TenantsInv, Objects, ObjectTypes
<1>2. ObjectTypes' /\ Owned'
  BY <1>1 DEF TenantsInv, Objects, ObjectTypes, Owned
<1>3. Objects'
  BY <1>2, ObjectsInPlace DEF TenantsInv
<1>4. Boot'
  BY <1>1 DEF TenantsInv, Boot, Booting, Wanted, Loaded
<1>5. \A o : AdaptersOf(o)' = AdaptersOf(o)
  BY <1>1 DEF AdaptersOf
<1> PICK id : id = mgr.stopping
  OBVIOUS
<1>6. id # None => Link(id)'.state = Link(id).state
  <2>1. ASSUME id # None PROVE Link(id)'.state = Link(id).state
    <3>1. id \in TenantIds /\ tenants[id] # None
      BY <2>1 DEF TenantsInv, Waits, ProcessTypes, Locks
    <3>2. PICK n : n = Current(tenants[id].obj)
      OBVIOUS
    <3>3. n \in DOMAIN adapters /\ Link(id) = adapters[n]
      BY <3>1, <3>2, LinkExists DEF TenantsInv
    <3>4. Link(id)' = adapters'[n]
      BY <1>3, <1>5, <3>1, <3>2, LinkStays DEF TenantsInv
    <3>5. QED
      BY <3>3, <3>4
  <2>2. QED
    BY <2>1
<1>7. Waits'
  <2>1. \A w \in Workers : mgr'.holder = w =>
            \A i \in mgr'.todo : tenants'[i] # None \/ Wanted(work'[w].snap, i)
    BY DEF TenantsInv, Waits, Wanted
  <2>2. mgr'.stopping = id /\ (id # None => tenants'[id] # None /\ Link(id)'.state \in Shut)
    BY <1>6 DEF TenantsInv, Waits
  <2>3. phase' = "stop" => mgr'.todo \subseteq Loaded'
    BY DEF TenantsInv, Waits, Loaded
  <2>4. QED
    BY <2>1, <2>2, <2>3 DEF Waits
<1>8. QED
  BY <1>3, <1>4, <1>7 DEF TenantsInv

\* A tenant's loop selects, takes an event, or ends.
LEMMA LoopStep ==
    ASSUME TenantsInv, Process, NEW n \in DOMAIN adapters,
           Loop(n) \/ LoopHandles(n) \/ handlePBXEvent(n) \/ SendsOnClosed(n)
    PROVE  TenantsInv'
<1>1. UNCHANGED <<work, rows, tenants, mgr, behind>> /\ phase' \in {phase, "panicked"}
  BY DEF Loop, LoopSelects, LoopEnds, LoopHandles, handlePBXEvent, SendsOnClosed
<1>2. /\ adapters \in Seq(LinkType) /\ adapters[n] \in LinkType
      /\ DOMAIN adapters = 1..Len(adapters) /\ Len(adapters) \in Nat
  BY DEF TenantsInv, Objects, ObjectTypes
<1>3. \A m \in DOMAIN adapters : adapters[m].loop = "blocked" =>
          adapters[m].on \in AdaptersOf(adapters[m].obj)
  BY DEF TenantsInv, Objects, ReadOwn
<1>4. CASE LoopSelects(n)
  <2>1. \E k : IsLast(k, adapters[n].obj)
    BY DEF TenantsInv, Objects, HaveLast, AdaptersOf
  <2>2. PICK k : k = Current(adapters[n].obj)
    OBVIOUS
  <2>3. k \in AdaptersOf(adapters[n].obj)
    BY <2>1, <2>2, CurrentIsLast DEF TenantsInv, Objects, IsLast
  <2>4. k \in Nat
    BY <1>2, <2>3 DEF AdaptersOf
  <2>5. adapters' = [adapters EXCEPT ![n] = [adapters[n] EXCEPT !.loop = "blocked", !.on = k]]
        /\ adapters[n].loop = "new"
    BY <1>4, <2>2 DEF LoopSelects
  <2>6. [adapters[n] EXCEPT !.loop = "blocked", !.on = k] \in LinkType
    BY <1>2, <2>4 DEF LinkType
  <2>7. adapters' \in Seq(LinkType) /\ Len(adapters') = Len(adapters)
    BY <1>2, <2>5, <2>6
  <2>8. QED
    BY <1>1, <1>2, <1>3, <2>3, <2>5, <2>7, LinksInPlace DEF LinkType
<1>5. CASE LoopEnds(n)
  <2>1. adapters' = [adapters EXCEPT ![n] = [adapters[n] EXCEPT !.loop = "none"]]
    BY <1>5 DEF LoopEnds
  <2>2. [adapters[n] EXCEPT !.loop = "none"] \in LinkType
    BY <1>2 DEF LinkType
  <2>3. adapters' \in Seq(LinkType) /\ Len(adapters') = Len(adapters)
    BY <1>2, <2>1, <2>2
  <2>4. QED
    BY <1>1, <1>2, <1>3, <2>1, <2>3, LinksInPlace DEF LinkType
<1>6. CASE LoopHandles(n)
  <2>1. PICK m : m = adapters[n].on
    OBVIOUS
  <2>2. m \in DOMAIN adapters /\ adapters[m] \in LinkType /\ adapters[n].loop = "blocked"
    BY <1>2, <1>3, <1>6, <2>1 DEF LoopHandles, AdaptersOf
  <2>3. PICK q : q = IF adapters[m].cfg \in TigerConfigs THEN adapters[m].queue - 1
                                                         ELSE adapters[m].queue
    OBVIOUS
  <2>4. q \in 0..Capacity
    BY <1>6, <2>1, <2>2, <2>3 DEF LoopHandles, LinkType
  <2>5. /\ adapters' \in Seq(LinkType) /\ Len(adapters') = Len(adapters)
        /\ \A k \in DOMAIN adapters :
              /\ adapters'[k].obj = adapters[k].obj
              /\ adapters'[k].tenant = adapters[k].tenant
              /\ adapters'[k].started = adapters[k].started
              /\ adapters'[k].state = adapters[k].state
              /\ adapters'[k].on = adapters[k].on
              /\ adapters'[k].loop = IF k = n THEN "new" ELSE adapters[k].loop
    <3>1. PICK e : e = [adapters[n] EXCEPT !.loop = "new"]
      OBVIOUS
    <3>2. /\ e \in LinkType /\ e.obj = adapters[n].obj /\ e.tenant = adapters[n].tenant
          /\ e.started = adapters[n].started /\ e.state = adapters[n].state
          /\ e.on = adapters[n].on /\ e.queue = adapters[n].queue /\ e.loop = "new"
      BY <1>2, <3>1 DEF LinkType
    <3>3. PICK l : l = [adapters EXCEPT ![n] = e]
      OBVIOUS
    <3>4. /\ l \in Seq(LinkType) /\ Len(l) = Len(adapters) /\ DOMAIN l = DOMAIN adapters
          /\ \A k \in DOMAIN adapters : l[k] = IF k = n THEN e ELSE adapters[k]
      BY <1>2, <3>2, <3>3
    <3>5. PICK f : f = [l[m] EXCEPT !.queue = q]
      OBVIOUS
    <3>6. l[m] \in LinkType
      BY <2>2, <3>4
    <3>7. /\ f \in LinkType /\ f.obj = l[m].obj /\ f.tenant = l[m].tenant
          /\ f.started = l[m].started /\ f.state = l[m].state /\ f.on = l[m].on
          /\ f.loop = l[m].loop
      BY <2>4, <3>5, <3>6 DEF LinkType
    <3>8. adapters' = [l EXCEPT ![m] = f]
      <4>1. l[m].queue = adapters[m].queue
        BY <2>2, <3>2, <3>4
      <4>2. adapters' = [l EXCEPT ![m] = [l[m] EXCEPT !.queue = q]]
        BY <1>6, <2>1, <2>2, <2>3, <3>1, <3>3, <4>1 DEF LoopHandles
      <4>3. QED
        BY <3>5, <4>2
    <3>9. /\ adapters' \in Seq(LinkType) /\ Len(adapters') = Len(adapters)
          /\ \A k \in DOMAIN adapters : adapters'[k] = IF k = m THEN f ELSE l[k]
      BY <2>2, <3>4, <3>7, <3>8
    <3>10. QED
      BY <2>2, <3>2, <3>4, <3>7, <3>9
  <2>6. QED
    BY <1>1, <1>3, <2>2, <2>5, LinksInPlace
<1>7. CASE handlePBXEvent(n)
  <2>1. adapters' = [adapters EXCEPT ![n] = [adapters[n] EXCEPT !.loop = "new"]]
        /\ adapters[n].loop = "blocked"
    BY <1>7 DEF handlePBXEvent
  <2>2. [adapters[n] EXCEPT !.loop = "new"] \in LinkType
    BY <1>2 DEF LinkType
  <2>3. adapters' \in Seq(LinkType) /\ Len(adapters') = Len(adapters)
    BY <1>2, <2>1, <2>2
  <2>4. QED
    BY <1>1, <1>2, <1>3, <2>1, <2>3, LinksInPlace DEF LinkType
<1>8. CASE SendsOnClosed(n)
  <2>1. adapters' = [adapters EXCEPT ![n] = [adapters[n] EXCEPT !.overtaken = TRUE]]
    BY <1>8 DEF SendsOnClosed
  <2>2. [adapters[n] EXCEPT !.overtaken = TRUE] \in LinkType
    BY <1>2 DEF LinkType
  <2>3. adapters' \in Seq(LinkType) /\ Len(adapters') = Len(adapters)
    BY <1>2, <2>1, <2>2
  <2>4. QED
    BY <1>1, <1>2, <1>3, <2>1, <2>3, LinksInPlace DEF LinkType
<1>9. QED
  BY <1>4, <1>5, <1>6, <1>7, <1>8 DEF Loop

\* An event of a request is put into a channel of the router, or dropped.
LEMMA HandleStep ==
    ASSUME TenantsInv, LockInv, Process, NEW w \in Workers, handleSet(w)
    PROVE  TenantsInv'
<1> USE DEF Process
<1>1. /\ UNCHANGED <<phase, rows, tenants, mgr>> /\ work' = [work EXCEPT ![w] = Idle]
      /\ work[w].at = "post"
  BY DEF handleSet
<1>2. work'[Main] = work[Main] /\ \A v \in Workers : mgr.holder = v => work'[v] = work[v]
  BY <1>1 DEF LockInv, Held, WorkTypes
<1>3. PICK n \in DOMAIN adapters : Enqueued(n)
  BY DEF handleSet, Registered
<1>4. /\ adapters \in Seq(LinkType) /\ adapters[n] \in LinkType
  BY <1>3 DEF TenantsInv, Objects, ObjectTypes
<1>5. \A m \in DOMAIN adapters : adapters[m].loop = "blocked" =>
          adapters[m].on \in AdaptersOf(adapters[m].obj)
  BY DEF TenantsInv, Objects, ReadOwn
<1>6. CASE adapters' = adapters
  BY <1>1, <1>2, <1>4, <1>5, <1>6, LinksInPlace
<1>7. CASE adapters[n].queue < Capacity
  <2>1. adapters' = [adapters EXCEPT ![n] = [adapters[n] EXCEPT !.queue = adapters[n].queue + 1]]
    BY <1>3, <1>7 DEF Enqueued
  <2>2. adapters[n].queue + 1 \in 0..Capacity
    BY <1>4, <1>7 DEF LinkType
  <2>3. [adapters[n] EXCEPT !.queue = adapters[n].queue + 1] \in LinkType
    BY <1>4, <2>2 DEF LinkType
  <2>4. adapters' \in Seq(LinkType) /\ Len(adapters') = Len(adapters)
    BY <1>4, <2>1, <2>3
  <2>5. QED
    BY <1>1, <1>2, <1>4, <1>5, <2>1, <2>4, LinksInPlace DEF LinkType
<1>8. QED
  BY <1>3, <1>6, <1>7 DEF Enqueued

\* Steps that leave tenants, adapters and the lock alone, once main serves or on its way there.
LEMMA NobodyFollows ==
    ASSUME TenantsInv, LockInv, Process, UNCHANGED <<adapters, tenants, mgr>>,
           NEW w \in Goroutines, NEW job, work' = work \/ work' = [work EXCEPT ![w] = job],
           work[w].at # "follow" \/ work' = work,
           \/ ~ Booting' /\ phase' # "stop"
           \/ phase' = phase /\ (Booting => rows' = rows),
           w = Main => phase \notin {"tenants", "start", "routes"}
    PROVE  TenantsInv'
<1> USE DEF Process
<1>1. \A v \in Goroutines : v # w => work'[v] = work[v]
  BY DEF WorkTypes
<1>2. \A v \in Workers : mgr.holder = v => work'[v].snap = work[v].snap
  BY <1>1 DEF LockInv, Held
<1>3. phase \in {"tenants", "start", "routes"} => work'[Main] = work[Main]
  BY <1>1
<1>4. Boot'
  <2>1. CASE ~ Booting'
    BY <2>1 DEF Boot, Booting
  <2>2. CASE phase' = phase /\ (Booting => rows' = rows)
    BY <1>3, <2>2 DEF TenantsInv, Boot, Booting, Wanted, Loaded
  <2>3. QED
    BY <2>1, <2>2
<1>5. phase' = "stop" => phase = "stop"
  OBVIOUS
<1>6. QED
  BY <1>2, <1>4, <1>5, TenantsApart

\* A request begins.
LEMMA RequestStep ==
    ASSUME TenantsInv, LockInv, Process, UNCHANGED <<adapters, tenants, mgr>>,
           NEW w \in Workers, NEW job, Request(w, job)
    PROVE  TenantsInv'
<1>1. phase = "serve" /\ phase' = phase /\ work[w] = Idle /\ work' = [work EXCEPT ![w] = job]
  BY DEF Request
<1>2. work[w].at # "follow" /\ ~ Booting /\ w # Main
  BY <1>1 DEF Idle, Booting
<1>3. QED
  BY <1>1, <1>2, NobodyFollows

\* What the endpoints and the PBX manager do does not matter to the tenants.
LEMMA OthersStep ==
    ASSUME TenantsInv, LockInv, Process,
           \/ ILinkNext /\ UNCHANGED pbxVars
           \/ PbxNext /\ UNCHANGED <<tenantVars, ilinkVars>>
    PROVE  TenantsInv'
<1> USE DEF Process
<1>1. CASE ILinkNext /\ UNCHANGED pbxVars
  <2>1. CASE BuildRouter \/ ListenAndServe
    BY <1>1, <2>1, MainLists DEF BuildRouter, ListenAndServe
  <2>2. ASSUME NEW id \in TenantIds, RegisterTenant(id) PROVE TenantsInv'
    BY <2>2, RegisterStep
  <2>3. ASSUME NEW w \in Workers, handleSet(w) PROVE TenantsInv'
    BY <2>3, HandleStep
  <2>4. ASSUME NEW w \in Workers, NEW id \in TenantIds,
               createTenantToken(w, id) \/ revokeTenantToken(w, id) \/ resolveAndAuth(w, id)
        PROVE  TenantsInv'
    <3>1. UNCHANGED tenantVars /\ \E job : Request(w, job)
      BY <2>4 DEF createTenantToken, revokeTenantToken, resolveAndAuth
    <3>2. QED
      BY <3>1, RequestStep
  <2>5. QED
    BY <1>1, <2>1, <2>2, <2>3, <2>4 DEF ILinkNext
<1>2. CASE PbxNext /\ UNCHANGED <<tenantVars, ilinkVars>>
  <2>1. CASE ProviderNext \/ \E n \in Providers : Reports(n)
    <3>1. work' = work /\ phase' \in {phase, "panicked"}
      BY <2>1 DEF ProviderNext, Dialled, Reconnected, SubscriptionLost, ReconnectChecks,
                  EventArrives, EventSent, Reports
    <3>2. CASE phase' = phase
      <4>1. Boot'
        BY <1>2, <3>1, <3>2 DEF TenantsInv, Boot, Booting, Wanted, Loaded
      <4>2. QED
        BY <1>2, <3>1, <3>2, <4>1, TenantsApart
    <3>3. CASE phase' = "panicked"
      <4>1. Boot'
        BY <3>3 DEF Boot, Booting
      <4>2. QED
        BY <1>2, <3>1, <3>3, <4>1, TenantsApart
    <3>4. QED
      BY <3>1, <3>2, <3>3
  <2>2. CASE LoadFromDBSystems
    <3>1. /\ phase = "systems" /\ phase' = "connect"
          /\ \E job : work' = [work EXCEPT ![Main] = job]
      BY <2>2 DEF LoadFromDBSystems
    <3>2. Boot'
      BY <1>2, <3>1 DEF TenantsInv, Boot, Booting
    <3>3. \A w \in Workers : work'[w] = work[w]
      BY <3>1 DEF WorkTypes
    <3>4. QED
      BY <1>2, <3>1, <3>2, <3>3, TenantsApart
  <2>3. CASE SystemsLoaded \/ CloseSystems
    <3>1. /\ work' = work
          /\ \/ phase = "connect" /\ phase' = "load"
             \/ phase' = "ended"
      BY <2>3 DEF SystemsLoaded, CloseSystems
    <3>2. Boot'
      BY <1>2, <3>1 DEF TenantsInv, Boot, Booting
    <3>3. QED
      BY <1>2, <3>1, <3>2, TenantsApart
  <2>4. ASSUME NEW w \in Goroutines,
               \/ Connect(w) \/ ConnectsDone(w)
               \/ \E s \in Systems : GetBicomSystem(w, s) \/ TurnOf(w, s)
        PROVE  TenantsInv'
    <3>1. /\ work[w].at = "connect" /\ phase' = phase
          /\ \E job : work' = [work EXCEPT ![w] = job]
      BY <2>4 DEF Connect, ConnectsDone, GetBicomSystem, TurnOf, Connecting
    <3>2. w = Main => phase \notin {"tenants", "start", "routes"}
      BY <3>1 DEF WorkTypes, TenantLists
    <3>3. QED
      BY <1>2, <3>1, <3>2, NobodyFollows
  <2>5. ASSUME NEW w \in Workers, FollowSystems(w)
        PROVE  TenantsInv'
    <3>1. /\ work[w].at = "systems" /\ phase' = phase /\ w # Main
          /\ \E job : work' = [work EXCEPT ![w] = job]
      BY <2>5 DEF FollowSystems
    <3>2. QED
      BY <1>2, <3>1, NobodyFollows
  <2>6. ASSUME NEW w \in Workers,
               \/ ReloadSystems(w)
               \/ \E s \in Systems :
                     ReloadSystem(w, s) \/ \E state \in SystemRows : WriteSystem(w, s, state)
        PROVE  TenantsInv'
    <3>1. \E job : Request(w, job)
      BY <2>6 DEF ReloadSystems, ReloadSystem, WriteSystem
    <3>2. QED
      BY <1>2, <3>1, RequestStep
  <2>7. QED
    BY <1>2, <2>1, <2>2, <2>3, <2>4, <2>5, <2>6 DEF PbxNext
<1>3. QED
  BY <1>1, <1>2

\* A list, a write or a query of a request.
LEMMA WritesStep ==
    ASSUME TenantsInv, LockInv, Process, NEW w \in Workers,
           \/ ListTenants(w) \/ ListFails(w)
           \/ \E row \in Row : updateTenantWrites(w, row)
           \/ \E id \in TenantIds :
                 \/ updateTenantReads(w, id) \/ deleteTenant(w, id) \/ importTenants(w, id)
                 \/ \E cfg \in Configs : createTenant(w, id, cfg)
    PROVE  TenantsInv'
<1> USE DEF Process
<1>1. UNCHANGED <<adapters, tenants, mgr>>
  BY DEF ListTenants, ListFails, updateTenantWrites, updateTenantReads, deleteTenant,
         importTenants, createTenant
<1>2. CASE ListTenants(w) \/ ListFails(w) \/ \E row \in Row : updateTenantWrites(w, row)
  <2>1. /\ work[w].at \in {"written", "read"} /\ phase' = phase /\ w # Main
        /\ \E job : work' = [work EXCEPT ![w] = job]
    BY <1>2 DEF ListTenants, ListFails, updateTenantWrites
  <2>2. ~ Booting
    BY <2>1 DEF LockInv, Quiet, Idle
  <2>3. QED
    BY <1>1, <2>1, <2>2, NobodyFollows
<1>3. CASE \E id \in TenantIds :
              \/ updateTenantReads(w, id) \/ deleteTenant(w, id) \/ importTenants(w, id)
              \/ \E cfg \in Configs : createTenant(w, id, cfg)
  <2>1. \E job : Request(w, job)
    BY <1>3 DEF updateTenantReads, deleteTenant, importTenants, createTenant
  <2>2. QED
    BY <1>1, <2>1, RequestStep
<1>4. QED
  BY <1>2, <1>3

\* A reload, or a stop of all tenants, takes the lock, or gives it back.
LEMMA TakesOrGives ==
    ASSUME TenantsInv, LockInv, Process,
           \/ BeginStopAll \/ EndStopAll
           \/ \E w \in Workers : LockManager(w) \/ StopsTwice(w) \/ UnlockManager(w)
    PROVE  TenantsInv'
<1> USE DEF Process
<1>1. UNCHANGED <<rows, adapters, tenants>>
  BY DEF BeginStopAll, EndStopAll, LockManager, StopsTwice, UnlockManager
<1>2. Objects'
  BY <1>1, ObjectsSame DEF TenantsInv
<1>3. CASE BeginStopAll
  <2>1. /\ phase' = "stop" /\ mgr' = [mgr EXCEPT !.holder = Main, !.todo = Loaded]
        /\ mgr.holder = None
    BY <1>3 DEF BeginStopAll
  <2>2. mgr.stopping = None
    BY <2>1 DEF LockInv, Held
  <2>3. mgr'.holder = Main /\ mgr'.todo = Loaded /\ mgr'.stopping = None
    BY <2>1, <2>2 DEF ProcessTypes, Locks
  <2>4. QED
    BY <1>1, <1>2, <2>1, <2>3, NobodyWaits DEF Boot, Booting, Loaded
<1>4. CASE EndStopAll
  <2>1. /\ phase' = "close" /\ mgr' = [mgr EXCEPT !.holder = None] /\ mgr.todo = {}
    BY <1>4 DEF EndStopAll
  <2>2. mgr.stopping = None
    BY <2>1 DEF LockInv, Held
  <2>3. mgr'.holder = None /\ mgr'.stopping = None
    BY <2>1, <2>2 DEF ProcessTypes, Locks
  <2>4. QED
    BY <1>2, <2>1, <2>3, NobodyWaits DEF Boot, Booting
<1>5. ASSUME NEW w \in Workers, LockManager(w) \/ StopsTwice(w) \/ UnlockManager(w)
      PROVE  TenantsInv'
  <2>1. work[w].at # "idle" /\ phase' = phase
    BY <1>5 DEF LockManager, StopsTwice, UnlockManager, At
  <2>2. ~ Booting
    BY <2>1 DEF LockInv, Quiet, Idle
  <2>3. Boot'
    BY <2>1, <2>2 DEF Boot, Booting
  <2>4. CASE LockManager(w)
    <3>1. mgr.holder = None /\ work[w].at \in {"listed", "invalidate"}
      BY <2>4 DEF LockManager
    <3>2. work[w] \in Reloads /\ mgr.stopping = None /\ phase # "stop"
      BY <3>1, Shapes DEF WorkTypes, LockInv, Held
    <3>3. /\ mgr'.holder = w /\ mgr'.stopping = None
          /\ \A id \in mgr'.todo : tenants[id] # None \/ Wanted(work[w].snap, id)
      BY <2>4, <3>2 DEF LockManager, ProcessTypes, Locks
    <3>4. work'[w].snap = work[w].snap
      BY <2>4, <3>2 DEF LockManager, WorkTypes, Reloads
    <3>5. QED
      BY <1>1, <1>2, <2>1, <2>3, <3>2, <3>3, <3>4, NobodyWaits
  <2>5. CASE StopsTwice(w) \/ UnlockManager(w)
    <3>1. mgr.holder = w /\ mgr'.holder = None /\ mgr'.stopping = mgr.stopping
      BY <2>5 DEF StopsTwice, UnlockManager, At, ProcessTypes, Locks
    <3>2. mgr.stopping = None /\ phase # "stop"
      BY <2>5, <3>1 DEF StopsTwice, UnlockManager, At, LockInv, Held
    <3>3. QED
      BY <1>2, <2>1, <2>3, <3>1, <3>2, NobodyWaits
  <2>6. QED
    BY <1>5, <2>4, <2>5
<1>6. QED
  BY <1>3, <1>4, <1>5

\* The lock holder stops a tenant of its list.
LEMMA StopStep ==
    ASSUME TenantsInv, LockInv, Process, NEW id \in TenantIds, tenants[id] # None, Stop(id),
           mgr.holder # None, id \in mgr.todo, mgr.stopping = None,
           UNCHANGED <<processVars, rows, tenants>>
    PROVE  TenantsInv'
<1> USE DEF Process
<1> PICK o : o = tenants[id].obj
  OBVIOUS
<1> PICK n : n = Current(o)
  OBVIOUS
<1>1. n \in DOMAIN adapters /\ IsLast(n, o)
  BY LinkExists DEF TenantsInv
<1>2. adapters[n] \in LinkType
  BY <1>1, AdaptersTyped DEF TenantsInv, Objects
<1> PICK state \in Shut : adapters' = StopEffects(n, state)
  BY DEF Stop, CloseOutcomes
<1> PICK r : r = [adapters[n] EXCEPT !.cancelled = TRUE, !.state = state]
  OBVIOUS
<1>3. /\ r \in LinkType /\ r.obj = adapters[n].obj /\ r.tenant = adapters[n].tenant
      /\ r.started = adapters[n].started /\ r.loop = adapters[n].loop
      /\ r.on = adapters[n].on /\ r.state \in Shut
  BY <1>2 DEF LinkType
<1>4. adapters' = [adapters EXCEPT ![n] = r]
  BY <1>1, <1>2 DEF StopEffects, LinkType
<1>5. /\ adapters' \in Seq(LinkType) /\ Len(adapters') = Len(adapters)
      /\ DOMAIN adapters' = DOMAIN adapters
      /\ \A m \in DOMAIN adapters : adapters'[m] = IF m = n THEN r ELSE adapters[m]
  BY <1>1, <1>3, <1>4 DEF TenantsInv, Objects, ObjectTypes
<1>6. \A m \in DOMAIN adapters :
          /\ adapters'[m].obj = adapters[m].obj
          /\ adapters'[m].tenant = adapters[m].tenant
          /\ adapters'[m].started = adapters[m].started
          /\ adapters'[m].state = "open" => adapters[m].state = "open"
          /\ adapters'[m].loop = adapters[m].loop
          /\ adapters'[m].on = adapters[m].on
  BY <1>3, <1>5
<1>7. ObjectTypes' /\ Owned'
  BY <1>5, <1>6 DEF TenantsInv, Objects, ObjectTypes, Owned
<1>8. Objects'
  <2>1. \A m \in DOMAIN adapters : adapters[m].loop = "blocked" =>
            adapters[m].on \in AdaptersOf(adapters[m].obj)
    BY DEF TenantsInv, Objects, ReadOwn
  <2>2. QED
    BY <1>5, <1>6, <1>7, <2>1, ObjectsInPlace DEF TenantsInv
<1>9. \A p : AdaptersOf(p)' = AdaptersOf(p)
  BY <1>5, <1>6 DEF AdaptersOf
<1>10. Link(id)' = r
  <2>1. Link(id)' = adapters'[n]
    BY <1>8, <1>9, LinkStays DEF TenantsInv
  <2>2. QED
    BY <1>1, <1>5, <2>1
<1>11. mgr'.holder = mgr.holder /\ mgr'.todo = mgr.todo /\ mgr'.stopping = id
  BY DEF Stop, ProcessTypes, Locks
<1>12. Boot'
  BY DEF Boot, Booting, LockInv, Quiet
<1>13. Waits'
  <2>1. \A w \in Workers : mgr'.holder = w =>
            \A i \in mgr'.todo : tenants'[i] # None \/ Wanted(work'[w].snap, i)
    BY <1>11 DEF TenantsInv, Waits, Wanted
  <2>2. mgr'.stopping = id /\ tenants'[id] # None /\ Link(id)'.state \in Shut
    BY <1>3, <1>10, <1>11
  <2>3. phase' = "stop" => mgr'.todo \subseteq Loaded'
    BY <1>11 DEF TenantsInv, Waits, Loaded
  <2>4. QED
    BY <2>1, <2>2, <2>3 DEF Waits
<1>14. QED
  BY <1>8, <1>12, <1>13 DEF TenantsInv

\* A tenant that was stopped, and whose loops have ended, may go.
LEMMA StoppedIsVacant ==
    ASSUME TenantsInv, NEW id \in TenantIds, NEW w, Stopped(w, id)
    PROVE  Vacant(id) /\ tenants[id] # None
<1>1. mgr.stopping = id /\ id # None
  BY DEF Stopped
<1>2. tenants[id] # None /\ Link(id).state \in Shut
  BY <1>1 DEF TenantsInv, Waits
<1>3. QED
  BY <1>2 DEF Vacant, Stopped

\* It goes, or is looked at no more.
LEMMA DoneStep ==
    ASSUME TenantsInv, LockInv, Process, NEW id \in TenantIds,
           \/ \E w \in Workers : RemoveTenant(w, id) \/ UpdateTenant(w, id)
           \/ StoppedInAll(id)
    PROVE  TenantsInv'
<1> USE DEF Process
<1>1. /\ UNCHANGED <<processVars, rows, adapters>>
      /\ mgr'.holder = mgr.holder /\ mgr'.stopping = None /\ mgr'.todo = mgr.todo \ {id}
      /\ mgr.holder # None
  <2>1. CASE \E w \in Workers : RemoveTenant(w, id)
    BY <2>1 DEF RemoveTenant, Stopped, ProcessTypes, Locks
  <2>2. CASE \E w \in Workers : UpdateTenant(w, id)
    BY <2>2 DEF UpdateTenant, At, ProcessTypes, Locks
  <2>3. CASE StoppedInAll(id)
    BY <2>3 DEF StoppedInAll, Stopped, ProcessTypes, Locks
  <2>4. QED
    BY <2>1, <2>2, <2>3
<1>2. Boot'
  BY <1>1 DEF Boot, Booting, LockInv, Quiet
<1>3. \A t \in TenantIds : t # id => tenants'[t] = tenants[t]
  BY DEF RemoveTenant, UpdateTenant, StoppedInAll, TenantsInv, Objects, ObjectTypes
<1>4. \A w \in Workers : mgr'.holder = w =>
          \A i \in mgr'.todo : tenants'[i] # None \/ Wanted(work'[w].snap, i)
  BY <1>1, <1>3 DEF TenantsInv, Waits, Wanted, ProcessTypes, Locks
<1>5. phase' = "stop" => mgr'.todo \subseteq Loaded'
  BY <1>1, <1>3 DEF TenantsInv, Waits, Loaded
<1>6. Objects'
  <2>1. CASE \E w \in Workers : RemoveTenant(w, id)
    BY <1>1, <2>1, StoppedIsVacant, ObjectsForget DEF RemoveTenant, TenantsInv
  <2>2. CASE StoppedInAll(id)
    BY <1>1, <2>2, ObjectsSame DEF StoppedInAll, TenantsInv
  <2>3. ASSUME NEW w \in Workers, UpdateTenant(w, id) PROVE Objects'
    <3>1. /\ tenants[id] # None /\ id \in mgr.todo /\ GoneFirst(w) /\ work[w].at = "follow"
          /\ tenants' = [tenants EXCEPT ![id].cfg = work[w].snap[id].cfg]
      BY <2>3 DEF UpdateTenant, At
    <3>2. Wanted(work[w].snap, id)
      BY <3>1 DEF GoneFirst, Gone
    <3>3. work[w].snap[id].cfg \in Configs
      <4>1. work[w] \in Reloads
        BY <3>1, Shapes DEF WorkTypes
      <4>2. work[w].snap[id] \in Row
        BY <3>2, <4>1 DEF Wanted, Reloads
      <4>3. QED
        BY <4>2 DEF Row
    <3>4. tenants[id] \in Object
      BY <3>1 DEF TenantsInv, Objects, ObjectTypes
    <3>5. PICK t : t = [tenants[id] EXCEPT !.cfg = work[w].snap[id].cfg]
      OBVIOUS
    <3>6. t \in Object /\ t.obj = tenants[id].obj /\ t # None
      BY <3>3, <3>4, <3>5 DEF Object
    <3>7. tenants' = [tenants EXCEPT ![id] = t]
      BY <3>1, <3>5
    <3>8. /\ tenants' \in [TenantIds -> Object \cup {None}]
          /\ \A i \in TenantIds : tenants'[i] = IF i = id THEN t ELSE tenants[i]
      BY <3>6, <3>7 DEF TenantsInv, Objects, ObjectTypes
    <3>9. ObjectTypes' /\ Owned'
      BY <1>1, <3>1, <3>6, <3>8 DEF TenantsInv, Objects, ObjectTypes, Owned
    <3>10. \A m \in DOMAIN adapters : adapters[m].loop = "blocked" =>
              adapters[m].on \in AdaptersOf(adapters[m].obj)
      BY DEF TenantsInv, Objects, ReadOwn
    <3>11. QED
      BY <1>1, <3>6, <3>8, <3>9, <3>10, ObjectsInPlace DEF TenantsInv, Objects, ObjectTypes
  <2>4. QED
    BY <2>1, <2>2, <2>3
<1>7. QED
  BY <1>1, <1>2, <1>4, <1>5, <1>6, NobodyWaits

\* A new object takes the place of none, or of one that was stopped.
LEMMA ReplaceStep ==
    ASSUME TenantsInv, LockInv, Process, NEW w \in Workers, NEW id \in TenantIds,
           NEW outcome \in Outcomes, RestartTenant(w, id, outcome) \/ StartTenant(w, id, outcome)
    PROVE  TenantsInv'
<1> USE DEF Process
<1>1. /\ work[w].at = "follow" /\ mgr.holder = w /\ id \in mgr.todo
      /\ Replace(w, id, outcome)
  BY DEF RestartTenant, StartTenant, Stopped, At, LockInv, Held
<1>2. Wanted(work[w].snap, id) /\ Vacant(id)
  <2>1. CASE RestartTenant(w, id, outcome)
    BY <2>1, StoppedIsVacant DEF RestartTenant, Changed
  <2>2. CASE StartTenant(w, id, outcome)
    BY <1>1, <2>2 DEF StartTenant, TenantsInv, Waits, Vacant
  <2>3. QED
    BY <2>1, <2>2
<1> PICK cfg : cfg = work[w].snap[id].cfg
  OBVIOUS
<1>3. cfg \in Configs
  <2>1. work[w] \in Reloads
    BY <1>1, Shapes DEF WorkTypes
  <2>2. work[w].snap[id] \in Row
    BY <1>2, <2>1 DEF Wanted, Reloads
  <2>3. QED
    BY <2>2 DEF Row
<1>4. NewObject \in Nat /\ NewObject = Len(adapters) + 1
  BY DEF NewObject, TenantsInv, Objects, ObjectTypes
<1> PICK r : r = Created(id, NewObject, cfg, outcome)
  OBVIOUS
<1>5. /\ r \in LinkType /\ r.tenant = id /\ r.obj = NewObject /\ r.cfg = cfg
      /\ r.loop = IF outcome = "ok" THEN "new" ELSE "none"
      /\ r.started <=> outcome = "ok"
  BY <1>3, <1>4, WhatIsCreated
<1>6. /\ adapters' = Append(adapters, r)
      /\ tenants' = IF outcome = "ok"
                    THEN [tenants EXCEPT ![id] = [cfg |-> cfg, obj |-> NewObject]]
                    ELSE tenants
      /\ mgr' = [mgr EXCEPT !.stopping = None, !.todo = @ \ {id}]
      /\ UNCHANGED <<phase, work, rows>>
  BY <1>1 DEF Replace, Start
<1>7. outcome = "ok" => tenants'[id] # None /\ tenants'[id].obj = NewObject
  BY <1>3, <1>4, <1>6 DEF TenantsInv, Objects, ObjectTypes
<1>8. Objects'
  BY <1>2, <1>4, <1>5, <1>6, <1>7, ObjectsOpen DEF TenantsInv
<1>9. mgr'.holder = w /\ mgr'.stopping = None /\ mgr'.todo = mgr.todo \ {id}
  BY <1>1, <1>6 DEF ProcessTypes, Locks
<1>10. Boot'
  BY <1>1, <1>6 DEF Boot, Booting, LockInv, Quiet
<1>11. \A t \in TenantIds : t # id => tenants'[t] = tenants[t]
  BY <1>6 DEF TenantsInv, Objects, ObjectTypes
<1>12. \A v \in Workers : mgr'.holder = v =>
          \A i \in mgr'.todo : tenants'[i] # None \/ Wanted(work'[v].snap, i)
  BY <1>1, <1>6, <1>9, <1>11 DEF TenantsInv, Waits, Wanted, ProcessTypes, Locks
<1>13. phase' # "stop"
  BY <1>1, <1>6 DEF LockInv, Held
<1>14. QED
  BY <1>8, <1>9, <1>10, <1>12, <1>13, NobodyWaits

\* Every step keeps it.
LEMMA TenantsStep == Process /\ LockInv /\ TenantsInv /\ [Next]_vars => TenantsInv'
<1> SUFFICES ASSUME Process, LockInv, TenantsInv, [Next]_vars PROVE TenantsInv'
  OBVIOUS
<1>1. CASE UNCHANGED vars
  <2>1. Boot'
    BY <1>1 DEF vars, TenantsInv, Boot, Booting, Wanted, Loaded
  <2>2. QED
    BY <1>1, <2>1, TenantsApart DEF vars, Process
<1>2. CASE (ILinkNext /\ UNCHANGED pbxVars) \/ (PbxNext /\ UNCHANGED <<tenantVars, ilinkVars>>)
  BY <1>2, OthersStep
<1>3. CASE TenantNext /\ UNCHANGED <<ilinkVars, pbxVars>>
  <2>1. CASE LoadFromDB \/ BeginStartAll
    BY <1>3, <2>1, MainLists
  <2>2. CASE BeginStopAll \/ EndStopAll
    BY <2>2, TakesOrGives
  <2>3. ASSUME NEW id \in TenantIds, StopAll(id)
        PROVE  TenantsInv'
    <3>1. CASE AlreadyStopped(id)
      <4>1. phase' = "panicked" /\ UNCHANGED <<work, rows, tenants, adapters, mgr>>
        BY <2>3, <3>1 DEF StopAll
      <4>2. Boot'
        BY <4>1 DEF Boot, Booting
      <4>3. QED
        BY <4>1, <4>2, TenantsApart DEF Process
    <3>2. CASE ~ AlreadyStopped(id)
      <4>1. /\ phase = "stop" /\ id \in mgr.todo /\ mgr.stopping = None /\ Stop(id)
            /\ UNCHANGED <<processVars, rows, tenants>>
        BY <2>3, <3>2 DEF StopAll
      <4>2. tenants[id] # None /\ mgr.holder # None
        BY <4>1 DEF TenantsInv, Waits, Loaded, LockInv, Held
      <4>3. QED
        BY <4>1, <4>2, StopStep
    <3>3. QED
      BY <3>1, <3>2
  <2>4. ASSUME NEW id \in TenantIds, StoppedInAll(id)
        PROVE  TenantsInv'
    BY <2>4, DoneStep
  <2>5. ASSUME NEW id \in TenantIds, NEW outcome \in Outcomes,
               LoadTenant(id, outcome) \/ StartAll(id, outcome)
        PROVE  TenantsInv'
    BY <2>5, LoadStep, StartAllStep
  <2>6. ASSUME NEW n \in DOMAIN adapters,
               Loop(n) \/ LoopHandles(n) \/ handlePBXEvent(n) \/ SendsOnClosed(n)
        PROVE  TenantsInv'
    BY <2>6, LoopStep
  <2>7. ASSUME NEW w \in Workers, ReloadSteps(w)
        PROVE  TenantsInv'
    <3>1. CASE ListTenants(w)
      BY <3>1, WritesStep
    <3>2. CASE LockManager(w) \/ StopsTwice(w) \/ UnlockManager(w)
      BY <3>2, TakesOrGives
    <3>3. ASSUME NEW id \in TenantIds, StopTenant(w, id)
          PROVE  TenantsInv'
      <4>1. /\ id \in mgr.todo /\ mgr.stopping = None /\ mgr.holder # None /\ Stop(id)
            /\ UNCHANGED <<processVars, rows, tenants>>
        BY <3>3 DEF StopTenant, At
      <4>2. tenants[id] # None
        BY <3>3 DEF StopTenant, MustStop, Gone, Changed
      <4>3. QED
        BY <4>1, <4>2, StopStep
    <3>4. ASSUME NEW id \in TenantIds, RemoveTenant(w, id) \/ UpdateTenant(w, id)
          PROVE  TenantsInv'
      BY <3>4, DoneStep
    <3>5. ASSUME NEW id \in TenantIds, NEW outcome \in Outcomes,
                 RestartTenant(w, id, outcome) \/ StartTenant(w, id, outcome)
          PROVE  TenantsInv'
      BY <3>5, ReplaceStep
    <3>6. QED
      BY <2>7, <3>1, <3>2, <3>3, <3>4, <3>5 DEF ReloadSteps
  <2>8. ASSUME NEW w \in Workers,
               \/ ListFails(w)
               \/ \E row \in Row : updateTenantWrites(w, row)
               \/ \E id \in TenantIds :
                     \/ updateTenantReads(w, id) \/ deleteTenant(w, id) \/ importTenants(w, id)
                     \/ \E cfg \in Configs : createTenant(w, id, cfg)
        PROVE  TenantsInv'
    BY <2>8, WritesStep
  <2>9. CASE LoadFails
    <3>1. phase' = "fatal" /\ UNCHANGED <<work, rows, tenants, adapters, mgr>>
      BY <2>9 DEF LoadFails
    <3>2. Boot'
      BY <3>1 DEF Boot, Booting
    <3>3. QED
      BY <3>1, <3>2, TenantsApart DEF Process
  <2>10. QED
    BY <1>3, <2>1, <2>2, <2>3, <2>4, <2>5, <2>6, <2>7, <2>8, <2>9 DEF TenantNext, StopSteps
<1>4. QED
  BY <1>1, <1>2, <1>3 DEF Next

\* It holds at the beginning.
LEMMA TenantsInitially == Init => TenantsInv
<1> SUFFICES ASSUME Init PROVE TenantsInv
  OBVIOUS
<1>1. /\ tenants = [id \in TenantIds |-> None] /\ adapters = <<>> /\ phase = "systems"
      /\ mgr = [holder |-> None, todo |-> {}, stopping |-> None]
  BY DEF Init, TenantInit, ProcessInit
<1>2. adapters \in Seq(LinkType) /\ DOMAIN adapters = {}
  BY <1>1
<1>3. Objects
  BY <1>1, <1>2 DEF Objects, ObjectTypes, Named, Owned, HaveLast, ReadOwn, ReadersAreLoaded,
                    LastAreLoaded, AdaptersOf
<1>4. Boot
  BY <1>1, <1>2 DEF Boot
<1>5. Waits
  BY <1>1 DEF Waits
<1>6. QED
  BY <1>3, <1>4, <1>5 DEF TenantsInv

ServerInv == Process /\ PbxInv /\ LockInv /\ TenantsInv

\* It holds in every reachable state.
LEMMA ServerInvInductive == Spec => []ServerInv
<1>1. Init => ServerInv
  <2>1. Init => PbxInv
    BY DEF Init, PbxInit, PbxInv, ClosedAreSilent, EntriesAreOpen, StatesWereReported, Providers
  <2>2. QED
    BY <2>1, ProcessInitially, LockInitially, TenantsInitially DEF ServerInv
<1>2. ServerInv /\ [Next]_vars => ServerInv'
  BY ProcessStep, PbxStep, LockStep, TenantsStep DEF ServerInv
<1>3. QED
  BY <1>1, <1>2, PTL DEF Spec

\* A goroutine that handles events of a tenant belongs to the tenant the manager has.
THEOREM OnlyLoadedAreRead == Spec => []ReadersAreLoaded
<1>1. ServerInv => ReadersAreLoaded
  BY DEF ServerInv, TenantsInv, Objects
<1>2. QED
  BY <1>1, ServerInvInductive, PTL

\* An open link that nobody will close has a cause.
THEOREM LeaksAreKnown == Spec => []OrphansHaveACause
<1>1. ASSUME Objects, NEW n \in DOMAIN adapters, adapters[n].state = "open"
      PROVE  \/ IsLoaded(n) /\ ~ Superseded(n)
             \/ adapters[n].obj = 0
             \/ Superseded(n) /\ adapters[Current(adapters[n].obj)].tenant = adapters[n].tenant
             \/ ~ adapters[n].started
  <2>1. SUFFICES ASSUME adapters[n].obj # 0, adapters[n].started
                 PROVE  \/ IsLoaded(n) /\ ~ Superseded(n)
                        \/ /\ Superseded(n)
                           /\ adapters[Current(adapters[n].obj)].tenant = adapters[n].tenant
    OBVIOUS
  <2> PICK o : o = adapters[n].obj
    OBVIOUS
  <2>2. PICK k : IsLast(k, o)
    BY <1>1 DEF Objects, HaveLast, AdaptersOf
  <2>3. Current(o) = k /\ k \in DOMAIN adapters /\ adapters[k].obj = o
    BY <1>1, <2>2, CurrentIsLast DEF Objects, IsLast, AdaptersOf
  <2>4. CASE k = n
    BY <1>1, <2>1, <2>2, <2>3, <2>4 DEF Objects, LastAreLoaded, Superseded
  <2>5. CASE k # n
    BY <1>1, <2>1, <2>3, <2>5 DEF Objects, Named, Superseded
  <2>6. QED
    BY <2>4, <2>5
<1>2. ServerInv => OrphansHaveACause
  BY <1>1 DEF ServerInv, TenantsInv, OrphansHaveACause
<1>3. QED
  BY <1>2, ServerInvInductive, PTL

----------------------------------------------------------------------------
(***************************************************************************)
(* What a closed connection does, and what ends the process in a panic.    *)
(***************************************************************************)

\* A send on a channel that a Close has closed, or a second stop of a tenant, and nothing else.
Panics == phase = "panicked" => EventOvertaken \/ \E id \in TenantIds : LeftStopped(id)

\* What panics has this cause.
LEMMA PanicsStep == ServerInv /\ Panics /\ [Next]_vars => Panics'
<1> SUFFICES ASSUME ServerInv, Panics, [Next]_vars, phase' = "panicked"
             PROVE  \/ \E n \in Providers' : providers'[n].overtaken
                    \/ \E n \in DOMAIN adapters' : adapters'[n].overtaken
                    \/ \E id \in TenantIds : LeftStopped(id)'
  BY DEF Panics, EventOvertaken
<1> USE DEF ServerInv, Process
<1>1. ASSUME NEW id \in TenantIds, LeftStopped(id), UNCHANGED <<adapters, tenants, mgr>>
      PROVE  LeftStopped(id)'
  <2>1. Objects'
    BY <1>1, ObjectsSame DEF TenantsInv
  <2>2. Link(id)' = Link(id)
    BY <1>1, <2>1, LinksSame DEF TenantsInv, LeftStopped
  <2>3. QED
    BY <1>1, <2>2 DEF LeftStopped
<1>2. CASE UNCHANGED vars
  BY <1>1, <1>2 DEF vars, Panics, EventOvertaken, Providers
<1>3. CASE Next
  <2>1. phase # "panicked"
    BY <1>3 DEF Next, Running
  <2>2. \/ \E id \in TenantIds : StopAll(id) /\ AlreadyStopped(id)
        \/ \E n \in Providers : EventSent(n) /\ providers[n].closed
        \/ \E n \in DOMAIN adapters : SendsOnClosed(n)
    <3>1. CASE TenantNext
      <4>1. ASSUME NEW w \in Workers, NEW job, Request(w, job) PROVE phase' = phase
        BY <4>1 DEF Request
      <4>2. ASSUME NEW w \in Workers,
                   \E id \in TenantIds :
                      \/ updateTenantReads(w, id) \/ deleteTenant(w, id) \/ importTenants(w, id)
                      \/ \E cfg \in Configs : createTenant(w, id, cfg)
            PROVE  phase' = phase
        BY <4>1, <4>2 DEF updateTenantReads, deleteTenant, importTenants, createTenant
      <4>3. ASSUME NEW id \in TenantIds, NEW outcome \in Outcomes,
                   LoadTenant(id, outcome) \/ StartAll(id, outcome)
            PROVE  phase' \in {phase, "fatal"}
        BY <4>3 DEF LoadTenant, StartAll
      <4>4. ASSUME NEW w \in Workers, ReloadSteps(w) \/ ListFails(w)
            PROVE  phase' = phase
        BY <4>4 DEF ReloadSteps, ListTenants, LockManager, StopsTwice, UnlockManager, StopTenant,
                    RemoveTenant, UpdateTenant, RestartTenant, StartTenant, Replace, ListFails
      <4>5. QED
        BY <2>1, <3>1, <4>2, <4>3, <4>4
           DEF TenantNext, LoadFromDB, LoadFails, BeginStartAll, BeginStopAll, StopSteps,
               EndStopAll, StopAll, StoppedInAll, MainGoes, Loop, LoopSelects, LoopEnds,
               LoopHandles, handlePBXEvent, updateTenantWrites
    <3>2. CASE ILinkNext
      BY <2>1, <3>2 DEF ILinkNext, BuildRouter, ListenAndServe, RegisterTenant, handleSet,
                        createTenantToken, revokeTenantToken, resolveAndAuth, MainGoes, Request
    <3>3. CASE PbxNext
      BY <2>1, <3>3 DEF PbxNext, ProviderNext, Dialled, Reconnected, SubscriptionLost,
                        ReconnectChecks, EventArrives, EventSent, Reports, LoadFromDBSystems,
                        SystemsLoaded, CloseSystems, Connect, ConnectsDone, GetBicomSystem,
                        TurnOf, ReloadSystems, FollowSystems, ReloadSystem, WriteSystem, Request
    <3>4. QED
      BY <1>3, <3>1, <3>2, <3>3 DEF Next
  <2>3. ASSUME NEW id \in TenantIds, StopAll(id), AlreadyStopped(id)
        PROVE  LeftStopped(id)'
    <3>1. tenants[id] # None /\ Link(id).state = "closed" /\ mgr.stopping # id
      BY <2>3 DEF StopAll, AlreadyStopped, Link, TenantsInv, Waits, Loaded
    <3>2. UNCHANGED <<adapters, tenants, mgr>>
      BY <2>3 DEF StopAll
    <3>3. QED
      BY <1>1, <3>1, <3>2 DEF LeftStopped
  <2>4. ASSUME NEW n \in Providers, EventSent(n), providers[n].closed
        PROVE  n \in Providers' /\ providers'[n].overtaken
    <3>1. providers[n].handling
      BY <2>4 DEF EventSent
    <3>2. providers[n].overtaken /\ providers[n] \in ProviderType
      BY <2>4, <3>1 DEF PbxInv, ClosedAreSilent, Silent, Providers
    <3>3. providers' = [providers EXCEPT ![n] = [providers[n] EXCEPT !.handling = FALSE]]
      BY <2>4 DEF EventSent, Provider
    <3>4. PICK p : p = [providers[n] EXCEPT !.handling = FALSE]
      OBVIOUS
    <3>5. p \in ProviderType /\ p.overtaken = providers[n].overtaken
      BY <3>2, <3>4 DEF ProviderType
    <3>6. Len(providers') = Len(providers) /\ providers'[n] = p
      <4>1. providers \in Seq(ProviderType)
        BY DEF PbxInv
      <4>2. providers' = [providers EXCEPT ![n] = p]
        BY <3>3, <3>4
      <4>3. QED
        BY <3>5, <4>1, <4>2 DEF Providers
    <3>7. QED
      BY <3>2, <3>5, <3>6 DEF Providers
  <2>5. ASSUME NEW n \in DOMAIN adapters, SendsOnClosed(n)
        PROVE  n \in DOMAIN adapters' /\ adapters'[n].overtaken
    <3>1. adapters \in Seq(LinkType) /\ adapters[n] \in LinkType
      BY DEF TenantsInv, Objects, ObjectTypes
    <3>2. PICK r : r = [adapters[n] EXCEPT !.overtaken = TRUE]
      OBVIOUS
    <3>3. adapters' = [adapters EXCEPT ![n] = r] /\ r.overtaken
      BY <2>5, <3>1, <3>2 DEF SendsOnClosed, LinkType
    <3>4. QED
      BY <3>1, <3>3
  <2>6. QED
    BY <2>2, <2>3, <2>4, <2>5
<1>4. QED
  BY <1>2, <1>3

\* A closed provider has no client, subscription or dial left unless Close overtook its
\* goroutines; a panic takes an event that a Close overtook, or a tenant that was left stopped.
THEOREM ClosedForGood == Spec => []CloseIsFinal
<1>1. Init => Panics
  BY DEF Init, ProcessInit, Panics
<1>2. ServerInv /\ Panics => CloseIsFinal
  BY DEF ServerInv, PbxInv, ClosedAreSilent, Silent, Panics, CloseIsFinal
<1>3. QED
  BY <1>1, <1>2, PanicsStep, ServerInvInductive, PTL DEF Spec

----------------------------------------------------------------------------
(***************************************************************************)
(* What becomes of an adapter, and the ledger of the iLink endpoints.      *)
(***************************************************************************)

\* No adapter goes; each keeps what it was created with, and an endpoint's its channel.
Kept ==
    /\ DOMAIN adapters \subseteq DOMAIN adapters'
    /\ \A n \in DOMAIN adapters :
           /\ adapters'[n].obj = adapters[n].obj
           /\ adapters'[n].tenant = adapters[n].tenant
           /\ adapters'[n].cfg = adapters[n].cfg
           /\ adapters[n].obj = 0 => adapters'[n].queue = adapters[n].queue

\* What is opened is a tenant's.
OpensTenants == \A n \in DOMAIN adapters' : n \notin DOMAIN adapters => adapters'[n].obj # 0

\* One adapter is opened.
LEMMA OpensOne ==
    ASSUME ObjectTypes, NEW r, adapters' = Append(adapters, r)
    PROVE  Kept /\ (r.obj # 0 => OpensTenants)
<1>1. /\ Len(adapters) \in Nat /\ DOMAIN adapters = 1..Len(adapters)
      /\ DOMAIN adapters' = 1..(Len(adapters) + 1) /\ adapters'[Len(adapters) + 1] = r
      /\ \A n \in DOMAIN adapters : adapters'[n] = adapters[n]
  BY DEF ObjectTypes
<1>2. \A n \in DOMAIN adapters' : n \notin DOMAIN adapters => n = Len(adapters) + 1
  BY <1>1
<1>3. QED
  BY <1>1, <1>2 DEF Kept, OpensTenants

\* Nothing that an endpoint sees changes in any adapter.
LEMMA OpensNone ==
    ASSUME DOMAIN adapters' = DOMAIN adapters,
           \A n \in DOMAIN adapters :
               /\ adapters'[n].obj = adapters[n].obj
               /\ adapters'[n].tenant = adapters[n].tenant
               /\ adapters'[n].cfg = adapters[n].cfg
               /\ adapters[n].obj = 0 => adapters'[n].queue = adapters[n].queue
    PROVE  Kept /\ OpensTenants
BY DEF Kept, OpensTenants

\* A loop reads from a tenant's adapter.
LEMMA ReadersAreTenants ==
    ASSUME Objects, NEW n \in DOMAIN adapters, adapters[n].loop = "blocked"
    PROVE  adapters[n].on \in DOMAIN adapters /\ adapters[adapters[n].on].obj # 0
<1>1. adapters[n].on \in AdaptersOf(adapters[n].obj)
  BY DEF Objects, ReadOwn
<1>2. tenants[adapters[n].tenant] # None /\ tenants[adapters[n].tenant].obj = adapters[n].obj
  BY DEF Objects, ReadersAreLoaded, IsLoaded
<1>3. adapters[n].tenant \in TenantIds
  BY AdaptersTyped DEF Objects
<1>4. adapters[n].obj # 0
  BY <1>2, <1>3 DEF Objects, Owned
<1>5. QED
  BY <1>1, <1>4 DEF AdaptersOf

\* No link opens or closes.
StatesKept ==
    /\ DOMAIN adapters' = DOMAIN adapters
    /\ \A n \in DOMAIN adapters : adapters'[n].state = adapters[n].state

\* The loops of the tenants leave the endpoints, and all links, alone.
LEMMA LoopKeeps ==
    ASSUME Objects, NEW n \in DOMAIN adapters,
           Loop(n) \/ LoopHandles(n) \/ handlePBXEvent(n) \/ SendsOnClosed(n)
    PROVE  Kept /\ OpensTenants /\ StatesKept
<1>1. adapters \in Seq(LinkType) /\ \A k \in DOMAIN adapters : adapters[k] \in LinkType
  BY DEF Objects, ObjectTypes
<1>2. CASE LoopSelects(n) \/ LoopEnds(n) \/ handlePBXEvent(n) \/ SendsOnClosed(n)
  <2>1. PICK e : /\ e.obj = adapters[n].obj /\ e.tenant = adapters[n].tenant
                 /\ e.cfg = adapters[n].cfg /\ e.queue = adapters[n].queue
                 /\ e.state = adapters[n].state
                 /\ adapters' = [adapters EXCEPT ![n] = e]
    <3>1. CASE LoopSelects(n)
      <4>1. PICK k : k = Current(adapters[n].obj)
        OBVIOUS
      <4>2. adapters' = [adapters EXCEPT ![n] = [adapters[n] EXCEPT !.loop = "blocked", !.on = k]]
        BY <3>1, <4>1 DEF LoopSelects
      <4>3. QED
        BY <1>1, <4>2 DEF LinkType
    <3>2. CASE LoopEnds(n)
      <4>1. adapters' = [adapters EXCEPT ![n] = [adapters[n] EXCEPT !.loop = "none"]]
        BY <3>2 DEF LoopEnds
      <4>2. QED
        BY <1>1, <4>1 DEF LinkType
    <3>3. CASE handlePBXEvent(n)
      <4>1. adapters' = [adapters EXCEPT ![n] = [adapters[n] EXCEPT !.loop = "new"]]
        BY <3>3 DEF handlePBXEvent
      <4>2. QED
        BY <1>1, <4>1 DEF LinkType
    <3>4. CASE SendsOnClosed(n)
      <4>1. adapters' = [adapters EXCEPT ![n] = [adapters[n] EXCEPT !.overtaken = TRUE]]
        BY <3>4 DEF SendsOnClosed
      <4>2. QED
        BY <1>1, <4>1 DEF LinkType
    <3>5. QED
      BY <1>2, <3>1, <3>2, <3>3, <3>4
  <2>2. /\ DOMAIN adapters' = DOMAIN adapters
        /\ \A k \in DOMAIN adapters : adapters'[k] = IF k = n THEN e ELSE adapters[k]
    BY <2>1
  <2>3. QED
    BY <2>1, <2>2, OpensNone DEF StatesKept
<1>3. CASE LoopHandles(n)
  <2>1. PICK m : m = adapters[n].on
    OBVIOUS
  <2>2. PICK q : q = IF adapters[m].cfg \in TigerConfigs THEN adapters[m].queue - 1
                                                         ELSE adapters[m].queue
    OBVIOUS
  <2>3. m \in DOMAIN adapters /\ adapters[m].obj # 0
    BY <1>3, <2>1, ReadersAreTenants DEF LoopHandles
  <2>4. PICK e : e = [adapters[n] EXCEPT !.loop = "new"]
    OBVIOUS
  <2>5. /\ e \in LinkType /\ e.obj = adapters[n].obj /\ e.tenant = adapters[n].tenant
        /\ e.cfg = adapters[n].cfg /\ e.queue = adapters[n].queue
        /\ e.state = adapters[n].state
    <3>1. adapters[n] \in LinkType
      BY <1>1
    <3>2. QED
      BY <2>4, <3>1, SMTT(30) DEF LinkType
  <2>6. PICK l : l = [adapters EXCEPT ![n] = e]
    OBVIOUS
  <2>7. /\ DOMAIN l = DOMAIN adapters
        /\ \A k \in DOMAIN adapters : l[k] = IF k = n THEN e ELSE adapters[k]
    BY <1>1, <2>6
  <2>8. PICK f : f = [l[m] EXCEPT !.queue = q]
    OBVIOUS
  <2>9. l[m] \in LinkType
    BY <1>1, <2>3, <2>5, <2>7
  <2>10. /\ f.obj = l[m].obj /\ f.tenant = l[m].tenant /\ f.cfg = l[m].cfg
         /\ f.state = l[m].state
    BY <2>8, <2>9 DEF LinkType
  <2>11. adapters' = [l EXCEPT ![m] = f]
    <3>1. l[m].queue = adapters[m].queue
      BY <2>3, <2>5, <2>7
    <3>2. adapters' = [l EXCEPT ![m] = [l[m] EXCEPT !.queue = q]]
      BY <1>3, <2>1, <2>2, <2>3, <2>4, <2>6, <3>1 DEF LoopHandles
    <3>3. QED
      BY <2>8, <3>2
  <2>12. /\ DOMAIN adapters' = DOMAIN adapters
         /\ \A k \in DOMAIN adapters : adapters'[k] = IF k = m THEN f ELSE l[k]
    BY <2>7, <2>11
  <2>13. \A k \in DOMAIN adapters :
             /\ l[k].obj = adapters[k].obj /\ l[k].tenant = adapters[k].tenant
             /\ l[k].cfg = adapters[k].cfg /\ l[k].state = adapters[k].state
             /\ l[k].queue = adapters[k].queue
    BY <2>5, <2>7
  <2>14. \A k \in DOMAIN adapters :
             /\ adapters'[k].obj = adapters[k].obj
             /\ adapters'[k].tenant = adapters[k].tenant
             /\ adapters'[k].cfg = adapters[k].cfg
             /\ adapters'[k].state = adapters[k].state
             /\ adapters[k].obj = 0 => adapters'[k].queue = adapters[k].queue
    BY <2>3, <2>10, <2>12, <2>13
  <2>15. StatesKept
    BY <2>12, <2>14 DEF StatesKept
  <2>16. Kept /\ OpensTenants
    BY <2>12, <2>14, OpensNone, Zenon
  <2>17. QED
    BY <2>15, <2>16
<1>4. QED
  BY <1>2, <1>3 DEF Loop

\* So does all that the tenants' part does.
LEMMA TenantKeeps ==
    ASSUME ServerInv, TenantNext
    PROVE  Kept /\ OpensTenants
<1> USE DEF ServerInv, TenantsInv, Process
<1>1. ObjectTypes /\ Len(adapters) \in Nat
  BY DEF Objects, ObjectTypes
<1>2. ASSUME adapters' = adapters PROVE Kept /\ OpensTenants
  BY <1>2 DEF Kept, OpensTenants
<1>3. ASSUME NEW id \in TenantIds, NEW obj, NEW cfg, NEW outcome,
             Start(id, obj, cfg, outcome), obj # 0
      PROVE  Kept /\ OpensTenants
  <2>1. PICK r : r = Created(id, obj, cfg, outcome)
    OBVIOUS
  <2>2. r.obj = obj
    BY <2>1 DEF Created
  <2>3. adapters' = Append(adapters, r)
    BY <1>3, <2>1 DEF Start
  <2>4. QED
    BY <1>1, <1>3, <2>2, <2>3, OpensOne
<1>4. NewObject # 0
  BY <1>1 DEF NewObject
<1>5. ASSUME NEW id \in TenantIds, tenants[id] # None, Stop(id)
      PROVE  Kept /\ OpensTenants
  <2>1. PICK n : n = Current(tenants[id].obj)
    OBVIOUS
  <2>2. n \in DOMAIN adapters
    BY <1>5, <2>1, LinkExists
  <2>3. adapters[n] \in LinkType
    BY <2>2, AdaptersTyped DEF Objects
  <2>9. PICK state : adapters' = StopEffects(n, state)
    BY <1>5, <2>1 DEF Stop
  <2>4. PICK e : e = [adapters[n] EXCEPT !.cancelled = TRUE, !.state = state]
    OBVIOUS
  <2>5. /\ e.obj = adapters[n].obj /\ e.tenant = adapters[n].tenant
        /\ e.cfg = adapters[n].cfg /\ e.queue = adapters[n].queue
    BY <2>3, <2>4 DEF LinkType
  <2>6. adapters' = [adapters EXCEPT ![n] = e]
    BY <2>2, <2>3, <2>4, <2>9 DEF StopEffects, LinkType
  <2>7. /\ DOMAIN adapters' = DOMAIN adapters
        /\ \A k \in DOMAIN adapters : adapters'[k] = IF k = n THEN e ELSE adapters[k]
    BY <2>6
  <2>8. QED
    BY <2>5, <2>7, OpensNone
<1>6. ASSUME NEW id \in TenantIds, StopAll(id)
      PROVE  Kept /\ OpensTenants
  <2>1. tenants[id] # None
    BY <1>6 DEF StopAll, Waits, Loaded
  <2>2. adapters' = adapters \/ Stop(id)
    BY <1>6 DEF StopAll
  <2>3. QED
    BY <1>2, <1>5, <2>1, <2>2
<1>7. ASSUME NEW id \in TenantIds, NEW outcome \in Outcomes, LoadTenant(id, outcome)
      PROVE  Kept /\ OpensTenants
  BY <1>3, <1>4, <1>7 DEF LoadTenant
<1>8. ASSUME NEW id \in TenantIds, NEW outcome \in Outcomes, StartAll(id, outcome)
      PROVE  Kept /\ OpensTenants
  <2>1. tenants[id].obj # 0
    BY <1>8 DEF StartAll, Boot, Loaded, Objects, Owned
  <2>2. QED
    BY <1>3, <1>8, <2>1 DEF StartAll
<1>9. ASSUME NEW n \in DOMAIN adapters,
             Loop(n) \/ LoopHandles(n) \/ handlePBXEvent(n) \/ SendsOnClosed(n)
      PROVE  Kept /\ OpensTenants
  BY <1>9, LoopKeeps
<1>10. ASSUME NEW w \in Workers, NEW id \in TenantIds, StopTenant(w, id)
       PROVE  Kept /\ OpensTenants
  BY <1>5, <1>10 DEF StopTenant, MustStop, Gone, Changed
<1>11. ASSUME NEW w \in Workers, NEW id \in TenantIds, NEW outcome \in Outcomes,
              RestartTenant(w, id, outcome) \/ StartTenant(w, id, outcome)
       PROVE  Kept /\ OpensTenants
  BY <1>3, <1>4, <1>11, SMTT(30) DEF RestartTenant, StartTenant, Replace
<1>12. CASE adapters' = adapters
  BY <1>2, <1>12
<1>13. QED
  BY <1>6, <1>7, <1>8, <1>9, <1>10, <1>11, <1>12, ZenonT(40)
     DEF TenantNext, StopSteps, ReloadSteps, LoadFromDB, LoadFails, BeginStartAll, BeginStopAll,
         EndStopAll, StoppedInAll, ListTenants, ListFails, LockManager, StopsTwice, UnlockManager,
         RemoveTenant, UpdateTenant, updateTenantWrites, updateTenantReads, deleteTenant,
         importTenants, createTenant

\* An adapter of the router.
IsEndpoint(n) == adapters[n].obj = 0

\* There is one for a tenant at most, opened when the router is built. What was answered with
\* success is in its channel, or was dropped.
EndpointsInv ==
    /\ answered \in [TenantIds -> Nat]
    /\ dropped \in [TenantIds -> Nat]
    /\ phase \in {"systems", "connect", "load", "tenants", "start"} =>
           \A n \in DOMAIN adapters : ~ IsEndpoint(n)
    /\ phase = "routes" =>
           \A n \in DOMAIN adapters : IsEndpoint(n) => adapters[n].tenant \notin work[Main].todo
    /\ \A m, n \in DOMAIN adapters :
           IsEndpoint(m) /\ IsEndpoint(n) /\ adapters[m].tenant = adapters[n].tenant => m = n
    /\ \A n \in DOMAIN adapters : IsEndpoint(n) =>
           LET id == adapters[n].tenant IN
           /\ adapters[n].queue + dropped[id] = answered[id]
           /\ dropped[id] > 0 => adapters[n].queue = Capacity
    /\ \A id \in TenantIds : Registered(id) = {} => answered[id] = 0 /\ dropped[id] = 0

\* Steps of the other parts.
LEMMA EndpointsApart ==
    ASSUME EndpointsInv, ObjectTypes, Kept, OpensTenants, UNCHANGED <<answered, dropped>>,
           \/ phase' = phase /\ (phase = "routes" => work'[Main] = work[Main])
           \/ phase' = "routes" /\ phase = "start"
           \/ phase' \in {"connect", "load", "tenants", "start"}
              /\ phase \in {"systems", "connect", "load", "tenants"}
           \/ phase' \notin {"systems", "connect", "load", "tenants", "start", "routes"}
    PROVE  EndpointsInv'
<1>1. \A n \in DOMAIN adapters' : adapters'[n].obj = 0 =>
          /\ n \in DOMAIN adapters /\ adapters[n].obj = 0
          /\ adapters'[n].tenant = adapters[n].tenant /\ adapters'[n].queue = adapters[n].queue
  BY DEF Kept, OpensTenants
<1>2. \A id \in TenantIds : Registered(id)' = {} => Registered(id) = {}
  BY DEF Registered, Kept
<1>3. /\ phase' \in {"systems", "connect", "load", "tenants", "start"} =>
             \A n \in DOMAIN adapters' : adapters'[n].obj # 0
      /\ phase' = "routes" =>
             \A n \in DOMAIN adapters' :
                 adapters'[n].obj = 0 => adapters'[n].tenant \notin work'[Main].todo
  BY <1>1 DEF EndpointsInv, IsEndpoint
<1>4. \A m, n \in DOMAIN adapters' :
          adapters'[m].obj = 0 /\ adapters'[n].obj = 0 /\ adapters'[m].tenant = adapters'[n].tenant
          => m = n
  BY <1>1 DEF EndpointsInv, IsEndpoint
<1>5. \A n \in DOMAIN adapters' : adapters'[n].obj = 0 =>
          /\ adapters'[n].queue + dropped'[adapters'[n].tenant] = answered'[adapters'[n].tenant]
          /\ dropped'[adapters'[n].tenant] > 0 => adapters'[n].queue = Capacity
  BY <1>1 DEF EndpointsInv, IsEndpoint
<1>6. QED
  BY <1>2, <1>3, <1>4, <1>5 DEF EndpointsInv, IsEndpoint

\* The router opens one.
LEMMA EndpointOpens ==
    ASSUME EndpointsInv, ServerInv, NEW id \in TenantIds, RegisterTenant(id)
    PROVE  EndpointsInv'
<1> USE DEF ServerInv, TenantsInv, Process
<1>1. /\ phase = "routes" /\ phase' = "routes" /\ id \in work[Main].todo
      /\ UNCHANGED <<answered, dropped>>
      /\ work' = [work EXCEPT ![Main].todo = @ \ {id}]
      /\ adapters' = Append(adapters,
                            [Created(id, 0, rows[id].cfg, "ok") EXCEPT !.loop = "none"])
  BY DEF RegisterTenant
<1> PICK r : r = [Created(id, 0, rows[id].cfg, "ok") EXCEPT !.loop = "none"]
  OBVIOUS
<1>2. r.obj = 0 /\ r.tenant = id /\ r.queue = 0
  BY DEF Created
<1> PICK k : k = Len(adapters) + 1
  OBVIOUS
<1>3. /\ DOMAIN adapters' = DOMAIN adapters \cup {k} /\ k \notin DOMAIN adapters
      /\ adapters'[k] = r /\ \A n \in DOMAIN adapters : adapters'[n] = adapters[n]
  <2>1. adapters' = Append(adapters, r)
    BY <1>1
  <2>2. QED
    BY <2>1 DEF Objects, ObjectTypes
<1>4. work'[Main].todo = work[Main].todo \ {id}
  BY <1>1 DEF WorkTypes, TenantLists
<1>5. \A n \in DOMAIN adapters : adapters[n].obj = 0 => adapters[n].tenant # id
  BY <1>1 DEF EndpointsInv, IsEndpoint
<1>6. Registered(id) = {}
  BY <1>5 DEF Registered
<1>7. answered'[id] = 0 /\ dropped'[id] = 0
  BY <1>1, <1>6 DEF EndpointsInv
<1>8. \A n \in DOMAIN adapters' :
          adapters'[n].obj = 0 => adapters'[n].tenant \notin work'[Main].todo
  BY <1>1, <1>2, <1>3, <1>4 DEF EndpointsInv, IsEndpoint
<1>9. \A m, n \in DOMAIN adapters' :
          adapters'[m].obj = 0 /\ adapters'[n].obj = 0 /\ adapters'[m].tenant = adapters'[n].tenant
          => m = n
  <2>1. \A m \in DOMAIN adapters :
            adapters'[m].obj = 0 => adapters'[m].tenant # id /\ adapters[m].obj = 0
    BY <1>3, <1>5
  <2>2. adapters'[k].tenant = id
    BY <1>2, <1>3
  <2>3. \A m, n \in DOMAIN adapters :
            adapters'[m].obj = 0 /\ adapters'[n].obj = 0
            /\ adapters'[m].tenant = adapters'[n].tenant => m = n
    BY <1>3, <2>1 DEF EndpointsInv, IsEndpoint
  <2>4. QED
    BY <1>3, <2>1, <2>2, <2>3
<1>10. \A n \in DOMAIN adapters' : adapters'[n].obj = 0 =>
           /\ adapters'[n].queue + dropped'[adapters'[n].tenant] = answered'[adapters'[n].tenant]
           /\ dropped'[adapters'[n].tenant] > 0 => adapters'[n].queue = Capacity
  BY <1>1, <1>2, <1>3, <1>7 DEF EndpointsInv, IsEndpoint
<1>11. \A t \in TenantIds : Registered(t)' = {} => Registered(t) = {}
  BY <1>3 DEF Registered
<1>12. QED
  BY <1>1, <1>8, <1>9, <1>10, <1>11 DEF EndpointsInv, IsEndpoint

\* A request puts its event into one, or drops it.
LEMMA EndpointTakes ==
    ASSUME EndpointsInv, ServerInv, NEW w \in Workers, handleSet(w)
    PROVE  EndpointsInv'
<1> USE DEF ServerInv, TenantsInv, Process
<1>1. /\ work[w].at = "post" /\ phase' = phase /\ work' = [work EXCEPT ![w] = Idle]
      /\ answered' = [answered EXCEPT ![work[w].id] = @ + 1]
  BY DEF handleSet
<1> PICK id : id = work[w].id
  OBVIOUS
<1>2. id \in TenantIds
  BY <1>1, Shapes DEF WorkTypes, Posts
<1>3. PICK n \in DOMAIN adapters : Enqueued(n) /\ adapters[n].obj = 0 /\ adapters[n].tenant = id
  BY DEF handleSet, Registered
<1>4. work'[Main] = work[Main]
  BY <1>1 DEF WorkTypes
<1>5. adapters[n] \in LinkType /\ adapters \in Seq(LinkType)
  BY <1>3 DEF Objects, ObjectTypes
<1>6. /\ answered' \in [TenantIds -> Nat] /\ answered'[id] = answered[id] + 1
      /\ \A t \in TenantIds : t # id => answered'[t] = answered[t]
  BY <1>1, <1>2 DEF EndpointsInv
<1>7. /\ adapters[n].queue + dropped[id] = answered[id]
      /\ dropped[id] > 0 => adapters[n].queue = Capacity
      /\ adapters[n].queue \in 0..Capacity /\ dropped[id] \in Nat /\ answered[id] \in Nat
  BY <1>2, <1>3, <1>5 DEF EndpointsInv, IsEndpoint, LinkType
<1>8. \E q, d : /\ DOMAIN adapters' = DOMAIN adapters
                /\ \A m \in DOMAIN adapters :
                      /\ adapters'[m].obj = adapters[m].obj
                      /\ adapters'[m].tenant = adapters[m].tenant
                      /\ m # n => adapters'[m].queue = adapters[m].queue
                /\ adapters'[n].queue = q
                /\ dropped' \in [TenantIds -> Nat] /\ dropped'[id] = d
                /\ \A t \in TenantIds : t # id => dropped'[t] = dropped[t]
                /\ q + d = answered'[id] /\ (d > 0 => q = Capacity)
  <2>1. CASE adapters[n].queue < Capacity
    <3>1. adapters' = [adapters EXCEPT ![n] = [adapters[n] EXCEPT !.queue = adapters[n].queue + 1]]
          /\ dropped' = dropped
      BY <1>3, <2>1 DEF Enqueued
    <3>2. PICK e : e = [adapters[n] EXCEPT !.queue = adapters[n].queue + 1]
      OBVIOUS
    <3>3. e.obj = adapters[n].obj /\ e.tenant = adapters[n].tenant
          /\ e.queue = adapters[n].queue + 1
      BY <1>5, <3>2 DEF LinkType
    <3>4. DOMAIN adapters' = DOMAIN adapters
          /\ \A m \in DOMAIN adapters : adapters'[m] = IF m = n THEN e ELSE adapters[m]
      BY <3>1, <3>2
    <3>5. adapters[n].queue + 1 + dropped[id] = answered[id] + 1 /\ ~ (dropped[id] > 0)
      BY <1>7, <2>1
    <3>6. QED
      BY <1>3, <1>6, <3>1, <3>3, <3>4, <3>5 DEF EndpointsInv
  <2>2. CASE ~ (adapters[n].queue < Capacity)
    <3>1. adapters' = adapters /\ dropped' = [dropped EXCEPT ![id] = dropped[id] + 1]
      BY <1>3, <2>2 DEF Enqueued
    <3>2. dropped' \in [TenantIds -> Nat] /\ dropped'[id] = dropped[id] + 1
          /\ \A t \in TenantIds : t # id => dropped'[t] = dropped[t]
      BY <1>2, <1>7, <3>1 DEF EndpointsInv
    <3>3. adapters[n].queue + (dropped[id] + 1) = answered[id] + 1 /\ adapters[n].queue = Capacity
      BY <1>7, <2>2
    <3>4. QED
      BY <1>3, <1>6, <3>1, <3>2, <3>3
  <2>3. QED
    BY <2>1, <2>2
<1>9. \A m, k \in DOMAIN adapters' :
          adapters'[m].obj = 0 /\ adapters'[k].obj = 0 /\ adapters'[m].tenant = adapters'[k].tenant
          => m = k
  BY <1>8 DEF EndpointsInv, IsEndpoint
<1>10. \A m \in DOMAIN adapters : adapters[m].obj = 0 /\ m # n =>
           adapters[m].tenant # id /\ adapters[m].tenant \in TenantIds
  BY <1>3, AdaptersTyped DEF EndpointsInv, IsEndpoint, Objects
<1>11. \A m \in DOMAIN adapters' : adapters'[m].obj = 0 =>
           /\ adapters'[m].queue + dropped'[adapters'[m].tenant] = answered'[adapters'[m].tenant]
           /\ dropped'[adapters'[m].tenant] > 0 => adapters'[m].queue = Capacity
  BY <1>3, <1>6, <1>8, <1>10 DEF EndpointsInv, IsEndpoint
<1>12. \A t \in TenantIds : Registered(t)' = {} => Registered(t) = {} /\ t # id
  BY <1>3, <1>8 DEF Registered
<1>13. \A t \in TenantIds : Registered(t)' = {} => answered'[t] = 0 /\ dropped'[t] = 0
  BY <1>6, <1>8, <1>12 DEF EndpointsInv
<1>14. /\ phase' \in {"systems", "connect", "load", "tenants", "start"} =>
              \A m \in DOMAIN adapters' : adapters'[m].obj # 0
       /\ phase' = "routes" =>
              \A m \in DOMAIN adapters' :
                 adapters'[m].obj = 0 => adapters'[m].tenant \notin work'[Main].todo
  BY <1>1, <1>4, <1>8 DEF EndpointsInv, IsEndpoint
<1>15. QED
  BY <1>6, <1>8, <1>9, <1>11, <1>13, <1>14 DEF EndpointsInv, IsEndpoint

\* How far main gets, as the endpoints see it.
Proceeds ==
    \/ phase' = phase /\ (phase = "routes" => work'[Main] = work[Main])
    \/ phase' = "routes" /\ phase = "start"
    \/ phase' \in {"connect", "load", "tenants", "start"}
       /\ phase \in {"systems", "connect", "load", "tenants"}
    \/ phase' \notin {"systems", "connect", "load", "tenants", "start", "routes"}

\* A worker goes on.
LEMMA WorkersProceed ==
    ASSUME WorkTypes, NEW w \in Workers, NEW job, work' = [work EXCEPT ![w] = job], phase' = phase
    PROVE  Proceeds
BY DEF WorkTypes, Proceeds

\* So does a tenant step.
LEMMA TenantProceeds ==
    ASSUME Process, TenantNext
    PROVE  Proceeds
<1> USE DEF Process
<1>1. CASE LoadFromDB \/ LoadFails \/ BeginStartAll \/ BeginStopAll \/ StopSteps
  BY <1>1 DEF LoadFromDB, LoadFails, BeginStartAll, BeginStopAll, StopSteps, EndStopAll, StopAll,
              StoppedInAll, MainGoes, Proceeds
<1>2. ASSUME NEW id \in TenantIds, NEW outcome \in Outcomes,
             LoadTenant(id, outcome) \/ StartAll(id, outcome)
      PROVE  Proceeds
  BY <1>2 DEF LoadTenant, StartAll, Proceeds
<1>3. ASSUME NEW n \in DOMAIN adapters,
             Loop(n) \/ LoopHandles(n) \/ handlePBXEvent(n) \/ SendsOnClosed(n)
      PROVE  Proceeds
  BY <1>3 DEF Loop, LoopSelects, LoopEnds, LoopHandles, handlePBXEvent, SendsOnClosed, Proceeds
<1>4. ASSUME NEW w \in Workers,
             \/ ReloadSteps(w) \/ ListFails(w)
             \/ \E row \in Row : updateTenantWrites(w, row)
      PROVE  Proceeds
  <2>1. CASE work' = work /\ phase' = phase
    BY <2>1 DEF Proceeds
  <2>2. CASE \E job : work' = [work EXCEPT ![w] = job] /\ phase' = phase
    BY <2>2, WorkersProceed
  <2>3. QED
    BY <1>4, <2>1, <2>2
       DEF ReloadSteps, ListTenants, LockManager, StopsTwice, UnlockManager, StopTenant,
           RemoveTenant, UpdateTenant, RestartTenant, StartTenant, Replace, ListFails,
           updateTenantWrites
<1>5. ASSUME NEW w \in Workers, NEW id \in TenantIds,
             \/ updateTenantReads(w, id) \/ deleteTenant(w, id) \/ importTenants(w, id)
             \/ \E cfg \in Configs : createTenant(w, id, cfg)
      PROVE  Proceeds
  <2>1. PICK job : Request(w, job)
    BY <1>5 DEF updateTenantReads, deleteTenant, importTenants, createTenant
  <2>2. QED
    BY <2>1, WorkersProceed DEF Request
<1>6. QED
  BY <1>1, <1>2, <1>3, <1>4, <1>5 DEF TenantNext

\* And one of the PBX manager.
LEMMA PbxProceeds ==
    ASSUME Process, PbxNext
    PROVE  Proceeds
<1> USE DEF Process
<1>1. CASE \/ ProviderNext \/ \E n \in Providers : Reports(n)
           \/ LoadFromDBSystems \/ SystemsLoaded \/ CloseSystems
  BY <1>1 DEF ProviderNext, Dialled, Reconnected, SubscriptionLost, ReconnectChecks, EventArrives,
              EventSent, Reports, LoadFromDBSystems, SystemsLoaded, CloseSystems, Proceeds
<1>2. ASSUME NEW w \in Goroutines,
             Connect(w) \/ \E s \in Systems : GetBicomSystem(w, s) \/ TurnOf(w, s)
      PROVE  Proceeds
  <2>1. work[w].at = "connect" /\ phase' = phase /\ \E job : work' = [work EXCEPT ![w] = job]
    BY <1>2 DEF Connect, GetBicomSystem, TurnOf, Connecting
  <2>2. CASE w = Main
    BY <2>1, <2>2 DEF WorkTypes, TenantLists, Proceeds
  <2>3. CASE w # Main
    BY <2>1, <2>3, WorkersProceed
  <2>4. QED
    BY <2>2, <2>3
<1>3. ASSUME NEW w \in Workers, ConnectsDone(w) \/ FollowSystems(w)
      PROVE  Proceeds
  BY <1>3, WorkersProceed DEF ConnectsDone, FollowSystems
<1>4. ASSUME NEW w \in Workers,
             \/ ReloadSystems(w)
             \/ \E s \in Systems :
                   ReloadSystem(w, s) \/ \E state \in SystemRows : WriteSystem(w, s, state)
      PROVE  Proceeds
  <2>1. PICK job : Request(w, job)
    BY <1>4 DEF ReloadSystems, ReloadSystem, WriteSystem
  <2>2. QED
    BY <2>1, WorkersProceed DEF Request
<1>5. QED
  BY <1>1, <1>2, <1>3, <1>4 DEF PbxNext, ConnectsDone

\* Every step keeps the ledger of the endpoints.
LEMMA EndpointsStep == ServerInv /\ EndpointsInv /\ [Next]_vars => EndpointsInv'
<1> SUFFICES ASSUME ServerInv, EndpointsInv, [Next]_vars PROVE EndpointsInv'
  OBVIOUS
<1>1. Process /\ ObjectTypes
  BY DEF ServerInv, TenantsInv, Objects
<1>2. ASSUME adapters' = adapters PROVE Kept /\ OpensTenants
  BY <1>2 DEF Kept, OpensTenants
<1>3. CASE UNCHANGED vars
  BY <1>1, <1>2, <1>3, EndpointsApart DEF vars
<1>4. CASE TenantNext /\ UNCHANGED <<ilinkVars, pbxVars>>
  BY <1>1, <1>4, TenantProceeds, TenantKeeps, EndpointsApart DEF Proceeds
<1>5. CASE PbxNext /\ UNCHANGED <<tenantVars, ilinkVars>>
  BY <1>1, <1>2, <1>5, PbxProceeds, EndpointsApart DEF Proceeds
<1>6. CASE ILinkNext /\ UNCHANGED pbxVars
  <2>1. CASE BuildRouter \/ ListenAndServe
    <3>1. UNCHANGED <<adapters, answered, dropped>> /\ Proceeds
      BY <2>1 DEF BuildRouter, ListenAndServe, MainGoes, Proceeds
    <3>2. QED
      BY <1>1, <1>2, <3>1, EndpointsApart DEF Proceeds
  <2>2. ASSUME NEW id \in TenantIds, RegisterTenant(id) PROVE EndpointsInv'
    BY <2>2, EndpointOpens
  <2>3. ASSUME NEW w \in Workers, handleSet(w) PROVE EndpointsInv'
    BY <2>3, EndpointTakes
  <2>4. ASSUME NEW w \in Workers, NEW id \in TenantIds,
               createTenantToken(w, id) \/ revokeTenantToken(w, id) \/ resolveAndAuth(w, id)
        PROVE  EndpointsInv'
    <3>1. UNCHANGED <<adapters, answered, dropped>> /\ \E job : Request(w, job)
      BY <2>4 DEF createTenantToken, revokeTenantToken, resolveAndAuth
    <3>2. Proceeds
      BY <1>1, <3>1, WorkersProceed DEF Request, Process
    <3>3. QED
      BY <1>1, <1>2, <3>1, <3>2, EndpointsApart DEF Proceeds
  <2>5. QED
    BY <1>6, <2>1, <2>2, <2>3, <2>4 DEF ILinkNext
<1>7. QED
  BY <1>3, <1>4, <1>5, <1>6 DEF Next

\* It holds in every reachable state.
LEMMA EndpointsInductive == Spec => []EndpointsInv
<1>1. Init => EndpointsInv
  <2>1. Init => /\ answered = [id \in TenantIds |-> 0] /\ dropped = [id \in TenantIds |-> 0]
                /\ adapters = <<>> /\ phase = "systems"
    BY DEF Init, ILinkInit, TenantInit, ProcessInit
  <2>2. QED
    BY <2>1 DEF EndpointsInv
<1>2. QED
  BY <1>1, EndpointsStep, ServerInvInductive, PTL DEF Spec

\* A request that was answered with success has its event in the channel, unless this was full.
THEOREM AnsweredAreQueued == Spec => []AnsweredIsQueued
<1>1. ASSUME ObjectTypes, EndpointsInv, NEW id \in TenantIds, Registered(id) # {}
      PROVE  /\ Waiting(id) = answered[id] - dropped[id]
             /\ dropped[id] > 0 => Waiting(id) = Capacity
  <2>1. PICK n : n = CHOOSE m \in Registered(id) : TRUE
    OBVIOUS
  <2>2. n \in Registered(id)
    BY <1>1, <2>1
  <2>3. Waiting(id) = adapters[n].queue
    BY <2>1 DEF Waiting
  <2>4. n \in DOMAIN adapters /\ IsEndpoint(n) /\ adapters[n].tenant = id
    BY <2>2 DEF Registered, IsEndpoint
  <2>5. adapters[n].queue + dropped[id] = answered[id] /\ (dropped[id] > 0 => adapters[n].queue = Capacity)
    BY <1>1, <2>4 DEF EndpointsInv
  <2>6. adapters[n].queue \in Nat /\ answered[id] \in Nat /\ dropped[id] \in Nat
    BY <1>1, <2>4, AdaptersTyped DEF EndpointsInv, LinkType
  <2>7. QED
    BY <2>3, <2>5, <2>6
<1>2. ServerInv /\ EndpointsInv => AnsweredIsQueued
  BY <1>1 DEF ServerInv, TenantsInv, Objects, AnsweredIsQueued
<1>3. QED
  BY <1>2, ServerInvInductive, EndpointsInductive, PTL

----------------------------------------------------------------------------
(***************************************************************************)
(* What becomes of the link of a tenant.                                   *)
(***************************************************************************)

\* A tenant and its link stay as they are.
Same(id) ==
    /\ tenants'[id] = tenants[id]
    /\ tenants[id] # None => Link(id)'.state = Link(id).state /\ Link(id)'.cfg = Link(id).cfg

\* They do, when neither a tenant nor the state of a link changes.
LEMMA SameInPlace ==
    ASSUME Objects, Objects', tenants' = tenants, DOMAIN adapters' = DOMAIN adapters,
           \A n \in DOMAIN adapters : /\ adapters'[n].obj = adapters[n].obj
                                      /\ adapters'[n].cfg = adapters[n].cfg
                                      /\ adapters'[n].state = adapters[n].state
    PROVE  \A id \in TenantIds : Same(id)
<1>1. \A o : AdaptersOf(o)' = AdaptersOf(o)
  BY DEF AdaptersOf
<1>2. ASSUME NEW id \in TenantIds, tenants[id] # None
      PROVE  Link(id)'.state = Link(id).state /\ Link(id)'.cfg = Link(id).cfg
  <2>1. PICK n : n = Current(tenants[id].obj)
    OBVIOUS
  <2>2. n \in DOMAIN adapters /\ Link(id) = adapters[n]
    BY <1>2, <2>1, LinkExists
  <2>3. Link(id)' = adapters'[n]
    BY <1>1, <1>2, <2>1, LinkStays
  <2>4. QED
    BY <2>2, <2>3
<1>3. QED
  BY <1>2 DEF Same

\* When an adapter is opened, it is the link of the tenant that has its object, and the others
\* keep theirs.
LEMMA LinkOpens ==
    ASSUME Objects, Objects', NEW r, adapters' = Append(adapters, r), NEW id \in TenantIds
    PROVE  /\ tenants'[id] # None /\ tenants'[id].obj = r.obj => Link(id)' = r
           /\ tenants[id] # None /\ tenants'[id] = tenants[id] /\ tenants[id].obj # r.obj =>
                 Link(id)' = Link(id)
<1> PICK n : n = Len(adapters) + 1
  OBVIOUS
<1>1. adapters'[n] = r /\ \A m \in DOMAIN adapters : adapters'[m] = adapters[m]
  BY DEF Objects, ObjectTypes
<1>2. ASSUME tenants'[id] # None, tenants'[id].obj = r.obj
      PROVE  Link(id)' = r
  <2>1. IsLast(n, r.obj)'
    BY LastOpens DEF Objects
  <2>2. PICK o : o = r.obj
    OBVIOUS
  <2>3. IsLast(n, o)'
    BY <2>1, <2>2
  <2>4. Current(o)' = n
    BY <2>3, CurrentIsLastNext DEF Objects
  <2>5. QED
    BY <1>1, <1>2, <2>2, <2>4 DEF Link
<1>3. ASSUME tenants[id] # None, tenants'[id] = tenants[id], tenants[id].obj # r.obj
      PROVE  Link(id)' = Link(id)
  <2>1. PICK o : o = tenants[id].obj
    OBVIOUS
  <2>2. PICK m : m = Current(o)
    OBVIOUS
  <2>3. IsLast(m, o) /\ m \in DOMAIN adapters /\ Link(id) = adapters[m]
    BY <1>3, <2>1, <2>2, LinkExists
  <2>4. IsLast(m, o)'
    BY <1>3, <2>1, <2>3, LastOpens DEF Objects
  <2>5. Current(o)' = m
    BY <2>4, CurrentIsLastNext DEF Objects
  <2>6. QED
    BY <1>1, <1>3, <2>1, <2>3, <2>5 DEF Link
<1>4. QED
  BY <1>2, <1>3

\* An object that is new, or the router's, is no tenant's.
LEMMA NewIsNobodys ==
    ASSUME Objects, NEW id \in TenantIds, tenants[id] # None
    PROVE  tenants[id].obj # Len(adapters) + 1 /\ tenants[id].obj # 0
BY DEF Objects, ObjectTypes, Owned

\* Tenants have objects of their own.
LEMMA ObjectsDiffer ==
    ASSUME Objects, NEW id \in TenantIds, NEW t \in TenantIds, t # id,
           tenants[id] # None, tenants[t] # None
    PROVE  tenants[t].obj # tenants[id].obj /\ Current(tenants[t].obj) # Current(tenants[id].obj)
<1>1. tenants[t].obj # tenants[id].obj
  BY DEF Objects, Owned
<1>2. adapters[Current(tenants[t].obj)].tenant = t /\ adapters[Current(tenants[id].obj)].tenant = id
  BY LinkExists
<1>3. QED
  BY <1>1, <1>2

\* A stop closes the link of its tenant, and no other.
LEMMA StopCloses ==
    ASSUME ServerInv, ServerInv', NEW id \in TenantIds, tenants[id] # None, Stop(id),
           tenants' = tenants
    PROVE  /\ Link(id)'.state \in Shut /\ Link(id)'.cfg = Link(id).cfg
           /\ \A t \in TenantIds : t # id => Same(t)
           /\ \A n \in DOMAIN adapters :
                 n # Current(tenants[id].obj) => adapters'[n].state = adapters[n].state
<1> USE DEF ServerInv, TenantsInv
<1> PICK n : n = Current(tenants[id].obj)
  OBVIOUS
<1>1. n \in DOMAIN adapters /\ Link(id) = adapters[n]
  BY LinkExists
<1>2. adapters[n] \in LinkType
  BY <1>1, AdaptersTyped DEF Objects
<1> PICK state \in Shut : adapters' = StopEffects(n, state)
  BY DEF Stop, CloseOutcomes
<1> PICK e : e = [adapters[n] EXCEPT !.cancelled = TRUE, !.state = state]
  OBVIOUS
<1>3. e.obj = adapters[n].obj /\ e.cfg = adapters[n].cfg /\ e.state \in Shut
  BY <1>2 DEF LinkType
<1>4. adapters' = [adapters EXCEPT ![n] = e]
  BY <1>1, <1>2 DEF StopEffects, LinkType
<1>5. /\ DOMAIN adapters' = DOMAIN adapters
      /\ \A k \in DOMAIN adapters : adapters'[k] = IF k = n THEN e ELSE adapters[k]
  BY <1>4
<1>6. \A k \in DOMAIN adapters : /\ adapters'[k].obj = adapters[k].obj
                                 /\ adapters'[k].cfg = adapters[k].cfg
  BY <1>3, <1>5
<1>7. \A o : AdaptersOf(o)' = AdaptersOf(o)
  BY <1>5, <1>6 DEF AdaptersOf
<1>8. Link(id)' = adapters'[n]
  BY <1>7, LinkStays
<1>9. ASSUME NEW t \in TenantIds, t # id PROVE Same(t)
  <2>1. ASSUME tenants[t] # None PROVE Link(t)' = Link(t)
    <3>1. PICK m : m = Current(tenants[t].obj)
      OBVIOUS
    <3>2. m \in DOMAIN adapters /\ Link(t) = adapters[m] /\ m # n
      BY <1>9, <2>1, <3>1, LinkExists, ObjectsDiffer
    <3>3. Link(t)' = adapters'[m]
      BY <1>7, <2>1, <3>1, LinkStays
    <3>4. QED
      BY <1>5, <3>2, <3>3
  <2>2. QED
    BY <2>1 DEF Same
<1>10. QED
  BY <1>1, <1>3, <1>5, <1>8, <1>9

\* A tenant with a link that was just opened, for these settings.
Opened(id, cfg) ==
    /\ tenants'[id] # None /\ tenants'[id].cfg = cfg
    /\ Link(id)'.state = "open" /\ Link(id)'.cfg = cfg

SameBut(id) == \A t \in TenantIds : t # id => Same(t)

\* Neither tenants nor adapters change.
LEMMA SameAtRest ==
    ASSUME ServerInv, ServerInv', UNCHANGED <<tenants, adapters>>
    PROVE  \A id \in TenantIds : Same(id)
BY SameInPlace DEF ServerInv, TenantsInv

\* The loops of the tenants, and what the router does with its endpoints.
LEMMA SameOutside ==
    ASSUME ServerInv, ServerInv',
           \/ \E n \in DOMAIN adapters :
                 Loop(n) \/ LoopHandles(n) \/ handlePBXEvent(n) \/ SendsOnClosed(n)
           \/ \E id \in TenantIds : RegisterTenant(id)
           \/ \E w \in Workers : handleSet(w)
    PROVE  \A id \in TenantIds : Same(id)
<1> USE DEF ServerInv, TenantsInv
<1>1. ASSUME NEW n \in DOMAIN adapters,
             Loop(n) \/ LoopHandles(n) \/ handlePBXEvent(n) \/ SendsOnClosed(n)
      PROVE  \A id \in TenantIds : Same(id)
  <2>1. tenants' = tenants
    BY <1>1 DEF Loop, LoopSelects, LoopEnds, LoopHandles, handlePBXEvent, SendsOnClosed
  <2>2. QED
    BY <1>1, <2>1, LoopKeeps, SameInPlace DEF Kept, StatesKept
<1>2. ASSUME NEW i \in TenantIds, RegisterTenant(i), NEW id \in TenantIds
      PROVE  Same(id)
  <2>1. PICK r : r = [Created(i, 0, rows[i].cfg, "ok") EXCEPT !.loop = "none"]
    OBVIOUS
  <2>2. r.obj = 0
    BY <2>1 DEF Created
  <2>3. adapters' = Append(adapters, r) /\ tenants' = tenants
    BY <1>2, <2>1 DEF RegisterTenant
  <2>4. tenants[id] # None => Link(id)' = Link(id)
    BY <2>2, <2>3, LinkOpens, NewIsNobodys
  <2>5. QED
    BY <2>3, <2>4 DEF Same
<1>3. ASSUME NEW w \in Workers, handleSet(w)
      PROVE  \A id \in TenantIds : Same(id)
  <2>1. PICK n \in Registered(work[w].id) : Enqueued(n)
    BY <1>3 DEF handleSet
  <2>2. n \in DOMAIN adapters /\ tenants' = tenants
    BY <1>3, <2>1 DEF Registered, handleSet
  <2>3. CASE adapters' = adapters
    BY <2>2, <2>3, SameAtRest
  <2>4. CASE adapters' # adapters
    <3>1. PICK e : e = [adapters[n] EXCEPT !.queue = @ + 1]
      OBVIOUS
    <3>2. adapters[n] \in LinkType /\ adapters \in Seq(LinkType)
      BY <2>2 DEF Objects, ObjectTypes
    <3>3. adapters' = [adapters EXCEPT ![n] = e]
      BY <2>1, <2>4, <3>1 DEF Enqueued
    <3>4. e.obj = adapters[n].obj /\ e.cfg = adapters[n].cfg /\ e.state = adapters[n].state
      BY <3>1, <3>2 DEF LinkType
    <3>5. /\ DOMAIN adapters' = DOMAIN adapters
          /\ \A k \in DOMAIN adapters : adapters'[k] = IF k = n THEN e ELSE adapters[k]
      BY <3>3
    <3>6. \A k \in DOMAIN adapters : /\ adapters'[k].obj = adapters[k].obj
                                     /\ adapters'[k].cfg = adapters[k].cfg
                                     /\ adapters'[k].state = adapters[k].state
      BY <3>4, <3>5
    <3>7. QED
      BY <2>2, <3>5, <3>6, SameInPlace
  <2>5. QED
    BY <2>3, <2>4
<1>4. QED
  BY <1>1, <1>2, <1>3

\* A tenant gets an object that is new, or is not in the map.
LEMMA NewObjectLinks ==
    ASSUME ServerInv, ServerInv', NEW id \in TenantIds, NEW cfg \in Configs,
           NEW outcome \in Outcomes, Start(id, NewObject, cfg, outcome),
           \A t \in TenantIds : t # id => tenants'[t] = tenants[t],
           outcome = "ok" => tenants'[id] = [cfg |-> cfg, obj |-> NewObject]
    PROVE  /\ SameBut(id)
           /\ outcome = "ok" => Opened(id, cfg)
           /\ tenants'[id] = tenants[id] => Same(id)
<1> USE DEF ServerInv, TenantsInv
<1>1. NewObject \in Nat /\ NewObject = Len(adapters) + 1
  BY DEF NewObject, Objects, ObjectTypes
<1>2. PICK r : r = Created(id, NewObject, cfg, outcome)
  OBVIOUS
<1>3. /\ r \in LinkType /\ r.tenant = id /\ r.obj = NewObject /\ r.cfg = cfg
      /\ r.state = IF outcome = "pms" THEN "failed" ELSE "open"
  BY <1>1, <1>2, WhatIsCreated
<1>4. adapters' = Append(adapters, r)
  BY <1>2 DEF Start
<1>5. ASSUME NEW t \in TenantIds, tenants'[t] = tenants[t]
      PROVE  Same(t)
  <2>1. tenants[t] # None => tenants[t].obj # r.obj
    BY <1>1, <1>3, NewIsNobodys
  <2>2. tenants[t] # None => Link(t)' = Link(t)
    BY <1>4, <1>5, <2>1, LinkOpens
  <2>3. QED
    BY <1>5, <2>2 DEF Same
<1>6. ASSUME outcome = "ok"
      PROVE  Opened(id, cfg)
  <2>1. tenants'[id] = [cfg |-> cfg, obj |-> NewObject]
    BY <1>6
  <2>2. tenants'[id].cfg = cfg /\ tenants'[id].obj = NewObject
    BY <2>1
  <2>3. tenants'[id] # None
    BY <1>1, <2>1
  <2>4. Link(id)' = r
    BY <1>3, <1>4, <2>2, <2>3, LinkOpens
  <2>5. QED
    BY <1>3, <1>6, <2>2, <2>3, <2>4 DEF Opened
<1>7. QED
  BY <1>5, <1>6 DEF SameBut

\* LoadFromDB starts a tenant, or leaves it out.
LEMMA LoadLinks ==
    ASSUME ServerInv, ServerInv', NEW id \in TenantIds, NEW outcome \in Outcomes,
           LoadTenant(id, outcome)
    PROVE  /\ SameBut(id) /\ Wanted(rows, id)
           /\ outcome = "ok" => Opened(id, rows[id].cfg)
           /\ outcome # "ok" => tenants'[id] = None
<1>1. Wanted(rows, id) /\ rows \in [TenantIds -> Row \cup {None}]
  BY DEF LoadTenant, MainHas, ServerInv, TenantsInv, Boot, Process, ProcessTypes
<1>2. PICK cfg : cfg = rows[id].cfg
  OBVIOUS
<1>3. cfg \in Configs
  <2>1. rows[id] \in Row
    BY <1>1 DEF Wanted
  <2>2. QED
    BY <1>2, <2>1 DEF Row
<1>4. /\ Start(id, NewObject, cfg, outcome)
      /\ tenants' = [tenants EXCEPT ![id] =
            IF outcome = "ok" THEN [cfg |-> cfg, obj |-> NewObject] ELSE None]
  BY <1>2 DEF LoadTenant
<1>5. tenants \in [TenantIds -> Object \cup {None}]
  BY DEF ServerInv, TenantsInv, Objects, ObjectTypes
<1>6. /\ \A t \in TenantIds : t # id => tenants'[t] = tenants[t]
      /\ outcome = "ok" => tenants'[id] = [cfg |-> cfg, obj |-> NewObject]
      /\ outcome # "ok" => tenants'[id] = None
  BY <1>4, <1>5
<1>7. QED
  BY <1>1, <1>2, <1>3, <1>4, <1>6, NewObjectLinks

\* StartAll gives the same object another link.
LEMMA StartAllLinks ==
    ASSUME ServerInv, ServerInv', NEW id \in TenantIds, NEW outcome \in Outcomes,
           StartAll(id, outcome)
    PROVE  /\ SameBut(id) /\ tenants' = tenants /\ tenants[id] # None
           /\ Link(id)'.cfg = tenants[id].cfg
<1> USE DEF ServerInv, TenantsInv
<1>1. tenants[id] # None /\ tenants[id] \in Object
  BY DEF StartAll, MainHas, Boot, Loaded, Objects, ObjectTypes
<1>2. PICK cfg, obj : cfg = tenants[id].cfg /\ obj = tenants[id].obj
  OBVIOUS
<1>3. cfg \in Configs /\ obj \in Nat
  BY <1>1, <1>2 DEF Object
<1>4. PICK r : r = Created(id, obj, cfg, outcome)
  OBVIOUS
<1>5. r \in LinkType /\ r.obj = obj /\ r.cfg = cfg
  BY <1>3, <1>4, WhatIsCreated
<1>6. adapters' = Append(adapters, r) /\ tenants' = tenants
  BY <1>2, <1>4 DEF StartAll, Start
<1>7. Link(id)' = r
  BY <1>1, <1>2, <1>5, <1>6, LinkOpens
<1>8. ASSUME NEW t \in TenantIds, t # id
      PROVE  Same(t)
  <2>1. tenants[t] # None => tenants[t].obj # r.obj
    BY <1>1, <1>2, <1>5, <1>8, ObjectsDiffer
  <2>2. tenants[t] # None => Link(t)' = Link(t)
    BY <1>6, <2>1, LinkOpens
  <2>3. QED
    BY <1>6, <2>2 DEF Same
<1>9. QED
  BY <1>1, <1>2, <1>5, <1>6, <1>7, <1>8 DEF SameBut

\* A reload puts a new object in the place of none, or of one that was stopped.
LEMMA ReplaceLinks ==
    ASSUME ServerInv, ServerInv', NEW w \in Workers, NEW id \in TenantIds,
           NEW outcome \in Outcomes, RestartTenant(w, id, outcome) \/ StartTenant(w, id, outcome)
    PROVE  /\ SameBut(id) /\ Wanted(work[w].snap, id)
           /\ work[w].at = "follow" /\ mgr.holder = w /\ id \in mgr.todo
           /\ outcome = "ok" => Opened(id, work[w].snap[id].cfg)
           /\ outcome # "ok" => tenants' = tenants /\ Same(id)
<1> USE DEF ServerInv, TenantsInv, Process
<1>1. /\ work[w].at = "follow" /\ mgr.holder = w /\ id \in mgr.todo
      /\ Replace(w, id, outcome)
  BY DEF RestartTenant, StartTenant, Stopped, At, LockInv, Held
<1>2. Wanted(work[w].snap, id)
  BY <1>1 DEF RestartTenant, StartTenant, Changed, Waits
<1>3. PICK cfg : cfg = work[w].snap[id].cfg
  OBVIOUS
<1>4. cfg \in Configs
  <2>1. work[w] \in Reloads
    BY <1>1, Shapes DEF WorkTypes
  <2>2. work[w].snap[id] \in Row
    BY <1>2, <2>1 DEF Wanted, Reloads
  <2>3. QED
    BY <1>3, <2>2 DEF Row
<1>5. /\ Start(id, NewObject, cfg, outcome)
      /\ tenants' = IF outcome = "ok"
                    THEN [tenants EXCEPT ![id] = [cfg |-> cfg, obj |-> NewObject]]
                    ELSE tenants
  BY <1>1, <1>3 DEF Replace
<1>6. /\ \A t \in TenantIds : t # id => tenants'[t] = tenants[t]
      /\ outcome = "ok" => tenants'[id] = [cfg |-> cfg, obj |-> NewObject]
      /\ outcome # "ok" => tenants' = tenants
  BY <1>5 DEF Objects, ObjectTypes
<1>7. QED
  BY <1>1, <1>2, <1>3, <1>4, <1>5, <1>6, NewObjectLinks

\* It takes away what is gone,
LEMMA RemoveLinks ==
    ASSUME ServerInv, ServerInv', NEW w \in Workers, NEW id \in TenantIds, RemoveTenant(w, id)
    PROVE  SameBut(id) /\ tenants'[id] = None
<1>1. /\ adapters' = adapters /\ tenants'[id] = None
      /\ \A t \in TenantIds : t # id => tenants'[t] = tenants[t]
  BY DEF RemoveTenant, ServerInv, TenantsInv, Objects, ObjectTypes
<1>2. \A t \in TenantIds : t # id /\ tenants[t] # None => Link(t)' = Link(t)
  BY <1>1, LinksSame DEF ServerInv, TenantsInv
<1>3. QED
  BY <1>1, <1>2 DEF SameBut, Same

\* and gives to the others the settings of their rows, whose connection they have.
LEMMA UpdateLinks ==
    ASSUME ServerInv, ServerInv', NEW w \in Workers, NEW id \in TenantIds, UpdateTenant(w, id)
    PROVE  /\ SameBut(id) /\ Wanted(work[w].snap, id)
           /\ work[w].at = "follow" /\ mgr.holder = w /\ id \in mgr.todo /\ mgr.stopping = None
           /\ tenants[id] # None /\ tenants'[id] # None
           /\ tenants'[id].cfg = work[w].snap[id].cfg
           /\ PmsOf[tenants'[id].cfg] = PmsOf[tenants[id].cfg]
           /\ Link(id)' = Link(id)
<1> USE DEF ServerInv, TenantsInv
<1>1. /\ work[w].at = "follow" /\ mgr.holder = w /\ mgr.stopping = None /\ id \in mgr.todo
      /\ tenants[id] # None /\ ~ Gone(w, id) /\ ~ Changed(w, id) /\ adapters' = adapters
  BY DEF UpdateTenant, At, GoneFirst
<1>2. PICK cfg : cfg = work[w].snap[id].cfg
  OBVIOUS
<1>3. Wanted(work[w].snap, id) /\ PmsOf[tenants[id].cfg] = PmsOf[cfg]
  BY <1>1, <1>2 DEF Gone, Changed
<1>4. tenants[id] \in Object
  BY <1>1 DEF Objects, ObjectTypes
<1>5. PICK e : e = [tenants[id] EXCEPT !.cfg = cfg]
  OBVIOUS
<1>6. e.cfg = cfg /\ e.obj = tenants[id].obj
  BY <1>4, <1>5 DEF Object
<1>7. tenants' = [tenants EXCEPT ![id] = e]
  BY <1>2, <1>5 DEF UpdateTenant
<1>8. \A t \in TenantIds : tenants'[t] = IF t = id THEN e ELSE tenants[t]
  BY <1>7 DEF Objects, ObjectTypes
<1>9. e # None
  <2>1. cfg \in Configs
    <3>1. work[w] \in Reloads
      BY <1>1, Shapes DEF Process, WorkTypes
    <3>2. work[w].snap[id] \in Row
      BY <1>3, <3>1 DEF Wanted, Reloads
    <3>3. QED
      BY <1>2, <3>2 DEF Row
  <2>2. QED
    BY <1>4, <1>5, <2>1 DEF Object
<1>10. \A t \in TenantIds : tenants[t] # None => Link(t)' = Link(t)
  BY <1>1, <1>6, <1>8, LinksSame
<1>11. SameBut(id)
  BY <1>8, <1>10 DEF SameBut, Same
<1>12. QED
  BY <1>1, <1>2, <1>3, <1>6, <1>8, <1>9, <1>10, <1>11

----------------------------------------------------------------------------
(***************************************************************************)
(* What ends the process, or leaves a stopped tenant in the map, has a     *)
(* cause, and a cause stays.                                               *)
(***************************************************************************)

Cause ==
    \/ failures > 0
    \/ MayLackPort
    \/ \E n \in Providers : providers[n].overtaken

\* One provider changes and is as overtaken as it was.
LEMMA OneStaysOvertaken ==
    ASSUME PbxInv, NEW m \in Providers, NEW p, providers' = [providers EXCEPT ![m] = p],
           p.overtaken = providers[m].overtaken
    PROVE  /\ Providers' = Providers
           /\ \A n \in Providers : providers'[n].overtaken = providers[n].overtaken
<1>1. DOMAIN providers = Providers /\ providers \in Seq(ProviderType)
  BY DEF PbxInv, Providers
<1>2. Len(providers') = Len(providers)
  BY <1>1
<1>3. \A n \in Providers : providers'[n] = IF n = m THEN p ELSE providers[n]
  BY <1>1
<1>4. QED
  BY <1>2, <1>3 DEF Providers

\* What Close overtook at one provider stays so.
LEMMA OvertakenStays ==
    ASSUME PbxInv, PbxNext, NEW n \in Providers, providers[n].overtaken
    PROVE  n \in Providers' /\ providers'[n].overtaken
<1>1. DOMAIN providers = Providers /\ \A m \in Providers : providers[m] \in ProviderType
  BY DEF PbxInv, Providers
<1>2. ASSUME providers' = providers PROVE n \in Providers' /\ providers'[n].overtaken
  BY <1>2 DEF Providers
<1>3. ASSUME NEW m \in Providers,
             \/ \E ok \in BOOLEAN : Dialled(m, ok) \/ Reconnected(m, ok)
             \/ SubscriptionLost(m) \/ ReconnectChecks(m) \/ EventArrives(m) \/ EventSent(m)
             \/ Reports(m)
      PROVE  n \in Providers' /\ providers'[n].overtaken
  <2>1. PICK q \in ProviderType : q = providers[m]
    BY <1>1
  <2>2. \E p : providers' = [providers EXCEPT ![m] = p] /\ p.overtaken = q.overtaken
    <3>1. ASSUME NEW ok \in BOOLEAN, Dialled(m, ok) \/ Reconnected(m, ok)
          PROVE  \E p : providers' = [providers EXCEPT ![m] = p] /\ p.overtaken = q.overtaken
      <4>1. /\ [Connected(q) EXCEPT !.dial = "up"].overtaken = q.overtaken
            /\ [q EXCEPT !.dial = "down"].overtaken = q.overtaken
            /\ [Connected(q) EXCEPT !.retry = "none", !.tries = 0].overtaken = q.overtaken
            /\ [q EXCEPT !.retry = "check"].overtaken = q.overtaken
        BY DEF Connected, ProviderType
      <4>2. \E p \in {[Connected(q) EXCEPT !.dial = "up"], [q EXCEPT !.dial = "down"],
                      [Connected(q) EXCEPT !.retry = "none", !.tries = 0],
                      [q EXCEPT !.retry = "check"]} :
                providers' = [providers EXCEPT ![m] = p]
        BY <2>1, <3>1 DEF Dialled, Reconnected, Provider
      <4>3. QED
        BY <4>1, <4>2
    <3>2. CASE SubscriptionLost(m) \/ EventArrives(m) \/ EventSent(m)
      <4>1. /\ [q EXCEPT !.subscribed = FALSE, !.retry = "check", !.lost = TRUE].overtaken = q.overtaken
            /\ [q EXCEPT !.handling = TRUE].overtaken = q.overtaken
            /\ [q EXCEPT !.handling = FALSE].overtaken = q.overtaken
        BY DEF ProviderType
      <4>2. \E p \in {[q EXCEPT !.subscribed = FALSE, !.retry = "check", !.lost = TRUE],
                      [q EXCEPT !.handling = TRUE], [q EXCEPT !.handling = FALSE]} :
                providers' = [providers EXCEPT ![m] = p]
        BY <2>1, <3>2 DEF SubscriptionLost, EventArrives, EventSent, Provider
      <4>3. QED
        BY <4>1, <4>2
    <3>3. CASE ReconnectChecks(m)
      <4>1. /\ [q EXCEPT !.retry = "dialling", !.tries = @ + 1].overtaken = q.overtaken
            /\ [q EXCEPT !.retry = "none", !.tries = 0].overtaken = q.overtaken
        BY DEF ProviderType
      <4>2. \E p \in {[q EXCEPT !.retry = "dialling", !.tries = @ + 1],
                      [q EXCEPT !.retry = "none", !.tries = 0]} :
                providers' = [providers EXCEPT ![m] = p]
        BY <2>1, <3>3 DEF ReconnectChecks, Provider
      <4>3. QED
        BY <4>1, <4>2
    <3>4. CASE Reports(m)
      <4>1. PICK d : providers' = [providers EXCEPT ![m] = [q EXCEPT !.dial = d]]
        BY <2>1, <3>4 DEF Reports
      <4>2. [q EXCEPT !.dial = d].overtaken = q.overtaken
        BY DEF ProviderType
      <4>3. QED
        BY <4>1, <4>2
    <3>5. QED
      BY <1>3, <3>1, <3>2, <3>3, <3>4
  <2>3. QED
    BY <2>1, <2>2, OneStaysOvertaken
<1>4. ASSUME NEW ids \in SUBSET Systems, Closing(ids)
      PROVE  n \in Providers' /\ providers'[n].overtaken
  <2>1. providers[n].closed
    BY DEF PbxInv, ClosedAreSilent
  <2>2. \A s \in ids : systems[s] # None => systems[s].provider # n
    BY <2>1 DEF PbxInv, EntriesAreOpen
  <2>3. providers'[n] = providers[n] /\ DOMAIN providers' = Providers
    BY <1>4, <2>2 DEF Closing
  <2>4. Providers' = Providers
    <3>1. Len(providers) \in Nat /\ Providers = 1..Len(providers)
      BY DEF PbxInv, Providers
    <3>2. providers' \in [1..Len(providers) -> {providers'[m] : m \in Providers}]
      BY <1>4, <3>1 DEF Closing
    <3>3. Len(providers') = Len(providers)
      BY <3>1, <3>2, NumberedIsSeq
    <3>4. QED
      BY <3>3 DEF Providers
  <2>5. QED
    BY <2>3, <2>4
<1>5. ASSUME NEW s, providers' = Append(providers, NewProvider(s))
      PROVE  n \in Providers' /\ providers'[n].overtaken
  <2>1. /\ Len(providers) \in Nat /\ Len(providers') = Len(providers) + 1
        /\ \A m \in Providers : providers'[m] = providers[m]
    <3>1. providers \in Seq(ProviderType)
      BY DEF PbxInv
    <3>2. QED
      BY <1>5, <3>1 DEF Providers
  <2>2. QED
    BY <2>1 DEF Providers
<1>6. CASE ProviderNext \/ \E m \in Providers : Reports(m)
  BY <1>3, <1>6 DEF ProviderNext
<1>7. CASE LoadFromDBSystems \/ SystemsLoaded
  BY <1>2, <1>7 DEF LoadFromDBSystems, SystemsLoaded
<1>8. CASE CloseSystems
  BY <1>4, <1>8 DEF CloseSystems
<1>9. ASSUME NEW w \in Goroutines,
             \/ Connect(w) \/ ConnectsDone(w)
             \/ \E s \in Systems : GetBicomSystem(w, s) \/ TurnOf(w, s)
      PROVE  n \in Providers' /\ providers'[n].overtaken
  BY <1>2, <1>5, <1>9 DEF Connect, ConnectsDone, GetBicomSystem, TurnOf
<1>10. ASSUME NEW w \in Workers,
              \/ ReloadSystems(w) \/ FollowSystems(w)
              \/ \E s \in Systems :
                    ReloadSystem(w, s) \/ \E state \in SystemRows : WriteSystem(w, s, state)
       PROVE  n \in Providers' /\ providers'[n].overtaken
  <2>1. CASE ReloadSystems(w) \/ \E s \in Systems : \E state \in SystemRows : WriteSystem(w, s, state)
    BY <1>2, <2>1 DEF ReloadSystems, WriteSystem
  <2>2. CASE FollowSystems(w)
    BY <1>4, <2>2 DEF FollowSystems
  <2>3. ASSUME NEW s \in Systems, ReloadSystem(w, s) PROVE n \in Providers' /\ providers'[n].overtaken
    BY <1>4, <2>3 DEF ReloadSystem
  <2>4. QED
    BY <1>10, <2>1, <2>2, <2>3
<1>11. QED
  BY <1>6, <1>7, <1>8, <1>9, <1>10 DEF PbxNext

\* Failures are counted, one at a time.
LEMMA FailuresGrow ==
    ASSUME [Next]_vars
    PROVE  failures' \in {failures, failures + 1}
<1>1. \A broken : Fails(broken) => failures' \in {failures, failures + 1}
  BY DEF Fails
<1>2. ASSUME NEW w, NEW job, Request(w, job)
      PROVE  failures' = failures
  BY <1>2 DEF Request
<1>3. CASE TenantNext
  <2>1. CASE LoadFromDB \/ LoadFails \/ BeginStartAll \/ BeginStopAll \/ StopSteps
    BY <1>1, <2>1 DEF LoadFromDB, LoadFails, BeginStartAll, BeginStopAll, StopSteps, EndStopAll,
                      StopAll, StoppedInAll, MainGoes
  <2>2. ASSUME NEW id \in TenantIds, NEW outcome \in Outcomes,
               LoadTenant(id, outcome) \/ StartAll(id, outcome)
        PROVE  failures' \in {failures, failures + 1}
    BY <1>1, <2>2 DEF LoadTenant, StartAll, Start
  <2>3. ASSUME NEW n \in DOMAIN adapters,
               Loop(n) \/ LoopHandles(n) \/ handlePBXEvent(n) \/ SendsOnClosed(n)
        PROVE  failures' = failures
    BY <2>3 DEF Loop, LoopSelects, LoopEnds, LoopHandles, handlePBXEvent, SendsOnClosed
  <2>4. ASSUME NEW w \in Workers,
               \/ ListTenants(w) \/ LockManager(w) \/ StopsTwice(w) \/ UnlockManager(w)
               \/ \E row \in Row : updateTenantWrites(w, row)
        PROVE  failures' = failures
    BY <2>4 DEF ListTenants, LockManager, StopsTwice, UnlockManager, updateTenantWrites
  <2>5. ASSUME NEW w \in Workers, NEW id \in TenantIds,
               StopTenant(w, id) \/ RemoveTenant(w, id) \/ UpdateTenant(w, id)
        PROVE  failures' = failures
    BY <2>5 DEF StopTenant, RemoveTenant, UpdateTenant
  <2>6. ASSUME NEW w \in Workers, NEW id \in TenantIds, NEW outcome \in Outcomes,
               RestartTenant(w, id, outcome) \/ StartTenant(w, id, outcome)
        PROVE  failures' \in {failures, failures + 1}
    BY <1>1, <2>6 DEF RestartTenant, StartTenant, Replace, Start
  <2>7. ASSUME NEW w \in Workers, ListFails(w)
        PROVE  failures' \in {failures, failures + 1}
    BY <1>1, <2>7 DEF ListFails
  <2>8. ASSUME NEW w \in Workers, NEW id \in TenantIds,
               \/ updateTenantReads(w, id) \/ deleteTenant(w, id) \/ importTenants(w, id)
               \/ \E cfg \in Configs : createTenant(w, id, cfg)
        PROVE  failures' = failures
    BY <1>2, <2>8 DEF updateTenantReads, deleteTenant, importTenants, createTenant
  <2>9. QED
    BY <1>3, <2>1, <2>2, <2>3, <2>4, <2>5, <2>6, <2>7, <2>8 DEF TenantNext, ReloadSteps
<1>4. CASE ILinkNext
  <2>1. ASSUME NEW w \in Workers, NEW id \in TenantIds,
               createTenantToken(w, id) \/ revokeTenantToken(w, id) \/ resolveAndAuth(w, id)
        PROVE  failures' = failures
    BY <1>2, <2>1 DEF createTenantToken, revokeTenantToken, resolveAndAuth
  <2>2. QED
    BY <1>4, <2>1 DEF ILinkNext, BuildRouter, ListenAndServe, RegisterTenant, handleSet, MainGoes
<1>5. CASE PbxNext
  <2>1. CASE ProviderNext
    BY <1>1, <2>1 DEF ProviderNext, Dialled, Reconnected, SubscriptionLost, ReconnectChecks,
                      EventArrives, EventSent
  <2>2. CASE \/ \E n \in Providers : Reports(n)
             \/ LoadFromDBSystems \/ SystemsLoaded \/ CloseSystems
    BY <1>1, <2>2 DEF Reports, LoadFromDBSystems, SystemsLoaded, CloseSystems
  <2>3. ASSUME NEW w \in Goroutines,
               \/ Connect(w) \/ ConnectsDone(w)
               \/ \E s \in Systems : GetBicomSystem(w, s) \/ TurnOf(w, s)
        PROVE  failures' \in {failures, failures + 1}
    BY <1>1, <2>3 DEF Connect, ConnectsDone, GetBicomSystem, TurnOf
  <2>4. ASSUME NEW w \in Workers,
               \/ ReloadSystems(w) \/ FollowSystems(w)
               \/ \E s \in Systems :
                     ReloadSystem(w, s) \/ \E state \in SystemRows : WriteSystem(w, s, state)
        PROVE  failures' = failures
    BY <1>2, <2>4 DEF ReloadSystems, FollowSystems, ReloadSystem, WriteSystem
  <2>5. QED
    BY <1>5, <2>1, <2>2, <2>3, <2>4 DEF PbxNext
<1>6. QED
  BY <1>3, <1>4, <1>5 DEF Next, vars

\* A start that fails is one of them, or a listening adapter lacked its port.
LEMMA FailingHasCause ==
    ASSUME ServerInv, NEW id, NEW obj, NEW cfg, NEW outcome \in Outcomes, outcome # "ok",
           Start(id, obj, cfg, outcome)
    PROVE  Cause'
<1> USE DEF ServerInv, TenantsInv, Process
<1>1. CASE StartOutcomes(cfg) # {"pms"}
  <2>1. failures' = failures + 1 /\ failures \in Nat
    BY <1>1 DEF Start, Fails, ProcessTypes
  <2>2. QED
    BY <2>1 DEF Cause
<1>2. CASE StartOutcomes(cfg) = {"pms"}
  <2>1. "ok" \notin StartOutcomes(cfg)
    BY <1>2
  <2>2. PICK n \in DOMAIN adapters : adapters[n].cfg \in ListenConfigs
    BY <2>1 DEF StartOutcomes, Listens
  <2>3. PICK r : adapters' = Append(adapters, r)
    BY DEF Start
  <2>4. Kept
    BY <2>3, OpensOne DEF Objects
  <2>5. n \in DOMAIN adapters' /\ adapters'[n].cfg \in ListenConfigs
    BY <2>2, <2>4 DEF Kept
  <2>6. QED
    BY <2>5 DEF Cause, MayLackPort
<1>3. QED
  BY <1>1, <1>2

\* The settings of an adapter are those it was created with.
LEMMA PortStays ==
    ASSUME ServerInv, [Next]_vars, MayLackPort
    PROVE  MayLackPort'
<1> USE DEF ServerInv, TenantsInv
<1>1. ASSUME DOMAIN adapters \subseteq DOMAIN adapters',
             \A n \in DOMAIN adapters : adapters'[n].cfg = adapters[n].cfg
      PROVE  MayLackPort'
  BY <1>1 DEF MayLackPort
<1>2. CASE TenantNext
  BY <1>1, <1>2, TenantKeeps DEF Kept
<1>3. ASSUME NEW id \in TenantIds, RegisterTenant(id) PROVE MayLackPort'
  BY <1>1, <1>3, OpensOne DEF RegisterTenant, Kept, Objects
<1>4. ASSUME NEW w \in Workers, handleSet(w) PROVE MayLackPort'
  <2>1. PICK n \in Registered(work[w].id) : Enqueued(n)
    BY <1>4 DEF handleSet
  <2>2. n \in DOMAIN adapters
    BY DEF Registered
  <2>3. adapters[n] \in LinkType /\ adapters \in Seq(LinkType)
    BY <2>2 DEF Objects, ObjectTypes
  <2>4. PICK e : e = [adapters[n] EXCEPT !.queue = @ + 1]
    OBVIOUS
  <2>5. adapters' = adapters \/ adapters' = [adapters EXCEPT ![n] = e]
    BY <2>1, <2>4 DEF Enqueued
  <2>6. e.cfg = adapters[n].cfg
    BY <2>3, <2>4 DEF LinkType
  <2>7. QED
    BY <1>1, <2>2, <2>5, <2>6
<1>5. CASE adapters' = adapters
  BY <1>1, <1>5
<1>6. CASE ILinkNext
  BY <1>3, <1>4, <1>5, <1>6 DEF ILinkNext, BuildRouter, ListenAndServe, createTenantToken,
                              revokeTenantToken, resolveAndAuth
<1>7. QED
  BY <1>2, <1>5, <1>6 DEF Next, vars

\* So a cause stays one.
LEMMA CauseStays ==
    ASSUME ServerInv, [Next]_vars, Cause
    PROVE  Cause'
<1>1. CASE failures > 0
  <2>1. failures \in Nat /\ failures' \in {failures, failures + 1}
    BY FailuresGrow DEF ServerInv, Process, ProcessTypes
  <2>2. QED
    BY <1>1, <2>1 DEF Cause
<1>2. CASE MayLackPort
  BY <1>2, PortStays DEF Cause
<1>3. ASSUME NEW n \in Providers, providers[n].overtaken PROVE Cause'
  <2>1. CASE PbxNext
    BY <1>3, <2>1, OvertakenStays DEF ServerInv, Cause
  <2>2. CASE providers' = providers
    BY <1>3, <2>2 DEF Cause, Providers
  <2>3. QED
    BY <2>1, <2>2 DEF Next, vars
<1>4. QED
  BY <1>1, <1>2, <1>3 DEF Cause

----------------------------------------------------------------------------
(***************************************************************************)
(* The map of the tenants follows the rows.                                *)
(***************************************************************************)

\* The link of a tenant goes where its settings say.
Fits(id) ==
    tenants[id] # None /\ Link(id).state # "closed" => PmsOf[Link(id).cfg] = PmsOf[tenants[id].cfg]

LinksFit == \A id \in TenantIds : Fits(id)

\* A tenant that runs is one of this row.
Follows(row, id) ==
    tenants[id] # None => /\ row # None /\ row.enabled
                          /\ Link(id).state # "closed" => tenants[id].cfg = row.cfg

\* The reload that is under way is done with the tenant.
InHand(id) == mgr.holder \in Workers /\ id \in work[mgr.holder].only \ mgr.todo

\* What no reload has missed is as its row says, or as the list of the reload that is under way
\* does.
RowsFollowed ==
    /\ Booting \/ phase = "serve" =>
          \A id \in TenantIds \ behind : Follows(rows[id], id) \/ InHand(id)
    /\ phase = "serve" => \A w \in Workers : mgr.holder = w =>
          /\ mgr.todo \subseteq work[w].only
          /\ \A id \in work[w].only \ mgr.todo : Follows(work[w].snap[id], id)

\* What ends the process, or leaves a stopped tenant behind, has a cause. (While main stops the
\* tenants one by one, the stopped ones are those that are no longer on its list.)
CausesKnown ==
    /\ phase = "fatal" => Cause
    /\ phase = "panicked" => Cause \/ EventOvertaken
    /\ phase = "serve" => \A id \in TenantIds : LeftStopped(id) => Cause
    /\ phase = "stop" => \A id \in mgr.todo : LeftStopped(id) => Cause

MapInv == LinksFit /\ RowsFollowed /\ CausesKnown

\* A tenant that stays as it is fits and follows as before.
LEMMA SameKeeps ==
    ASSUME NEW id \in TenantIds, Same(id)
    PROVE  /\ Fits(id) => Fits(id)'
           /\ \A row : Follows(row, id) => Follows(row, id)'
           /\ LeftStopped(id)' /\ mgr.stopping # id => LeftStopped(id)
BY DEF Same, Fits, Follows, LeftStopped

\* One that was opened does, too.
LEMMA OpenedFits ==
    ASSUME NEW id \in TenantIds, NEW row, row # None, row.enabled, Opened(id, row.cfg)
    PROVE  Fits(id)' /\ Follows(row, id)' /\ ~ LeftStopped(id)'
<1>1. /\ tenants'[id] # None /\ tenants'[id].cfg = row.cfg
      /\ Link(id)'.state = "open" /\ Link(id)'.cfg = row.cfg
  BY DEF Opened
<1>2. QED
  BY <1>1 DEF Fits, Follows, LeftStopped

\* One that is not in the map has nothing to fit.
LEMMA NoneFits ==
    ASSUME NEW id \in TenantIds, tenants'[id] = None
    PROVE  Fits(id)' /\ (\A row : Follows(row, id)') /\ ~ LeftStopped(id)'
BY DEF Fits, Follows, LeftStopped

\* A process that has ended does nothing more.
LEMMA EndsStay ==
    ASSUME CausesKnown, [Next]_vars, phase' = phase
    PROVE  /\ phase' = "fatal" => Cause'
           /\ phase' = "panicked" => Cause' \/ EventOvertaken'
<1>1. CASE phase \notin {"fatal", "panicked"}
  BY <1>1
<1>2. CASE phase \in {"fatal", "panicked"}
  <2>1. ~ Running
    BY <1>2 DEF Running
  <2>2. UNCHANGED vars
    BY <2>1 DEF Next
  <2>3. UNCHANGED <<failures, adapters, providers>>
    BY <2>2 DEF vars
  <2>4. (Cause' <=> Cause) /\ (EventOvertaken' <=> EventOvertaken)
    BY <2>3 DEF Cause, EventOvertaken, MayLackPort, Providers
  <2>5. QED
    BY <2>4 DEF CausesKnown
<1>3. QED
  BY <1>1, <1>2

\* Steps that concern no tenant of the map.
LEMMA MapApart ==
    ASSUME ServerInv, ServerInv', MapInv, [Next]_vars,
           \A id \in TenantIds : Same(id), mgr' = mgr,
           Booting' \/ phase' = "serve" => Booting \/ phase = "serve",
           behind \subseteq behind', \A id \in TenantIds \ behind' : rows'[id] = rows[id],
           \A w \in Workers : mgr.holder = w => work'[w] = work[w],
           phase' = "fatal" => phase' = phase \/ Cause',
           phase' = "panicked" => phase' = phase \/ Cause' \/ EventOvertaken',
           phase' = "serve" => phase \in {"serve", "routes"},
           phase' = "stop" => phase = "stop"
    PROVE  MapInv'
<1>1. LinksFit'
  BY SameKeeps DEF MapInv, LinksFit
<1>2. phase = "routes" => mgr.holder \notin Workers /\ \A id \in TenantIds : ~ LeftStopped(id)
  <2>1. phase = "routes" => mgr.holder = None
    BY DEF ServerInv, LockInv, Quiet, Booting
  <2>2. ASSUME phase = "routes", NEW id \in TenantIds, LeftStopped(id)
        PROVE  FALSE
    BY <2>2, LinkExists DEF LeftStopped, ServerInv, TenantsInv, Boot, Booting
  <2>3. QED
    BY <2>1, <2>2
<1>3. RowsFollowed'
  <2>1. ASSUME Booting' \/ phase' = "serve", NEW id \in TenantIds \ behind'
        PROVE  Follows(rows[id], id)' \/ InHand(id)'
    <3>1. PICK row : row = rows[id]
      OBVIOUS
    <3>2. rows'[id] = row
      BY <2>1, <3>1
    <3>3. CASE InHand(id)
      BY <3>3 DEF InHand
    <3>4. CASE Follows(row, id)
      <4>1. Follows(row, id)'
        BY <2>1, <3>4, SameKeeps
      <4>2. QED
        BY <3>2, <4>1 DEF Follows
    <3>5. QED
      BY <2>1, <3>1, <3>3, <3>4 DEF MapInv, RowsFollowed
  <2>2. ASSUME phase' = "serve", NEW w \in Workers, mgr'.holder = w
        PROVE  /\ mgr'.todo \subseteq work'[w].only
               /\ \A id \in work'[w].only \ mgr'.todo : Follows(work[w].snap[id], id)'
    <3>1. phase = "serve" /\ work'[w] = work[w] /\ mgr.holder = w
      BY <1>2, <2>2
    <3>2. PICK snap : snap = work[w].snap
      OBVIOUS
    <3>3. work[w].only \subseteq TenantIds
      BY <3>1, Shapes DEF ServerInv, LockInv, Held, Process, WorkTypes, Reloads
    <3>4. ASSUME NEW id \in work'[w].only \ mgr'.todo
          PROVE  Follows(work[w].snap[id], id)'
      <4>1. PICK row : row = snap[id]
        OBVIOUS
      <4>2. id \in TenantIds /\ Follows(row, id)
        BY <3>1, <3>2, <3>3, <3>4, <4>1 DEF MapInv, RowsFollowed
      <4>3. Follows(row, id)'
        BY <4>2, SameKeeps
      <4>4. work'[w].snap[id] = row
        BY <3>1, <3>2, <4>1
      <4>5. QED
        BY <4>3, <4>4 DEF Follows
    <3>5. QED
      BY <3>1, <3>4 DEF MapInv, RowsFollowed
  <2>3. QED
    BY <2>1, <2>2 DEF RowsFollowed
<1>4. CausesKnown'
  <2>1. \A id \in TenantIds : LeftStopped(id)' => LeftStopped(id)
    <3>1. ASSUME NEW id \in TenantIds, LeftStopped(id)'
          PROVE  LeftStopped(id)
      BY <3>1, SameKeeps DEF LeftStopped
    <3>2. QED
      BY <3>1
  <2>2. mgr.todo \subseteq TenantIds
    BY DEF ServerInv, Process, ProcessTypes, Locks
  <2>3. QED
    BY <1>2, <2>1, <2>2, CauseStays, EndsStay DEF MapInv, CausesKnown
<1>5. QED
  BY <1>1, <1>3, <1>4 DEF MapInv

\* The holder stops a tenant of its list, or is done with it.
LEMMA MapFollows ==
    ASSUME ServerInv, ServerInv', MapInv, [Next]_vars, NEW w \in Workers, NEW id \in TenantIds,
           SameBut(id), Fits(id)', mgr.holder = w, mgr'.holder = w, id \in mgr.todo,
           mgr'.todo = mgr.todo \/ mgr'.todo = mgr.todo \ {id},
           UNCHANGED <<phase, work, rows, behind>>,
           mgr.stopping \in {None, id},
           id \in mgr'.todo => \A row : Follows(row, id) => Follows(row, id)',
           id \notin mgr'.todo => \A row : row = work[w].snap[id] => Follows(row, id)',
           LeftStopped(id)' => LeftStopped(id) \/ Cause'
    PROVE  MapInv'
<1>1. LinksFit'
  <2>1. ASSUME NEW t \in TenantIds, t # id PROVE Fits(t)'
    BY <2>1, SameKeeps DEF SameBut, MapInv, LinksFit
  <2>2. QED
    BY <2>1 DEF LinksFit
<1>2. mgr.todo \subseteq TenantIds /\ work[w].only \subseteq TenantIds /\ None \notin TenantIds
  <2>1. work[w].at = "follow"
    BY DEF ServerInv, LockInv, Held
  <2>2. QED
    BY <2>1, Shapes DEF ServerInv, Process, ProcessTypes, Locks, WorkTypes, Reloads
<1>3. ASSUME NEW t \in TenantIds, t # id, NEW row, Follows(row, t)
      PROVE  Follows(row, t)'
  BY <1>3, SameKeeps DEF SameBut
<1>4. phase # "stop"
  BY DEF ServerInv, LockInv, Held
<1>5. ~ Booting
  BY DEF ServerInv, LockInv, Quiet
<1>6. ASSUME phase = "serve"
      PROVE  RowsFollowed'
  <2>1. mgr.todo \subseteq work[w].only
    BY <1>6 DEF MapInv, RowsFollowed
  <2>2. ASSUME NEW t \in work[w].only \ mgr'.todo
        PROVE  Follows(work[w].snap[t], t)'
    <3>1. PICK row : row = work[w].snap[t]
      OBVIOUS
    <3>2. t # id => Follows(row, t)
      BY <1>6, <2>2, <3>1 DEF MapInv, RowsFollowed
    <3>3. Follows(row, t)'
      BY <1>2, <1>3, <2>2, <3>1, <3>2
    <3>4. work'[w].snap[t] = row
      BY <3>1
    <3>5. QED
      BY <3>3, <3>4 DEF Follows
  <2>3. ASSUME NEW t \in TenantIds \ behind
        PROVE  Follows(rows[t], t)' \/ InHand(t)'
    <3>1. PICK row : row = rows[t]
      OBVIOUS
    <3>2. CASE InHand(t) \/ (t = id /\ id \notin mgr'.todo)
      BY <2>1, <3>2 DEF InHand
    <3>3. CASE Follows(row, t) /\ ~ (t = id /\ id \notin mgr'.todo)
      <4>1. Follows(row, t)'
        BY <1>3, <2>3, <3>3
      <4>2. rows'[t] = row
        BY <3>1
      <4>3. QED
        BY <4>1, <4>2 DEF Follows
    <3>4. QED
      BY <1>6, <2>3, <3>1, <3>2, <3>3 DEF MapInv, RowsFollowed
  <2>4. \A v \in Workers : mgr'.holder = v => v = w
    OBVIOUS
  <2>5. mgr'.todo \subseteq work'[w].only
    BY <2>1
  <2>6. QED
    BY <2>2, <2>3, <2>4, <2>5 DEF RowsFollowed
<1>7. RowsFollowed'
  BY <1>5, <1>6 DEF RowsFollowed, Booting
<1>8. CausesKnown'
  <2>1. ASSUME NEW t \in TenantIds, LeftStopped(t)'
        PROVE  LeftStopped(t) \/ Cause'
    <3>1. CASE t = id
      BY <2>1, <3>1
    <3>2. CASE t # id
      BY <1>2, <2>1, <3>2, SameKeeps DEF SameBut
    <3>3. QED
      BY <3>1, <3>2
  <2>2. QED
    BY <1>4, <2>1, CauseStays, EndsStay DEF MapInv, CausesKnown
<1>9. QED
  BY <1>1, <1>7, <1>8 DEF MapInv

\* It goes from one tenant of its list to the next.
LEMMA ReloadFollows ==
    ASSUME ServerInv, ServerInv', MapInv, [Next]_vars, NEW w \in Workers, NEW id \in TenantIds,
           \/ StopTenant(w, id) \/ RemoveTenant(w, id) \/ UpdateTenant(w, id)
           \/ \E outcome \in Outcomes :
                 RestartTenant(w, id, outcome) \/ StartTenant(w, id, outcome)
    PROVE  MapInv'
<1> USE DEF ServerInv, Process, LockInv, TenantsInv
<1>1. None \notin TenantIds /\ mgr \in Locks
  BY DEF ProcessTypes
<1>2. CASE StopTenant(w, id)
  <2>1. /\ mgr.holder = w /\ mgr.stopping = None /\ id \in mgr.todo /\ tenants[id] # None
        /\ Stop(id) /\ UNCHANGED <<phase, work, rows, tenants, behind>>
        /\ Link(id).state # "closed"
    BY <1>2 DEF StopTenant, At, MustStop, Gone, Changed, AlreadyStopped, Link
  <2>2. mgr'.holder = w /\ mgr'.todo = mgr.todo /\ mgr'.stopping = id
    BY <1>1, <2>1 DEF Stop, Locks
  <2>3. Link(id)'.cfg = Link(id).cfg /\ SameBut(id)
    BY <2>1, StopCloses DEF SameBut
  <2>4. Fits(id)'
    BY <2>1, <2>3 DEF Fits, MapInv, LinksFit
  <2>5. (\A row : Follows(row, id) => Follows(row, id)') /\ ~ LeftStopped(id)'
    BY <2>1, <2>2 DEF Follows, LeftStopped
  <2>6. QED
    BY <2>1, <2>2, <2>3, <2>4, <2>5, MapFollows
<1>3. CASE RemoveTenant(w, id)
  <2>1. /\ mgr.holder = w /\ mgr.stopping = id /\ id \in mgr.todo
        /\ UNCHANGED <<phase, work, rows, behind>>
    BY <1>1, <1>3 DEF RemoveTenant, Stopped, Held
  <2>2. mgr'.holder = w /\ mgr'.todo = mgr.todo \ {id}
    BY <1>1, <1>3, <2>1 DEF RemoveTenant, Locks
  <2>3. SameBut(id) /\ tenants'[id] = None
    BY <1>3, RemoveLinks
  <2>4. Fits(id)' /\ (\A row : Follows(row, id)') /\ ~ LeftStopped(id)'
    BY <2>3, NoneFits
  <2>5. QED
    BY <2>1, <2>2, <2>3, <2>4, MapFollows
<1>4. CASE UpdateTenant(w, id)
  <2>1. mgr'.holder = w /\ mgr'.todo = mgr.todo \ {id}
    BY <1>1, <1>4 DEF UpdateTenant, At, Locks
  <2>2. UNCHANGED <<phase, work, rows, behind>>
    BY <1>4 DEF UpdateTenant
  <2>3. /\ SameBut(id) /\ Wanted(work[w].snap, id)
        /\ mgr.holder = w /\ id \in mgr.todo /\ mgr.stopping = None
        /\ tenants[id] # None /\ tenants'[id] # None
        /\ tenants'[id].cfg = work[w].snap[id].cfg
        /\ PmsOf[tenants'[id].cfg] = PmsOf[tenants[id].cfg]
        /\ Link(id)' = Link(id)
    BY <1>4, UpdateLinks
  <2>4. Fits(id)'
    BY <2>3 DEF Fits, MapInv, LinksFit
  <2>5. \A row : row = work[w].snap[id] => Follows(row, id)'
    BY <2>3 DEF Follows, Wanted
  <2>6. LeftStopped(id)' => LeftStopped(id)
    BY <1>1, <2>3 DEF LeftStopped
  <2>7. QED
    BY <2>1, <2>2, <2>3, <2>4, <2>5, <2>6, MapFollows
<1>5. ASSUME NEW outcome \in Outcomes, RestartTenant(w, id, outcome) \/ StartTenant(w, id, outcome)
      PROVE  MapInv'
  <2>1. /\ SameBut(id) /\ Wanted(work[w].snap, id)
        /\ work[w].at = "follow" /\ mgr.holder = w /\ id \in mgr.todo
        /\ outcome = "ok" => Opened(id, work[w].snap[id].cfg)
        /\ outcome # "ok" => tenants' = tenants /\ Same(id)
    BY <1>5, ReplaceLinks
  <2>2. Replace(w, id, outcome) /\ UNCHANGED <<phase, work, rows, behind>>
    BY <1>5 DEF RestartTenant, StartTenant, Replace
  <2>3. mgr'.holder = w /\ mgr'.todo = mgr.todo \ {id}
    BY <1>1, <2>1, <2>2 DEF Replace, Locks
  <2>4. mgr.stopping \in {None, id}
    BY <1>5 DEF RestartTenant, StartTenant, Stopped, At
  <2>5. CASE outcome = "ok"
    <3>1. PICK row : row = work[w].snap[id]
      OBVIOUS
    <3>2. row # None /\ row.enabled /\ Opened(id, row.cfg)
      BY <2>1, <2>5, <3>1 DEF Wanted
    <3>3. Fits(id)' /\ Follows(row, id)' /\ ~ LeftStopped(id)'
      BY <3>2, OpenedFits
    <3>4. QED
      BY <2>1, <2>2, <2>3, <2>4, <3>1, <3>3, MapFollows
  <2>6. CASE outcome # "ok"
    <3>1. Fits(id)'
      BY <2>1, <2>6, SameKeeps DEF MapInv, LinksFit
    <3>2. tenants'[id] # None => Link(id)'.state = "closed"
      <4>1. tenants[id] # None => Link(id).state = "closed"
        BY <1>5 DEF RestartTenant, StartTenant, Stopped
      <4>2. QED
        BY <2>1, <2>6, <4>1 DEF Same
    <3>3. \A row : row = work[w].snap[id] => Follows(row, id)'
      BY <2>1, <3>2 DEF Follows, Wanted
    <3>4. Cause'
      BY <2>2, <2>6, FailingHasCause DEF Replace
    <3>5. QED
      BY <2>1, <2>2, <2>3, <2>4, <3>1, <3>3, <3>4, MapFollows
  <2>7. QED
    BY <2>5, <2>6
<1>6. QED
  BY <1>2, <1>3, <1>4, <1>5

\* A reload takes the lock, or gives it back.
LEMMA LockFollows ==
    ASSUME ServerInv, ServerInv', MapInv, [Next]_vars, NEW w \in Workers,
           LockManager(w) \/ StopsTwice(w) \/ UnlockManager(w)
    PROVE  MapInv'
<1> USE DEF ServerInv, Process, LockInv, TenantsInv
<1>1. None \notin TenantIds /\ mgr \in Locks
  BY DEF ProcessTypes
<1>2. /\ UNCHANGED <<phase, rows, tenants, adapters>>
      /\ work[w].at \in {"listed", "invalidate", "follow"}
  BY DEF LockManager, StopsTwice, UnlockManager, At
<1>3. work[w] \in Reloads
  BY <1>2, Shapes DEF WorkTypes
<1>4. \A id \in TenantIds : Same(id)
  BY <1>2, SameAtRest
<1>5. LinksFit'
  BY <1>4, SameKeeps DEF MapInv, LinksFit
<1>6. mgr'.stopping = mgr.stopping
  BY <1>1 DEF LockManager, StopsTwice, UnlockManager, Locks
<1>7. CausesKnown'
  <2>1. ASSUME NEW id \in TenantIds, LeftStopped(id)'
        PROVE  LeftStopped(id)
    BY <1>4, <1>6, <2>1, SameKeeps DEF LeftStopped
  <2>2. phase = "stop" => FALSE
    BY <1>2 DEF Held, LockManager, StopsTwice, UnlockManager, At
  <2>3. QED
    BY <1>2, <2>1, <2>2, CauseStays, EndsStay DEF MapInv, CausesKnown
<1>8. ~ Booting
  BY <1>2 DEF Quiet, Idle
<1>9. ASSUME NEW id \in TenantIds, NEW row, Follows(row, id)
      PROVE  Follows(row, id)'
  BY <1>4, <1>9, SameKeeps
<1>10. CASE LockManager(w)
  <2>1. PICK job \in Reloads : job = work[w]
    BY <1>3
  <2>2. /\ mgr.holder = None /\ mgr'.holder = w
        /\ mgr'.todo = {id \in job.only : tenants[id] # None \/ Wanted(job.snap, id)}
        /\ behind' = behind
    BY <1>1, <1>10, <2>1 DEF LockManager, Locks
  <2>3. /\ work'[w].only = job.only /\ work'[w].snap = job.snap
        /\ job.only \subseteq TenantIds
    BY <1>10, <2>1 DEF LockManager, WorkTypes, Reloads
  <2>4. ASSUME phase = "serve", NEW id \in TenantIds \ behind
        PROVE  Follows(rows[id], id)'
    <3>1. ~ InHand(id)
      BY <2>2 DEF InHand
    <3>2. PICK row : row = rows[id]
      OBVIOUS
    <3>3. Follows(row, id)
      BY <2>4, <3>1, <3>2 DEF MapInv, RowsFollowed
    <3>4. Follows(row, id)'
      BY <1>9, <2>4, <3>3
    <3>5. rows'[id] = row
      BY <1>2, <3>2
    <3>6. QED
      BY <3>4, <3>5 DEF Follows
  <2>5. mgr'.todo \subseteq work'[w].only
    BY <2>2, <2>3
  <2>6. ASSUME NEW id \in work'[w].only \ mgr'.todo
        PROVE  Follows(work[w].snap[id], id)'
    <3>1. tenants[id] = None
      BY <2>2, <2>3, <2>6
    <3>2. tenants'[id] = None
      BY <1>2, <3>1
    <3>3. QED
      BY <3>2 DEF Follows
  <2>7. \A v \in Workers : mgr'.holder = v => v = w
    BY <2>2
  <2>8. RowsFollowed'
    BY <1>2, <1>8, <2>2, <2>4, <2>5, <2>6, <2>7 DEF RowsFollowed, Booting
  <2>9. QED
    BY <1>5, <1>7, <2>8 DEF MapInv
<1>11. CASE StopsTwice(w) \/ UnlockManager(w)
  <2>1. mgr.holder = w /\ mgr'.holder = None
    BY <1>1, <1>11 DEF StopsTwice, UnlockManager, At, Locks
  <2>2. ASSUME phase = "serve", NEW id \in TenantIds \ behind'
        PROVE  Follows(rows[id], id)'
    <3>1. PICK row : row = rows[id]
      OBVIOUS
    <3>2. /\ id \in work[w].only => work[w].snap[id] = row
          /\ id \in behind => UnlockManager(w) /\ id \in work[w].only
      BY <1>11, <2>2, <3>1 DEF StopsTwice, UnlockManager, Outdated
    <3>3. Follows(row, id)
      <4>1. CASE id \in work[w].only \ mgr.todo
        BY <2>1, <2>2, <3>2, <4>1 DEF MapInv, RowsFollowed
      <4>2. CASE id \notin work[w].only \ mgr.todo
        <5>1. id \notin behind
          BY <3>2, <4>2 DEF UnlockManager
        <5>2. ~ InHand(id)
          BY <2>1, <4>2 DEF InHand
        <5>3. QED
          BY <2>2, <3>1, <5>1, <5>2 DEF MapInv, RowsFollowed
      <4>3. QED
        BY <4>1, <4>2
    <3>4. Follows(row, id)'
      BY <1>9, <2>2, <3>3
    <3>5. rows'[id] = row
      BY <1>2, <3>1
    <3>6. QED
      BY <3>4, <3>5 DEF Follows
  <2>3. RowsFollowed'
    BY <1>2, <1>8, <2>1, <2>2 DEF RowsFollowed, Booting
  <2>4. QED
    BY <1>5, <1>7, <2>3 DEF MapInv
<1>12. QED
  BY <1>10, <1>11

\* Boot starts the tenants of the rows that are enabled, twice.
LEMMA BootFollows ==
    ASSUME ServerInv, ServerInv', MapInv, [Next]_vars, NEW id \in TenantIds,
           NEW outcome \in Outcomes, LoadTenant(id, outcome) \/ StartAll(id, outcome)
    PROVE  MapInv'
<1> USE DEF ServerInv, Process, LockInv, TenantsInv
<1>1. /\ Booting /\ mgr.holder = None /\ behind = {} /\ mgr' = mgr
      /\ rows' = rows /\ behind' = behind /\ phase # "serve"
      /\ phase' = phase \/ (phase' = "fatal" /\ outcome # "ok")
  BY DEF LoadTenant, StartAll, Booting, Quiet
<1>2. phase' \in {"tenants", "start", "fatal"}
  BY <1>1 DEF LoadTenant, StartAll
<1>3. SameBut(id)
  BY LoadLinks, StartAllLinks
<1>4. /\ Fits(id)'
      /\ \A row : row = rows[id] => Follows(row, id)'
  <2>1. CASE LoadTenant(id, outcome)
    <3>1. /\ Wanted(rows, id)
          /\ outcome = "ok" => Opened(id, rows[id].cfg)
          /\ outcome # "ok" => tenants'[id] = None
      BY <2>1, LoadLinks
    <3>2. PICK row : row = rows[id]
      OBVIOUS
    <3>3. row # None /\ row.enabled
      BY <3>1, <3>2 DEF Wanted
    <3>4. outcome = "ok" => Fits(id)' /\ Follows(row, id)'
      BY <3>1, <3>2, <3>3, OpenedFits
    <3>5. outcome # "ok" => Fits(id)' /\ Follows(row, id)'
      BY <3>1, NoneFits
    <3>6. QED
      BY <3>2, <3>4, <3>5
  <2>2. CASE StartAll(id, outcome)
    <3>1. /\ tenants' = tenants /\ tenants[id] # None
          /\ Link(id)'.cfg = tenants[id].cfg
      BY <2>2, StartAllLinks
    <3>2. Fits(id)'
      BY <3>1 DEF Fits
    <3>3. Link(id).state # "closed"
      BY <1>1, <3>1, LinkExists DEF Boot
    <3>4. PICK row : row = rows[id]
      OBVIOUS
    <3>5. Follows(row, id)
      BY <1>1, <3>4 DEF MapInv, RowsFollowed, InHand, ProcessTypes
    <3>6. Follows(row, id)'
      BY <3>1, <3>3, <3>5 DEF Follows
    <3>7. QED
      BY <3>2, <3>4, <3>6
  <2>3. QED
    BY <2>1, <2>2
<1>5. LinksFit'
  <2>1. ASSUME NEW t \in TenantIds, t # id PROVE Fits(t)'
    BY <1>3, <2>1, SameKeeps DEF SameBut, MapInv, LinksFit
  <2>2. QED
    BY <1>4, <2>1 DEF LinksFit
<1>6. ASSUME NEW t \in TenantIds
      PROVE  Follows(rows[t], t)'
  <2>1. PICK row : row = rows[t]
    OBVIOUS
  <2>2. Follows(row, t)'
    <3>1. CASE t = id
      BY <1>4, <2>1, <3>1
    <3>2. CASE t # id
      <4>1. ~ InHand(t)
        BY <1>1 DEF InHand, ProcessTypes
      <4>2. Follows(row, t)
        BY <1>1, <2>1, <4>1 DEF MapInv, RowsFollowed
      <4>3. QED
        BY <1>3, <3>2, <4>2, SameKeeps DEF SameBut
    <3>3. QED
      BY <3>1, <3>2
  <2>3. rows'[t] = row
    BY <1>1, <2>1
  <2>4. QED
    BY <2>2, <2>3 DEF Follows
<1>7. RowsFollowed'
  BY <1>2, <1>6 DEF RowsFollowed
<1>8. outcome # "ok" => Cause'
  BY FailingHasCause DEF LoadTenant, StartAll
<1>9. CausesKnown'
  BY <1>1, <1>2, <1>8 DEF CausesKnown, Booting
<1>10. QED
  BY <1>5, <1>7, <1>9 DEF MapInv

\* main stops all tenants.
LEMMA StopAllFollows ==
    ASSUME ServerInv, ServerInv', MapInv, [Next]_vars, BeginStopAll \/ StopSteps
    PROVE  MapInv'
<1> USE DEF ServerInv, Process, LockInv, TenantsInv
<1>1. None \notin TenantIds /\ mgr \in Locks
  BY DEF ProcessTypes
<1>2. phase' \notin {"systems", "connect", "load", "tenants", "start", "routes", "serve"}
  BY DEF BeginStopAll, StopSteps, EndStopAll, StopAll, StoppedInAll
<1>3. RowsFollowed'
  BY <1>2 DEF RowsFollowed, Booting
<1>4. CASE BeginStopAll
  <2>1. /\ phase = "serve" /\ phase' = "stop" /\ UNCHANGED <<tenants, adapters>>
        /\ mgr'.stopping = mgr.stopping /\ mgr'.todo = Loaded
    BY <1>1, <1>4 DEF BeginStopAll, Locks
  <2>2. \A id \in TenantIds : Same(id)
    BY <2>1, SameAtRest
  <2>3. LinksFit'
    BY <2>2, SameKeeps DEF MapInv, LinksFit
  <2>4. ASSUME NEW id \in TenantIds, LeftStopped(id)'
        PROVE  LeftStopped(id)
    BY <2>1, <2>2, <2>4, SameKeeps DEF LeftStopped
  <2>5. CausesKnown'
    BY <2>1, <2>4, CauseStays DEF MapInv, CausesKnown, Loaded
  <2>6. QED
    BY <1>3, <2>3, <2>5 DEF MapInv
<1>5. CASE EndStopAll
  <2>1. phase' = "close" /\ UNCHANGED <<tenants, adapters>>
    BY <1>5 DEF EndStopAll
  <2>2. LinksFit'
    BY <2>1, SameAtRest, SameKeeps DEF MapInv, LinksFit
  <2>3. QED
    BY <1>3, <2>1, <2>2 DEF MapInv, CausesKnown
<1>6. ASSUME NEW id \in TenantIds, StopAll(id)
      PROVE  MapInv'
  <2>1. /\ phase = "stop" /\ id \in mgr.todo /\ mgr.stopping = None /\ tenants' = tenants
        /\ tenants[id] # None
    BY <1>6 DEF StopAll, Waits, Loaded
  <2>2. CASE AlreadyStopped(id)
    <3>1. phase' = "panicked" /\ UNCHANGED <<tenants, adapters>>
      BY <1>6, <2>2 DEF StopAll
    <3>2. LeftStopped(id)
      BY <1>1, <2>1, <2>2 DEF LeftStopped, AlreadyStopped, Link
    <3>3. Cause'
      BY <2>1, <3>2, CauseStays DEF MapInv, CausesKnown
    <3>4. LinksFit'
      BY <3>1, SameAtRest, SameKeeps DEF MapInv, LinksFit
    <3>5. QED
      BY <1>3, <3>1, <3>3, <3>4 DEF MapInv, CausesKnown
  <2>3. CASE ~ AlreadyStopped(id)
    <3>1. Stop(id) /\ phase' = "stop" /\ Link(id).state # "closed"
      BY <1>6, <2>1, <2>3 DEF StopAll, AlreadyStopped, Link
    <3>2. mgr'.todo = mgr.todo /\ mgr'.stopping = id
      BY <1>1, <3>1 DEF Stop, Locks
    <3>3. Link(id)'.cfg = Link(id).cfg /\ SameBut(id)
      BY <2>1, <3>1, StopCloses DEF SameBut
    <3>4. LinksFit'
      <4>1. Fits(id)'
        BY <2>1, <3>1, <3>3 DEF Fits, MapInv, LinksFit
      <4>2. ASSUME NEW t \in TenantIds, t # id PROVE Fits(t)'
        BY <3>3, <4>2, SameKeeps DEF SameBut, MapInv, LinksFit
      <4>3. QED
        BY <4>1, <4>2 DEF LinksFit
    <3>5. ASSUME NEW t \in TenantIds, LeftStopped(t)'
          PROVE  LeftStopped(t)
      <4>1. t # id
        BY <3>2, <3>5 DEF LeftStopped
      <4>2. QED
        BY <1>1, <2>1, <3>3, <3>5, <4>1, SameKeeps DEF SameBut
    <3>6. mgr.todo \subseteq TenantIds
      BY <1>1 DEF Locks
    <3>7. CausesKnown'
      BY <2>1, <3>1, <3>2, <3>5, <3>6, CauseStays DEF MapInv, CausesKnown
    <3>8. QED
      BY <1>3, <3>4, <3>7 DEF MapInv
  <2>4. QED
    BY <2>2, <2>3
<1>7. ASSUME NEW id \in TenantIds, StoppedInAll(id)
      PROVE  MapInv'
  <2>1. /\ phase = "stop" /\ phase' = "stop" /\ mgr.stopping = id
        /\ mgr'.todo = mgr.todo \ {id} /\ UNCHANGED <<tenants, adapters>>
    BY <1>1, <1>7 DEF StoppedInAll, Stopped, Locks
  <2>2. \A t \in TenantIds : Same(t)
    BY <2>1, SameAtRest
  <2>3. LinksFit'
    BY <2>2, SameKeeps DEF MapInv, LinksFit
  <2>4. ASSUME NEW t \in TenantIds, t # id, LeftStopped(t)'
        PROVE  LeftStopped(t)
    BY <2>1, <2>2, <2>4, SameKeeps
  <2>5. mgr.todo \subseteq TenantIds
    BY <1>1 DEF Locks
  <2>6. CausesKnown'
    BY <2>1, <2>4, <2>5, CauseStays DEF MapInv, CausesKnown
  <2>7. QED
    BY <1>3, <2>3, <2>6 DEF MapInv
<1>8. QED
  BY <1>4, <1>5, <1>6, <1>7 DEF StopSteps

\* A request starts, or goes on without the lock.
LEMMA RequestFollows ==
    ASSUME ServerInv, ServerInv', MapInv, [Next]_vars, NEW w \in Goroutines, NEW job,
           work' = [work EXCEPT ![w] = job] \/ work' = work,
           w \in Workers /\ work' # work => work[w].at # "follow",
           \A id \in TenantIds : Same(id), UNCHANGED <<phase, mgr>>,
           behind \subseteq behind', \A id \in TenantIds \ behind' : rows'[id] = rows[id]
    PROVE  MapInv'
<1>1. \A v \in Workers : mgr.holder = v => work[v].at = "follow"
  BY DEF ServerInv, LockInv, Held
<1>2. \A v \in Workers : mgr.holder = v => work'[v] = work[v]
  BY <1>1 DEF ServerInv, Process, WorkTypes
<1>3. QED
  BY <1>2, MapApart DEF Booting

\* What a request writes no reload has seen yet.
LEMMA WritesBehind ==
    ASSUME ServerInv
    PROVE  /\ \A id \in TenantIds : \A row : Writes(id, row) =>
                 behind \subseteq behind' /\ \A i \in TenantIds \ behind' : rows'[i] = rows[i]
           /\ UNCHANGED <<rows, behind>> =>
                 behind \subseteq behind' /\ \A i \in TenantIds \ behind' : rows'[i] = rows[i]
BY DEF Writes, ServerInv, Process, ProcessTypes

\* A send on a closed channel was overtaken by Close.
LEMMA SentAreOvertaken ==
    ASSUME ServerInv, NEW n \in Providers, EventSent(n), providers[n].closed
    PROVE  Cause'
<1>1. providers[n].overtaken
  BY DEF ServerInv, PbxInv, ClosedAreSilent, Silent, EventSent
<1>2. PbxNext
  BY DEF PbxNext, ProviderNext
<1>3. QED
  BY <1>1, <1>2, OvertakenStays DEF ServerInv, Cause

\* So was one that a Close of a tenant's adapter finds at work.
LEMMA ClosedAreSent ==
    ASSUME ServerInv, NEW n \in DOMAIN adapters, SendsOnClosed(n)
    PROVE  EventOvertaken'
<1>1. adapters \in Seq(LinkType)
  BY DEF ServerInv, TenantsInv, Objects, ObjectTypes
<1>2. adapters[n] \in LinkType
  BY <1>1
<1>3. PICK e : e = [adapters[n] EXCEPT !.overtaken = TRUE]
  OBVIOUS
<1>4. e.overtaken
  BY <1>2, <1>3 DEF LinkType
<1>5. adapters' = [adapters EXCEPT ![n] = e]
  BY <1>3 DEF SendsOnClosed
<1>6. n \in DOMAIN adapters' /\ adapters'[n] = e
  BY <1>5
<1>7. QED
  BY <1>4, <1>6 DEF EventOvertaken

\* Every step keeps it.
LEMMA MapStep == ServerInv /\ ServerInv' /\ MapInv /\ [Next]_vars => MapInv'
<1> SUFFICES ASSUME ServerInv, ServerInv', MapInv, [Next]_vars PROVE MapInv'
  OBVIOUS
<1>1. ASSUME UNCHANGED tenantVars, UNCHANGED <<phase, work>>
      PROVE  MapInv'
  BY <1>1, SameAtRest, MapApart DEF Booting
<1>2. ASSUME NEW w \in Workers, NEW job, work' = [work EXCEPT ![w] = job], work[w].at # "follow",
             UNCHANGED tenantVars, phase' = phase
      PROVE  MapInv'
  BY <1>2, SameAtRest, RequestFollows
<1>3. ASSUME NEW w \in Workers, NEW job, Request(w, job), UNCHANGED tenantVars
      PROVE  MapInv'
  <2>1. work' = [work EXCEPT ![w] = job] /\ phase' = phase /\ work[w] = Idle
    BY <1>3 DEF Request
  <2>2. Idle.at # "follow"
    BY DEF Idle
  <2>3. QED
    BY <1>2, <1>3, <2>1, <2>2
<1>4. CASE TenantNext
  <2>1. CASE LoadFromDB \/ BeginStartAll
    <3>1. /\ UNCHANGED tenantVars /\ phase \in {"load", "tenants"} /\ phase' \in {"tenants", "start"}
          /\ \A w \in Workers : work'[w] = work[w]
      BY <2>1 DEF LoadFromDB, BeginStartAll, MainGoes, ServerInv, Process, WorkTypes
    <3>2. QED
      BY <3>1, SameAtRest, MapApart DEF Booting
  <2>2. CASE BeginStopAll \/ StopSteps
    BY <2>2, StopAllFollows
  <2>3. ASSUME NEW id \in TenantIds, NEW outcome \in Outcomes,
               LoadTenant(id, outcome) \/ StartAll(id, outcome)
        PROVE  MapInv'
    BY <2>3, BootFollows
  <2>4. ASSUME NEW n \in DOMAIN adapters,
               Loop(n) \/ LoopHandles(n) \/ handlePBXEvent(n) \/ SendsOnClosed(n)
        PROVE  MapInv'
    <3>1. UNCHANGED <<work, mgr, rows, behind>>
      BY <2>4 DEF Loop, LoopSelects, LoopEnds, LoopHandles, handlePBXEvent, SendsOnClosed
    <3>2. phase' = phase \/ (phase' = "panicked" /\ EventOvertaken')
      BY <2>4, ClosedAreSent
         DEF Loop, LoopSelects, LoopEnds, LoopHandles, handlePBXEvent, SendsOnClosed
    <3>3. \A id \in TenantIds : Same(id)
      BY <2>4, SameOutside
    <3>4. QED
      BY <3>1, <3>2, <3>3, MapApart DEF Booting
  <2>5. ASSUME NEW w \in Workers, ReloadSteps(w)
        PROVE  MapInv'
    <3>1. CASE ListTenants(w)
      BY <1>2, <3>1 DEF ListTenants
    <3>2. QED
      BY <2>5, <3>1, LockFollows, ReloadFollows DEF ReloadSteps
  <2>6. ASSUME NEW w \in Workers, ListFails(w)
        PROVE  MapInv'
    BY <1>2, <2>6 DEF ListFails
  <2>7. ASSUME NEW w \in Workers, NEW row \in Row, updateTenantWrites(w, row)
        PROVE  MapInv'
    <3>1. /\ UNCHANGED <<phase, mgr, tenants, adapters>>
          /\ work' = [work EXCEPT ![w] = [at |-> "written"]] /\ work[w].at = "read"
          /\ behind \subseteq behind' /\ \A id \in TenantIds \ behind' : rows'[id] = rows[id]
      <4>1. work[w].id \in TenantIds /\ work[w].at = "read"
        BY <2>7, Shapes DEF updateTenantWrites, ServerInv, Process, WorkTypes, Reads
      <4>2. /\ UNCHANGED <<phase, mgr, tenants, adapters>>
            /\ work' = [work EXCEPT ![w] = [at |-> "written"]]
            /\ Writes(work[w].id, row) \/ UNCHANGED <<rows, behind>>
        BY <2>7 DEF updateTenantWrites
      <4>3. QED
        BY <4>1, <4>2, WritesBehind
    <3>2. QED
      BY <3>1, SameAtRest, RequestFollows
  <2>8. ASSUME NEW w \in Workers, NEW id \in TenantIds,
               \/ updateTenantReads(w, id) \/ deleteTenant(w, id) \/ importTenants(w, id)
               \/ \E cfg \in Configs : createTenant(w, id, cfg)
        PROVE  MapInv'
    <3>1. PICK job : Request(w, job)
      BY <2>8 DEF updateTenantReads, deleteTenant, importTenants, createTenant
    <3>2. work[w].at # "follow" /\ work' = [work EXCEPT ![w] = job] /\ phase' = phase
      BY <3>1 DEF Request, Idle
    <3>3. UNCHANGED <<mgr, tenants, adapters>>
      BY <2>8 DEF updateTenantReads, deleteTenant, importTenants, createTenant
    <3>4. behind \subseteq behind' /\ \A i \in TenantIds \ behind' : rows'[i] = rows[i]
      BY <2>8, WritesBehind DEF updateTenantReads, deleteTenant, importTenants, createTenant
    <3>5. QED
      BY <3>2, <3>3, <3>4, SameAtRest, RequestFollows
  <2>9. CASE LoadFails
    <3>1. /\ UNCHANGED <<work, tenantVars>> /\ phase' = "fatal"
          /\ failures' = failures + 1 /\ failures \in Nat
      BY <2>9 DEF LoadFails, Fails, ServerInv, Process, ProcessTypes
    <3>2. Cause'
      BY <3>1 DEF Cause
    <3>3. QED
      BY <3>1, <3>2, SameAtRest, MapApart DEF Booting
  <2>10. QED
    BY <1>4, <2>1, <2>2, <2>3, <2>4, <2>5, <2>6, <2>7, <2>8, <2>9 DEF TenantNext
<1>5. CASE ILinkNext
  <2>1. CASE BuildRouter \/ ListenAndServe
    <3>1. /\ UNCHANGED tenantVars
          /\ \/ phase = "start" /\ phase' = "routes"
             \/ phase = "routes" /\ phase' = "serve"
          /\ \A w \in Workers : work'[w] = work[w]
      BY <2>1 DEF BuildRouter, ListenAndServe, MainGoes, ServerInv, Process, WorkTypes
    <3>2. QED
      BY <3>1, SameAtRest, MapApart DEF Booting
  <2>2. ASSUME NEW id \in TenantIds, RegisterTenant(id)
        PROVE  MapInv'
    <3>1. /\ UNCHANGED <<phase, mgr, rows, behind>>
          /\ \E job : work' = [work EXCEPT ![Main] = job]
      BY <2>2 DEF RegisterTenant
    <3>2. QED
      BY <2>2, <3>1, SameOutside, RequestFollows
  <2>3. ASSUME NEW w \in Workers, handleSet(w)
        PROVE  MapInv'
    <3>1. /\ UNCHANGED <<phase, mgr, rows, behind>> /\ work[w].at # "follow"
          /\ work' = [work EXCEPT ![w] = Idle]
      BY <2>3 DEF handleSet
    <3>2. QED
      BY <2>3, <3>1, SameOutside, RequestFollows
  <2>4. ASSUME NEW w \in Workers, NEW id \in TenantIds,
               createTenantToken(w, id) \/ revokeTenantToken(w, id) \/ resolveAndAuth(w, id)
        PROVE  MapInv'
    <3>1. UNCHANGED tenantVars /\ \E job : Request(w, job)
      BY <2>4 DEF createTenantToken, revokeTenantToken, resolveAndAuth
    <3>2. QED
      BY <1>3, <3>1
  <2>5. QED
    BY <1>5, <2>1, <2>2, <2>3, <2>4 DEF ILinkNext
<1>6. CASE PbxNext /\ UNCHANGED tenantVars
  <2>1. CASE ProviderNext
    <3>1. UNCHANGED <<work, mgr, rows, behind, tenants, adapters>>
      BY <1>6, <2>1 DEF ProviderNext, Dialled, Reconnected, SubscriptionLost, ReconnectChecks,
                        EventArrives, EventSent
    <3>2. phase' = phase \/ (phase' = "panicked" /\ Cause')
      BY <2>1, SentAreOvertaken DEF ProviderNext, Dialled, Reconnected, SubscriptionLost,
                        ReconnectChecks, EventArrives, EventSent
    <3>3. QED
      BY <3>1, <3>2, SameAtRest, MapApart DEF Booting
  <2>2. CASE \E n \in Providers : Reports(n)
    BY <1>1, <1>6, <2>2 DEF Reports
  <2>3. CASE LoadFromDBSystems \/ SystemsLoaded \/ CloseSystems
    <3>1. /\ \/ phase = "systems" /\ phase' = "connect"
             \/ phase = "connect" /\ phase' = "load"
             \/ phase = "close" /\ phase' = "ended"
          /\ \A w \in Workers : work'[w] = work[w]
      BY <2>3 DEF LoadFromDBSystems, SystemsLoaded, CloseSystems, ServerInv, Process, WorkTypes
    <3>2. QED
      BY <1>6, <3>1, SameAtRest, MapApart DEF Booting
  <2>4. ASSUME NEW w \in Goroutines,
               Connect(w) \/ \E s \in Systems : GetBicomSystem(w, s) \/ TurnOf(w, s)
        PROVE  MapInv'
    <3>1. work[w].at = "connect" /\ phase' = phase /\ \E job : work' = [work EXCEPT ![w] = job]
      BY <2>4 DEF Connect, GetBicomSystem, TurnOf, Connecting
    <3>2. QED
      BY <1>6, <3>1, SameAtRest, RequestFollows
  <2>5. ASSUME NEW w \in Workers, ConnectsDone(w) \/ FollowSystems(w)
        PROVE  MapInv'
    <3>1. work[w].at # "follow" /\ phase' = phase /\ \E job : work' = [work EXCEPT ![w] = job]
      BY <2>5 DEF ConnectsDone, FollowSystems, Connecting
    <3>2. QED
      BY <1>2, <1>6, <3>1
  <2>6. ASSUME NEW w \in Workers,
               \/ ReloadSystems(w)
               \/ \E s \in Systems :
                     ReloadSystem(w, s) \/ \E state \in SystemRows : WriteSystem(w, s, state)
        PROVE  MapInv'
    <3>1. PICK job : Request(w, job)
      BY <2>6 DEF ReloadSystems, ReloadSystem, WriteSystem
    <3>2. QED
      BY <1>3, <1>6, <3>1
  <2>7. QED
    BY <1>6, <2>1, <2>2, <2>3, <2>4, <2>5, <2>6 DEF PbxNext, ConnectsDone
<1>7. CASE UNCHANGED vars
  BY <1>1, <1>7 DEF vars
<1>8. QED
  BY <1>4, <1>5, <1>6, <1>7 DEF Next

\* It holds in every reachable state.
LEMMA MapInductive == Spec => []MapInv
<1>1. Init => MapInv
  <2>1. Init => /\ phase = "systems" /\ adapters = <<>>
                /\ \A id \in TenantIds : tenants[id] = None
    BY DEF Init, ProcessInit, TenantInit
  <2>2. QED
    BY <2>1 DEF MapInv, LinksFit, Fits, RowsFollowed, Follows, CausesKnown
<1>2. QED
  BY <1>1, MapStep, ServerInvInductive, PTL DEF Spec

\* When no reload is under way, and the last one saw the row as it is, a tenant that runs is
\* one of that row, with its settings, and with the link they name.
THEOREM MapIsFollowed == Spec => []MapFollowsRows
<1>1. ASSUME ServerInv, MapInv, NEW id \in TenantIds, phase = "serve", mgr.holder = None,
             id \notin behind, tenants[id] # None
      PROVE  /\ Wanted(rows, id)
             /\ ~ LeftStopped(id) => /\ tenants[id].cfg = rows[id].cfg
                                     /\ PmsOf[Link(id).cfg] = PmsOf[rows[id].cfg]
  <2>1. None \notin Workers /\ None \notin TenantIds
    OBVIOUS
  <2>2. Follows(rows[id], id)
    BY <1>1, <2>1 DEF MapInv, RowsFollowed, InHand
  <2>3. mgr.stopping # id
    BY <1>1, <2>1 DEF ServerInv, LockInv, Held
  <2>4. ~ LeftStopped(id) => Link(id).state # "closed"
    BY <1>1, <2>3 DEF LeftStopped
  <2>5. Fits(id)
    BY <1>1 DEF MapInv, LinksFit
  <2>6. QED
    BY <1>1, <2>2, <2>4, <2>5 DEF Follows, Fits, Wanted
<1>2. ServerInv /\ MapInv => MapFollowsRows
  BY <1>1 DEF MapFollowsRows
<1>3. QED
  BY <1>2, ServerInvInductive, MapInductive, PTL

\* What ended the process, or left a stopped tenant in the map, is known: a connection or a query
\* that failed, a port that may be taken, or an event which an adapter or a provider had in hand
\* when it was closed. The last takes no failure: a plain reload or shutdown may do it.
THEOREM AbortsHaveACause == Spec => []OnlyFailuresAbort
<1>1. MapInv => OnlyFailuresAbort
  BY DEF MapInv, CausesKnown, OnlyFailuresAbort, Cause, EventOvertaken
<1>2. QED
  BY <1>1, MapInductive, PTL

\* While a worker has the lock only its stop of a tenant closes a link.
LEMMA OnlyStopsClose ==
    ASSUME ServerInv, [Next]_vars, Reloading, NEW n \in DOMAIN adapters
    PROVE  \/ adapters'[n].state = adapters[n].state
           \/ \E w \in Workers, id \in TenantIds : StopTenant(w, id)
<1> USE DEF ServerInv, TenantsInv
<1>1. \A r : adapters' = Append(adapters, r) => adapters'[n] = adapters[n]
  BY DEF Objects, ObjectTypes
<1>2. ASSUME NEW w \in Workers, handleSet(w)
      PROVE  adapters'[n].state = adapters[n].state
  <2>1. PICK m \in DOMAIN adapters : Enqueued(m)
    BY <1>2 DEF handleSet, Registered
  <2>2. PICK e : e = [adapters[m] EXCEPT !.queue = @ + 1]
    OBVIOUS
  <2>3. e.state = adapters[m].state
    BY <2>2, AdaptersTyped DEF Objects, LinkType
  <2>4. adapters' = adapters \/ adapters' = [adapters EXCEPT ![m] = e]
    BY <2>1, <2>2 DEF Enqueued
  <2>5. QED
    BY <2>3, <2>4
<1>3. CASE TenantNext
  <2>1. CASE LoadFromDB \/ LoadFails \/ BeginStartAll \/ BeginStopAll \/ EndStopAll
    BY <2>1 DEF LoadFromDB, LoadFails, BeginStartAll, BeginStopAll, EndStopAll
  <2>2. ASSUME NEW id \in TenantIds, StopAll(id) \/ StoppedInAll(id)
        PROVE  FALSE
    BY <2>2 DEF StopAll, StoppedInAll, Reloading, LockInv, Held
  <2>3. ASSUME NEW id \in TenantIds, NEW outcome \in Outcomes,
               LoadTenant(id, outcome) \/ StartAll(id, outcome)
        PROVE  adapters'[n] = adapters[n]
    BY <1>1, <2>3 DEF LoadTenant, StartAll, Start
  <2>4. ASSUME NEW k \in DOMAIN adapters,
               Loop(k) \/ LoopHandles(k) \/ handlePBXEvent(k) \/ SendsOnClosed(k)
        PROVE  adapters'[n].state = adapters[n].state
    BY <2>4, LoopKeeps DEF StatesKept
  <2>5. ASSUME NEW w \in Workers, NEW id \in TenantIds, NEW outcome \in Outcomes,
               RestartTenant(w, id, outcome) \/ StartTenant(w, id, outcome)
        PROVE  adapters'[n] = adapters[n]
    BY <1>1, <2>5 DEF RestartTenant, StartTenant, Replace, Start
  <2>6. CASE adapters' = adapters
    BY <2>6
  <2>7. QED
    BY <1>3, <2>1, <2>2, <2>3, <2>4, <2>5, <2>6, ZenonT(40)
       DEF TenantNext, StopSteps, ReloadSteps, ListTenants, ListFails, LockManager, StopsTwice,
           UnlockManager, RemoveTenant, UpdateTenant, updateTenantWrites, updateTenantReads,
           deleteTenant, importTenants, createTenant
<1>4. CASE ILinkNext
  <2>1. ASSUME NEW id \in TenantIds, RegisterTenant(id)
        PROVE  adapters'[n] = adapters[n]
    BY <1>1, <2>1 DEF RegisterTenant
  <2>2. QED
    BY <1>2, <1>4, <2>1 DEF ILinkNext, BuildRouter, ListenAndServe, createTenantToken,
                            revokeTenantToken, resolveAndAuth
<1>5. QED
  BY <1>3, <1>4 DEF Next, vars

\* A reload closes no link of a tenant that its list has enabled with the host and port that the
\* tenant has.
THEOREM ReloadKeepsConnections == Spec => ReloadKeepsLinks
<1>1. ASSUME ServerInv, ServerInv', MapInv, [Next]_vars, NEW id \in TenantIds,
             Reloading, tenants[id] # None, Wanted(work[mgr.holder].snap, id),
             PmsOf[work[mgr.holder].snap[id].cfg] = PmsOf[Link(id).cfg]
      PROVE  adapters'[Current(tenants[id].obj)].state = Link(id).state
  <2>1. PICK n : n = Current(tenants[id].obj)
    OBVIOUS
  <2>2. n \in DOMAIN adapters /\ Link(id) = adapters[n]
    BY <1>1, <2>1, LinkExists DEF ServerInv, TenantsInv
  <2>3. ASSUME NEW w \in Workers, NEW t \in TenantIds, StopTenant(w, t)
        PROVE  adapters'[n].state = adapters[n].state
    <3>1. /\ mgr.holder = w /\ tenants[t] # None /\ Stop(t) /\ tenants' = tenants
          /\ Gone(w, t) \/ Changed(w, t)
          /\ Link(t).state # "closed"
      BY <2>3 DEF StopTenant, At, MustStop, Gone, Changed, AlreadyStopped, Link
    <3>2. t # id
      <4>1. SUFFICES ASSUME t = id PROVE FALSE
        OBVIOUS
      <4>2. Changed(w, id)
        BY <1>1, <3>1, <4>1 DEF Gone
      <4>3. PmsOf[Link(id).cfg] = PmsOf[tenants[id].cfg]
        BY <1>1, <3>1, <4>1 DEF MapInv, LinksFit, Fits
      <4>4. QED
        BY <1>1, <3>1, <4>2, <4>3 DEF Changed
    <3>3. n # Current(tenants[t].obj)
      BY <1>1, <2>1, <3>1, <3>2, ObjectsDiffer DEF ServerInv, TenantsInv
    <3>4. QED
      BY <1>1, <2>2, <3>1, <3>3, StopCloses
  <2>4. adapters'[n].state = adapters[n].state
    BY <1>1, <2>2, <2>3, OnlyStopsClose
  <2>5. QED
    BY <2>1, <2>2, <2>4
<1>2. ServerInv /\ ServerInv' /\ MapInv /\ [Next]_vars =>
          [\A id \in TenantIds :
              /\ Reloading
              /\ tenants[id] # None
              /\ Wanted(work[mgr.holder].snap, id)
              /\ PmsOf[work[mgr.holder].snap[id].cfg] = PmsOf[Link(id).cfg]
              => adapters'[Current(tenants[id].obj)].state = Link(id).state]_vars
  BY <1>1
<1>3. QED
  BY <1>2, ServerInvInductive, MapInductive, PTL DEF Spec, ReloadKeepsLinks

=============================================================================
