---------------------- MODULE HospitalityServer_bounds ----------------------
(***************************************************************************)
(* The types of all variables of HospitalityServer, which take an account  *)
(* of how many adapters the process opens: LoadFromDB, StartAll and the    *)
(* router open one for each tenant, and so may every request.              *)
(***************************************************************************)
EXTENDS HospitalityServer_proofs

USE ProcessAssumption, ConfigAssumption, CapacityAssumption, ProviderAssumption,
    AdaptersAssumption
    DEF ProcessAssumption, ConfigAssumption, CapacityAssumption, ProviderAssumption,
        AdaptersAssumption
USE DEF processVars, tenantVars, ilinkVars, pbxVars, Goroutines, Goes, MainHas, MainDid

----------------------------------------------------------------------------
(* Counting *)

TenantCount == Cardinality(TenantIds)

\* A list of tenants has no more members than there are tenants.
LEMMA ListIsShort ==
    ASSUME NEW T \in SUBSET TenantIds
    PROVE  /\ IsFiniteSet(T) /\ Cardinality(T) \in Nat /\ TenantCount \in Nat
           /\ Cardinality(T) <= TenantCount
BY FS_Subset, FS_CardinalityType DEF TenantCount

\* It gets shorter by the tenant that is done.
LEMMA ListShrinks ==
    ASSUME NEW T \in SUBSET TenantIds, NEW id \in T
    PROVE  Cardinality(T \ {id}) = Cardinality(T) - 1
BY ListIsShort, FS_RemoveElement

\* A set that is part of another one is no larger.
LEMMA Within ==
    ASSUME NEW S, IsFiniteSet(S), NEW T, T \subseteq S
    PROVE  /\ IsFiniteSet(T) /\ Cardinality(T) \in Nat /\ Cardinality(S) \in Nat
           /\ Cardinality(T) <= Cardinality(S)
BY FS_Subset, FS_CardinalityType

\* It grows by one at most when one joins.
LEMMA Joins ==
    ASSUME NEW S, IsFiniteSet(S), NEW w, NEW T, T \subseteq S \cup {w}
    PROVE  /\ IsFiniteSet(T) /\ Cardinality(T) \in Nat /\ Cardinality(S) \in Nat
           /\ Cardinality(T) <= Cardinality(S) + 1
<1>1. /\ IsFiniteSet(S \cup {w}) /\ Cardinality(S) \in Nat
      /\ Cardinality(S \cup {w}) <= Cardinality(S) + 1
  <2>1. Cardinality(S) \in Nat
    BY FS_CardinalityType
  <2>2. /\ IsFiniteSet(S \cup {w})
        /\ Cardinality(S \cup {w}) = IF w \in S THEN Cardinality(S) ELSE Cardinality(S) + 1
    BY FS_AddElement
  <2>3. QED
    BY <2>1, <2>2
<1>2. /\ IsFiniteSet(T) /\ Cardinality(T) \in Nat
      /\ Cardinality(T) <= Cardinality(S \cup {w}) /\ Cardinality(S \cup {w}) \in Nat
  BY <1>1, Within
<1>3. QED
  BY <1>1, <1>2

\* It is smaller by one at least when one leaves.
LEMMA Leaves ==
    ASSUME NEW S, IsFiniteSet(S), NEW w \in S, NEW T, T \subseteq S \ {w}
    PROVE  /\ IsFiniteSet(T) /\ Cardinality(T) \in Nat /\ Cardinality(S) \in Nat
           /\ Cardinality(T) + 1 <= Cardinality(S)
<1>1. /\ IsFiniteSet(S \ {w}) /\ Cardinality(S) \in Nat
      /\ Cardinality(S \ {w}) = Cardinality(S) - 1
  BY FS_RemoveElement, FS_CardinalityType
<1>2. /\ IsFiniteSet(T) /\ Cardinality(T) \in Nat
      /\ Cardinality(T) <= Cardinality(S \ {w}) /\ Cardinality(S \ {w}) \in Nat
  BY <1>1, Within
<1>3. QED
  BY <1>1, <1>2

\* Products.
LEMMA Times ==
    ASSUME NEW a \in Nat, NEW b \in Nat
    PROVE  a * b \in Nat /\ a * (b + 1) = a * b + a
OBVIOUS

\* A product grows with its factor.
LEMMA TimesGrows ==
    ASSUME NEW a \in Nat, NEW b \in Nat, NEW c \in Nat, b <= c
    PROVE  a * b <= a * c
<1>1. PICK d \in Nat : c = b + d
  <2>1. c - b \in Nat /\ c = b + (c - b)
    OBVIOUS
  <2>2. QED
    BY <2>1
<1>2. a * d \in Nat /\ a * b \in Nat
  BY <1>1, Times
<1>3. a * (b + d) = a * b + a * d
  OBVIOUS
<1>4. QED
  BY <1>1, <1>2, <1>3

----------------------------------------------------------------------------
(***************************************************************************)
(* Who may open an adapter yet.                                            *)
(***************************************************************************)

\* Workers that will follow a list, or may: each of them opens one adapter for each tenant.
Yet == {w \in Workers : work[w].at \in {"read", "written", "listed", "invalidate"}}

\* What the worker that follows its list has before it.
Ahead == IF mgr.holder \in Workers THEN mgr.todo ELSE {}

\* Workers that are about to answer a request of iLink.
Posting(id) == {w \in Workers : work[w].at = "post" /\ work[w].id = id}

BootOpens ==
    /\ phase \in {"systems", "connect", "load"} => Len(adapters) = 0
    /\ phase = "tenants" => Len(adapters) + Cardinality(work[Main].todo) <= TenantCount
    /\ phase = "start" => Len(adapters) + Cardinality(work[Main].todo) <= 2 * TenantCount
    /\ phase = "routes" => Len(adapters) + Cardinality(work[Main].todo) <= 3 * TenantCount

RequestsOpen ==
    /\ IsFiniteSet(Yet)
    /\ Len(adapters) + TenantCount * Cardinality(Yet) + Cardinality(Ahead)
          <= TenantCount * (3 + requests)

RequestsAnswer ==
    \A id \in TenantIds : /\ IsFiniteSet(Posting(id))
                          /\ answered[id] + Cardinality(Posting(id)) <= requests

\* A loop has selected on a channel that exists.
Selected == \A n \in DOMAIN adapters : adapters[n].on <= Len(adapters)

BoundsInv == BootOpens /\ RequestsOpen /\ RequestsAnswer /\ Selected

----------------------------------------------------------------------------
(***************************************************************************)
(* Steps that bring no more adapters and no more answers.                  *)
(***************************************************************************)

Lists == {"tenants", "start", "routes"}

\* main keeps its list, or comes to a phase in which it has none.
Calm ==
    \/ phase' = phase /\ (phase \in Lists => work'[Main] = work[Main])
    \/ phase' \in {"connect", "load"} /\ phase \in {"systems", "connect"}
    \/ ~ Booting'

Eases ==
    /\ Len(adapters') = Len(adapters)
    /\ UNCHANGED <<requests, answered>>
    /\ Yet' \subseteq Yet
    /\ Ahead' \subseteq Ahead
    /\ \A id \in TenantIds : Posting(id)' \subseteq Posting(id)
    /\ Calm

Counts == BootOpens /\ RequestsOpen /\ RequestsAnswer

\* What is counted.
LEMMA CountTypes ==
    ASSUME ServerInv, EndpointsInv
    PROVE  /\ Len(adapters) \in Nat /\ DOMAIN adapters = 1..Len(adapters)
           /\ requests \in Nat /\ TenantCount \in Nat
           /\ answered \in [TenantIds -> Nat]
           /\ mgr \in Locks /\ Ahead \subseteq TenantIds
           /\ WorkTypes
           /\ phase \in Lists => work[Main] \in TenantLists
<1>1. Process /\ adapters \in Seq(LinkType)
  BY DEF ServerInv, TenantsInv, Objects, ObjectTypes
<1>2. requests \in Nat /\ mgr \in Locks /\ WorkTypes
  BY <1>1 DEF Process, ProcessTypes
<1>3. Ahead \subseteq TenantIds
  BY <1>2 DEF Ahead, Locks
<1>4. TenantCount \in Nat
  BY ListIsShort
<1>5. answered \in [TenantIds -> Nat]
  BY DEF EndpointsInv
<1>6. phase \in Lists => work[Main] \in TenantLists
  BY <1>2 DEF WorkTypes, Lists
<1>7. QED
  BY <1>1, <1>2, <1>3, <1>4, <1>5, <1>6

\* Such a step keeps the accounts.
LEMMA EasesKeeps ==
    ASSUME ServerInv, EndpointsInv, Counts, Eases
    PROVE  Counts'
<1>1. /\ Len(adapters) \in Nat /\ requests \in Nat /\ TenantCount \in Nat
      /\ answered \in [TenantIds -> Nat] /\ IsFiniteSet(Ahead)
      /\ Cardinality(Ahead) \in Nat /\ IsFiniteSet(Yet)
  BY CountTypes, ListIsShort DEF Counts, RequestsOpen
<1>2. BootOpens'
  <2>1. TenantCount' = TenantCount
    BY DEF TenantCount
  <2>2. QED
    BY <2>1 DEF Counts, BootOpens, Eases, Calm, Lists, Booting
<1>3. RequestsOpen'
  <2>1. /\ IsFiniteSet(Yet') /\ Cardinality(Yet') \in Nat /\ Cardinality(Yet) \in Nat
        /\ Cardinality(Yet') <= Cardinality(Yet)
    BY <1>1, Within DEF Eases
  <2>2. /\ Cardinality(Ahead') \in Nat /\ Cardinality(Ahead') <= Cardinality(Ahead)
    BY <1>1, Within DEF Eases
  <2>3. /\ TenantCount * Cardinality(Yet') <= TenantCount * Cardinality(Yet)
        /\ TenantCount * Cardinality(Yet') \in Nat /\ TenantCount * Cardinality(Yet) \in Nat
        /\ TenantCount * (3 + requests) \in Nat
    BY <1>1, <2>1, Times, TimesGrows
  <2>4. TenantCount' = TenantCount
    BY DEF TenantCount
  <2>5. Len(adapters) + TenantCount * Cardinality(Yet) + Cardinality(Ahead)
           <= TenantCount * (3 + requests)
    BY DEF Counts, RequestsOpen
  <2>6. Len(adapters') + TenantCount * Cardinality(Yet') + Cardinality(Ahead')
           <= TenantCount * (3 + requests)
    BY <1>1, <2>2, <2>3, <2>5 DEF Eases
  <2>7. QED
    BY <2>1, <2>4, <2>6 DEF RequestsOpen, Eases
<1>4. RequestsAnswer'
  <2>1. ASSUME NEW id \in TenantIds
        PROVE  /\ IsFiniteSet(Posting(id)')
               /\ answered'[id] + Cardinality(Posting(id)') <= requests'
    <3>1. /\ IsFiniteSet(Posting(id)) /\ Posting(id)' \subseteq Posting(id)
          /\ answered[id] + Cardinality(Posting(id)) <= requests
      BY DEF Counts, RequestsAnswer, Eases
    <3>2. /\ IsFiniteSet(Posting(id)') /\ Cardinality(Posting(id)') \in Nat
          /\ Cardinality(Posting(id)) \in Nat
          /\ Cardinality(Posting(id)') <= Cardinality(Posting(id))
      BY <3>1, Within
    <3>3. answered'[id] = answered[id] /\ answered[id] \in Nat /\ requests' = requests
      BY <1>1 DEF Eases
    <3>4. QED
      BY <1>1, <3>1, <3>2, <3>3
  <2>2. QED
    BY <2>1 DEF RequestsAnswer
<1>5. QED
  BY <1>2, <1>3, <1>4 DEF Counts

\* A goroutine goes on and gets no list, nor a request to answer.
LEMMA GoroutineEases ==
    ASSUME WorkTypes, NEW w \in Goroutines, NEW job,
           work' = work \/ work' = [work EXCEPT ![w] = job],
           w \in Workers /\ work' # work =>
               /\ job.at # "post"
               /\ job.at \in {"read", "written", "listed", "invalidate"} =>
                     work[w].at \in {"read", "written", "listed", "invalidate"}
    PROVE  /\ Yet' \subseteq Yet
           /\ \A id \in TenantIds : Posting(id)' \subseteq Posting(id)
           /\ w # Main \/ work' = work => work'[Main] = work[Main]
<1>1. \A v \in Workers : v # w => work'[v] = work[v]
  BY DEF WorkTypes
<1>2. w \in Workers /\ work' # work => work'[w] = job
  BY DEF WorkTypes
<1>3. ASSUME NEW v \in Workers
      PROVE  /\ work'[v].at \in {"read", "written", "listed", "invalidate"} =>
                    work[v].at \in {"read", "written", "listed", "invalidate"}
             /\ work'[v].at = "post" => work'[v] = work[v]
  <2>1. CASE v = w /\ work' # work
    <3>1. w \in Workers /\ work' # work
      BY <2>1
    <3>2. work'[w] = job /\ job.at # "post"
      BY <1>2, <3>1
    <3>3. job.at \in {"read", "written", "listed", "invalidate"} =>
             work[w].at \in {"read", "written", "listed", "invalidate"}
      BY <3>1
    <3>4. QED
      BY <2>1, <3>2, <3>3
  <2>2. CASE ~ (v = w /\ work' # work)
    BY <1>1, <2>2
  <2>3. QED
    BY <2>1, <2>2
<1>4. Yet' \subseteq Yet
  BY <1>3 DEF Yet
<1>5. \A id \in TenantIds : Posting(id)' \subseteq Posting(id)
  BY <1>3 DEF Posting
<1>6. w # Main \/ work' = work => work'[Main] = work[Main]
  BY DEF WorkTypes
<1>7. QED
  BY <1>4, <1>5, <1>6

\* Adapters that change where they are.
LEMMA SameLength ==
    ASSUME ServerInv, ServerInv', DOMAIN adapters' = DOMAIN adapters
    PROVE  Len(adapters') = Len(adapters)
BY DEF ServerInv, TenantsInv, Objects, ObjectTypes

\* The steps of tenants that are neither of boot nor of a request that begins, and open nothing.
LEMMA TenantEases ==
    ASSUME ServerInv, ServerInv', answered' = answered,
           \/ LoadFails \/ BeginStopAll \/ StopSteps
           \/ \E n \in DOMAIN adapters :
                 Loop(n) \/ LoopHandles(n) \/ handlePBXEvent(n) \/ SendsOnClosed(n)
           \/ \E w \in Workers :
                 \/ ListTenants(w) \/ ListFails(w) \/ StopsTwice(w) \/ UnlockManager(w)
                 \/ \E row \in Row : updateTenantWrites(w, row)
                 \/ \E id \in TenantIds :
                       StopTenant(w, id) \/ RemoveTenant(w, id) \/ UpdateTenant(w, id)
    PROVE  Eases
<1>1. /\ WorkTypes /\ mgr \in Locks /\ adapters \in Seq(LinkType)
      /\ mgr.holder = None => mgr.todo = {}
      /\ Main \notin Workers /\ None \notin Workers
  BY DEF ServerInv, Process, ProcessTypes, TenantsInv, Objects, ObjectTypes, LockInv, Held
<1>2. ASSUME work' = work
      PROVE  /\ Yet' \subseteq Yet
             /\ \A id \in TenantIds : Posting(id)' \subseteq Posting(id)
             /\ work'[Main] = work[Main]
  BY <1>2, <1>1, GoroutineEases
<1>3. CASE BeginStopAll \/ StopSteps
  <2>1. /\ work' = work /\ requests' = requests /\ Len(adapters') = Len(adapters)
        /\ phase' = phase \/ ~ Booting'
    <3>1. CASE BeginStopAll \/ EndStopAll
      BY <3>1 DEF BeginStopAll, EndStopAll, Booting
    <3>2. ASSUME NEW id \in TenantIds, StoppedInAll(id)
          PROVE  /\ work' = work /\ requests' = requests /\ Len(adapters') = Len(adapters)
                 /\ phase' = phase \/ ~ Booting'
      BY <3>2 DEF StoppedInAll
    <3>3. ASSUME NEW id \in TenantIds, StopAll(id)
          PROVE  /\ work' = work /\ requests' = requests /\ Len(adapters') = Len(adapters)
                 /\ phase' = phase \/ ~ Booting'
      <4>1. /\ work' = work /\ requests' = requests
            /\ phase' = phase \/ ~ Booting'
        BY <3>3 DEF StopAll, Booting
      <4>2. DOMAIN adapters' = DOMAIN adapters
        BY <3>3 DEF StopAll, Stop, StopEffects
      <4>3. QED
        BY <4>1, <4>2, SameLength
    <3>4. QED
      BY <1>3, <3>1, <3>2, <3>3 DEF StopSteps
  <2>2. phase' = phase => work'[Main] = work[Main]
    BY <2>1
  <2>3. Calm
    BY <2>1, <2>2 DEF Calm
  <2>4. Ahead' = {}
    <3>1. mgr'.holder \in {None, Main}
      <4>1. CASE BeginStopAll
        BY <1>1, <4>1 DEF BeginStopAll, Locks
      <4>2. CASE EndStopAll
        BY <1>1, <4>2 DEF EndStopAll, Locks
      <4>3. ASSUME NEW id \in TenantIds, StopAll(id) \/ StoppedInAll(id)
            PROVE  mgr'.holder \in {None, Main}
        <5>1. phase = "stop" /\ mgr.holder = Main
          BY <4>3 DEF StopAll, StoppedInAll, ServerInv, LockInv, Held
        <5>2. mgr'.holder = mgr.holder
          BY <1>1, <4>3 DEF StopAll, StoppedInAll, Stop, Locks
        <5>3. QED
          BY <5>1, <5>2
      <4>4. QED
        BY <1>3, <4>1, <4>2, <4>3 DEF StopSteps
    <3>2. QED
      BY <1>1, <3>1 DEF Ahead
  <2>5. QED
    BY <1>2, <2>1, <2>3, <2>4 DEF Eases
<1>4. ASSUME NEW n \in DOMAIN adapters,
             Loop(n) \/ LoopHandles(n) \/ handlePBXEvent(n) \/ SendsOnClosed(n)
      PROVE  Eases
  <2>1. UNCHANGED <<work, requests, mgr>> /\ (phase' = phase \/ ~ Booting')
    BY <1>4 DEF Loop, LoopSelects, LoopEnds, LoopHandles, handlePBXEvent, SendsOnClosed,
                Booting
  <2>2. DOMAIN adapters' = DOMAIN adapters
    BY <1>4 DEF Loop, LoopSelects, LoopEnds, LoopHandles, handlePBXEvent, SendsOnClosed
  <2>3. Len(adapters') = Len(adapters)
    BY <2>2, SameLength
  <2>4. QED
    BY <1>2, <2>1, <2>3 DEF Eases, Calm, Ahead
<1>5. ASSUME NEW w \in Workers,
             \/ ListTenants(w) \/ ListFails(w)
             \/ \E row \in Row : updateTenantWrites(w, row)
      PROVE  Eases
  <2>1. /\ UNCHANGED <<phase, requests, mgr, adapters>>
        /\ \E job : /\ work' = [work EXCEPT ![w] = job]
                    /\ job.at # "post"
                    /\ job.at \in {"read", "written", "listed", "invalidate"} =>
                          work[w].at \in {"read", "written", "listed", "invalidate"}
    BY <1>5 DEF ListTenants, ListFails, updateTenantWrites, Idle
  <2>2. /\ Yet' \subseteq Yet
        /\ \A id \in TenantIds : Posting(id)' \subseteq Posting(id)
        /\ work'[Main] = work[Main]
    <3>1. PICK job : /\ work' = [work EXCEPT ![w] = job]
                     /\ job.at # "post"
                     /\ job.at \in {"read", "written", "listed", "invalidate"} =>
                           work[w].at \in {"read", "written", "listed", "invalidate"}
      BY <2>1
    <3>2. w \in Goroutines /\ w # Main
      BY <1>1
    <3>3. QED
      BY <1>1, <3>1, <3>2, GoroutineEases
  <2>3. QED
    BY <2>1, <2>2 DEF Eases, Calm, Ahead
<1>6. ASSUME NEW w \in Workers, StopsTwice(w) \/ UnlockManager(w)
      PROVE  Eases
  <2>1. /\ UNCHANGED <<phase, requests, adapters>> /\ mgr'.holder = None
        /\ work' = [work EXCEPT ![w] = Idle]
    BY <1>1, <1>6 DEF StopsTwice, UnlockManager, Locks
  <2>2. /\ Yet' \subseteq Yet
        /\ \A id \in TenantIds : Posting(id)' \subseteq Posting(id)
        /\ work'[Main] = work[Main]
    <3>1. PICK job : job = Idle
      OBVIOUS
    <3>2. w \in Goroutines /\ w # Main /\ work' = [work EXCEPT ![w] = job]
      BY <1>1, <2>1, <3>1
    <3>3. job.at = "idle"
      BY <3>1 DEF Idle
    <3>4. QED
      BY <1>1, <3>2, <3>3, GoroutineEases
  <2>3. Ahead' = {}
    BY <1>1, <2>1 DEF Ahead
  <2>4. QED
    BY <2>1, <2>2, <2>3 DEF Eases, Calm
<1>7. ASSUME NEW w \in Workers, NEW id \in TenantIds,
             StopTenant(w, id) \/ RemoveTenant(w, id) \/ UpdateTenant(w, id)
      PROVE  Eases
  <2>1. UNCHANGED <<phase, work, requests>>
    BY <1>7 DEF StopTenant, RemoveTenant, UpdateTenant
  <2>2. DOMAIN adapters' = DOMAIN adapters
    BY <1>7 DEF StopTenant, RemoveTenant, UpdateTenant, Stop, StopEffects
  <2>3. Len(adapters') = Len(adapters)
    BY <2>2, SameLength
  <2>4. mgr'.holder = mgr.holder /\ mgr'.todo \subseteq mgr.todo
    <3>1. CASE StopTenant(w, id)
      BY <1>1, <3>1 DEF StopTenant, Stop, Locks
    <3>2. CASE RemoveTenant(w, id)
      BY <1>1, <3>2 DEF RemoveTenant, Locks
    <3>3. CASE UpdateTenant(w, id)
      BY <1>1, <3>3 DEF UpdateTenant, Locks
    <3>4. QED
      BY <1>7, <3>1, <3>2, <3>3
  <2>5. Ahead' \subseteq Ahead
    BY <2>4 DEF Ahead
  <2>6. QED
    BY <1>2, <2>1, <2>3, <2>5 DEF Eases, Calm
<1>8. CASE LoadFails
  <2>1. UNCHANGED <<work, requests, mgr, adapters>> /\ ~ Booting'
    BY <1>8 DEF LoadFails, Booting
  <2>2. QED
    BY <1>2, <2>1 DEF Eases, Calm, Ahead
<1>9. QED
  BY <1>3, <1>4, <1>5, <1>6, <1>7, <1>8

\* The steps of the PBX manager that are not of a request that begins.
LEMMA PbxEases ==
    ASSUME ServerInv, UNCHANGED <<tenantVars, ilinkVars>>,
           \/ ProviderNext
           \/ \E n \in Providers : Reports(n)
           \/ LoadFromDBSystems \/ SystemsLoaded \/ CloseSystems
           \/ \E w \in Goroutines :
                 \/ Connect(w) \/ ConnectsDone(w)
                 \/ \E s \in Systems : GetBicomSystem(w, s) \/ TurnOf(w, s)
           \/ \E w \in Workers : FollowSystems(w)
    PROVE  Eases
<1>1. WorkTypes /\ Main \notin Workers
  BY DEF ServerInv, Process
<1>2. Ahead' = Ahead /\ Len(adapters') = Len(adapters) /\ answered' = answered
  BY DEF Ahead
<1>3. CASE ProviderNext \/ \E n \in Providers : Reports(n)
  <2>1. work' = work /\ requests' = requests /\ (phase' = phase \/ ~ Booting')
    BY <1>3 DEF ProviderNext, Dialled, Reconnected, SubscriptionLost, ReconnectChecks,
                EventArrives, EventSent, Reports, Booting
  <2>2. QED
    BY <1>1, <1>2, <2>1, GoroutineEases DEF Eases, Calm
<1>4. CASE LoadFromDBSystems \/ SystemsLoaded \/ CloseSystems
  <2>1. /\ requests' = requests /\ Calm
        /\ \E job : work' = work \/ work' = [work EXCEPT ![Main] = job]
    BY <1>4 DEF LoadFromDBSystems, SystemsLoaded, CloseSystems, Calm, Booting
  <2>2. QED
    BY <1>1, <1>2, <2>1, GoroutineEases DEF Eases
<1>5. ASSUME NEW w \in Goroutines,
             \/ Connect(w) \/ ConnectsDone(w)
             \/ \E s \in Systems : GetBicomSystem(w, s) \/ TurnOf(w, s)
      PROVE  Eases
  <2>1. work[w].at = "connect" /\ UNCHANGED <<phase, requests>>
    BY <1>5 DEF Connect, ConnectsDone, GetBicomSystem, TurnOf, Connecting
  <2>2. work[w] \in Connects
    BY <1>1, <2>1, Shapes DEF WorkTypes
  <2>3. PICK job : work' = [work EXCEPT ![w] = job] /\ job.at \in {"connect", "idle"}
    <3>1. \A s : Passed(work[w], s).at = "connect"
      BY <2>2 DEF Passed, Connects
    <3>2. ASSUME NEW s
          PROVE  /\ [work[w] EXCEPT !.got = s].at = "connect"
                 /\ [work[w] EXCEPT !.turn = {s}].at = "connect"
      BY <2>2 DEF Connects
    <3>3. CASE Connect(w)
      <4>1. PICK job : job = Passed(work[w], work[w].got)
        OBVIOUS
      <4>2. work' = [work EXCEPT ![w] = job]
        BY <3>3, <4>1 DEF Connect
      <4>3. QED
        BY <3>1, <4>1, <4>2
    <3>4. CASE ConnectsDone(w)
      <4>1. PICK job : job = Idle
        OBVIOUS
      <4>2. work' = [work EXCEPT ![w] = job]
        BY <3>4, <4>1 DEF ConnectsDone
      <4>3. job.at = "idle"
        BY <4>1 DEF Idle
      <4>4. QED
        BY <4>2, <4>3
    <3>5. ASSUME NEW s \in Systems, GetBicomSystem(w, s)
          PROVE  \E job : work' = [work EXCEPT ![w] = job] /\ job.at \in {"connect", "idle"}
      <4>1. PICK job \in {Passed(work[w], s), [work[w] EXCEPT !.got = s]} :
                   work' = [work EXCEPT ![w] = job]
        BY <3>5 DEF GetBicomSystem
      <4>2. QED
        BY <3>1, <3>2, <4>1
    <3>6. ASSUME NEW s \in Systems, TurnOf(w, s)
          PROVE  \E job : work' = [work EXCEPT ![w] = job] /\ job.at \in {"connect", "idle"}
      <4>1. PICK job \in {Passed(work[w], s), [work[w] EXCEPT !.turn = {s}]} :
                   work' = [work EXCEPT ![w] = job]
        BY <3>6 DEF TurnOf
      <4>2. QED
        BY <3>1, <3>2, <4>1
    <3>7. QED
      BY <1>5, <3>3, <3>4, <3>5, <3>6
  <2>4. phase \in Lists => w # Main
    BY <1>1, <2>1 DEF WorkTypes, TenantLists, Lists
  <2>5. QED
    BY <1>1, <1>2, <2>1, <2>3, <2>4, GoroutineEases DEF Eases, Calm
<1>6. ASSUME NEW w \in Workers, FollowSystems(w)
      PROVE  Eases
  <2>1. UNCHANGED <<phase, requests>>
    BY <1>6 DEF FollowSystems
  <2>2. PICK job : job = ConnectList(work[w].enabled, {})
    OBVIOUS
  <2>3. work' = [work EXCEPT ![w] = job]
    BY <1>6, <2>2 DEF FollowSystems
  <2>4. job.at = "connect"
    BY <2>2 DEF ConnectList
  <2>5. /\ Yet' \subseteq Yet
        /\ \A id \in TenantIds : Posting(id)' \subseteq Posting(id)
        /\ work'[Main] = work[Main]
    <3>1. w \in Goroutines /\ w # Main
      BY <1>1
    <3>2. QED
      BY <1>1, <2>3, <2>4, <3>1, GoroutineEases
  <2>6. QED
    BY <1>2, <2>1, <2>5 DEF Eases, Calm
<1>7. QED
  BY <1>3, <1>4, <1>5, <1>6

----------------------------------------------------------------------------
(***************************************************************************)
(* Steps that do: a request begins, a worker takes the lock, opens an      *)
(* adapter, or answers; and the steps of boot.                             *)
(***************************************************************************)

\* A request pays for the list that it may follow, or for its answer.
LEMMA RequestCounts ==
    ASSUME ServerInv, EndpointsInv, Counts, UNCHANGED <<adapters, mgr, answered>>,
           NEW w \in Workers, NEW job, Request(w, job)
    PROVE  Counts'
<1>1. /\ Len(adapters) \in Nat /\ requests \in Nat /\ TenantCount \in Nat
      /\ answered \in [TenantIds -> Nat] /\ WorkTypes
      /\ Cardinality(Ahead) \in Nat /\ IsFiniteSet(Yet) /\ TenantCount' = TenantCount
      /\ Ahead' = Ahead
  <2>1. TenantCount' = TenantCount /\ Ahead' = Ahead
    BY DEF TenantCount, Ahead
  <2>2. QED
    BY <2>1, CountTypes, ListIsShort DEF Counts, RequestsOpen
<1>2. /\ requests' = requests + 1 /\ phase' = phase /\ phase = "serve"
      /\ \A v \in Workers : v # w => work'[v] = work[v]
  BY <1>1 DEF Request, WorkTypes
<1>3. BootOpens'
  BY <1>2 DEF BootOpens
<1>4. RequestsOpen'
  <2>1. Yet' \subseteq Yet \cup {w}
    BY <1>2 DEF Yet
  <2>2. /\ IsFiniteSet(Yet') /\ Cardinality(Yet') \in Nat /\ Cardinality(Yet) \in Nat
        /\ Cardinality(Yet') <= Cardinality(Yet) + 1
    BY <1>1, <2>1, Joins
  <2>3. PICK k \in Nat : k = Cardinality(Yet)
    BY <2>2
  <2>4. /\ TenantCount * Cardinality(Yet') <= TenantCount * (k + 1)
        /\ TenantCount * Cardinality(Yet') \in Nat /\ TenantCount * k \in Nat
        /\ TenantCount * (k + 1) = TenantCount * k + TenantCount
    <3>1. k + 1 \in Nat
      BY <2>3
    <3>2. QED
      BY <1>1, <2>2, <2>3, <3>1, Times, TimesGrows
  <2>5. /\ TenantCount * (3 + requests) \in Nat
        /\ TenantCount * (3 + requests') = TenantCount * (3 + requests) + TenantCount
    <3>1. 3 + requests \in Nat /\ 3 + requests' = (3 + requests) + 1
      BY <1>1, <1>2
    <3>2. QED
      BY <1>1, <3>1, Times
  <2>6. Len(adapters) + TenantCount * k + Cardinality(Ahead) <= TenantCount * (3 + requests)
    BY <2>3 DEF Counts, RequestsOpen
  <2>7. Len(adapters) + TenantCount * Cardinality(Yet') + Cardinality(Ahead)
           <= TenantCount * (3 + requests')
    <3>1. PICK before : before = TenantCount * (3 + requests)
      OBVIOUS
    <3>2. PICK after : after = TenantCount * (3 + requests')
      OBVIOUS
    <3>3. PICK paid : paid = TenantCount * k
      OBVIOUS
    <3>4. PICK owed : owed = TenantCount * Cardinality(Yet')
      OBVIOUS
    <3>5. /\ before \in Nat /\ after = before + TenantCount
          /\ paid \in Nat /\ owed \in Nat /\ owed <= paid + TenantCount
      BY <2>4, <2>5, <3>1, <3>2, <3>3, <3>4, Zenon
    <3>6. Len(adapters) + paid + Cardinality(Ahead) <= before
      BY <2>6, <3>1, <3>3
    <3>7. Len(adapters) + owed + Cardinality(Ahead) <= after
      BY <1>1, <3>5, <3>6
    <3>8. QED
      BY <3>2, <3>4, <3>7
  <2>8. QED
    BY <1>1, <2>2, <2>7 DEF RequestsOpen
<1>5. RequestsAnswer'
  <2>1. ASSUME NEW id \in TenantIds
        PROVE  /\ IsFiniteSet(Posting(id)')
               /\ answered'[id] + Cardinality(Posting(id)') <= requests'
    <3>1. Posting(id)' \subseteq Posting(id) \cup {w}
      BY <1>2 DEF Posting
    <3>2. /\ IsFiniteSet(Posting(id))
          /\ answered[id] + Cardinality(Posting(id)) <= requests
      BY DEF Counts, RequestsAnswer
    <3>3. /\ IsFiniteSet(Posting(id)') /\ Cardinality(Posting(id)') \in Nat
          /\ Cardinality(Posting(id)) \in Nat
          /\ Cardinality(Posting(id)') <= Cardinality(Posting(id)) + 1
      BY <3>1, <3>2, Joins
    <3>4. answered'[id] = answered[id] /\ answered[id] \in Nat
      BY <1>1
    <3>5. QED
      BY <1>1, <1>2, <3>2, <3>3, <3>4
  <2>2. QED
    BY <2>1 DEF RequestsAnswer
<1>6. QED
  BY <1>3, <1>4, <1>5 DEF Counts

\* A worker that takes the lock has a list of at most all tenants, for which it had paid.
LEMMA LockCounts ==
    ASSUME ServerInv, EndpointsInv, Counts, answered' = answered,
           NEW w \in Workers, LockManager(w)
    PROVE  Counts'
<1>1. /\ Len(adapters) \in Nat /\ requests \in Nat /\ TenantCount \in Nat
      /\ WorkTypes /\ IsFiniteSet(Yet) /\ TenantCount' = TenantCount
      /\ mgr \in Locks
  <2>1. TenantCount' = TenantCount
    BY DEF TenantCount
  <2>2. QED
    BY <2>1, CountTypes DEF Counts, RequestsOpen
<1>2. /\ UNCHANGED <<phase, requests, adapters>> /\ mgr.holder = None
      /\ work[w].at \in {"listed", "invalidate"}
  BY DEF LockManager
<1>3. PICK job : job = [work[w] EXCEPT !.at = "follow"]
  OBVIOUS
<1>4. job.at = "follow" /\ work' = [work EXCEPT ![w] = job]
  <2>1. work[w] \in Reloads
    BY <1>1, <1>2, Shapes DEF WorkTypes
  <2>2. QED
    BY <1>3, <2>1 DEF LockManager, Reloads
<1>5. /\ \A v \in Workers : v # w => work'[v] = work[v]
      /\ work'[w].at = "follow" /\ work'[Main] = work[Main]
  BY <1>1, <1>4 DEF WorkTypes
<1>6. BootOpens'
  BY <1>1, <1>2, <1>5 DEF Counts, BootOpens
<1>7. RequestsOpen'
  <2>1. w \in Yet /\ Yet' \subseteq Yet \ {w}
    BY <1>2, <1>5 DEF Yet
  <2>2. /\ IsFiniteSet(Yet') /\ Cardinality(Yet') \in Nat /\ Cardinality(Yet) \in Nat
        /\ Cardinality(Yet') + 1 <= Cardinality(Yet)
    BY <1>1, <2>1, Leaves
  <2>3. PICK k \in Nat : k = Cardinality(Yet')
    BY <2>2
  <2>4. /\ TenantCount * (k + 1) <= TenantCount * Cardinality(Yet)
        /\ TenantCount * Cardinality(Yet) \in Nat /\ TenantCount * k \in Nat
        /\ TenantCount * (k + 1) = TenantCount * k + TenantCount
    <3>1. k + 1 \in Nat
      BY <2>3
    <3>2. QED
      BY <1>1, <2>2, <2>3, <3>1, Times, TimesGrows
  <2>5. mgr'.holder = w /\ mgr'.todo \subseteq TenantIds
    <3>1. PICK T : T = {id \in work[w].only : tenants[id] # None \/ Wanted(work[w].snap, id)}
      OBVIOUS
    <3>2. mgr' = [mgr EXCEPT !.holder = w, !.todo = T]
      BY <3>1 DEF LockManager
    <3>3. work[w] \in Reloads
      BY <1>1, <1>2, Shapes DEF WorkTypes
    <3>4. T \subseteq TenantIds
      BY <3>1, <3>3 DEF Reloads
    <3>5. QED
      BY <1>1, <3>2, <3>4 DEF Locks
  <2>6. Cardinality(Ahead') \in Nat /\ Cardinality(Ahead') <= TenantCount
    <3>1. Ahead' \subseteq TenantIds
      BY <2>5 DEF Ahead
    <3>2. QED
      BY <3>1, ListIsShort
  <2>7. Ahead = {} /\ Cardinality(Ahead) = 0
    <3>1. Ahead = {}
      BY <1>2 DEF Ahead
    <3>2. QED
      BY <3>1, FS_EmptySet
  <2>8. TenantCount * (3 + requests) \in Nat
    BY <1>1, Times
  <2>9. Len(adapters) + TenantCount * Cardinality(Yet) <= TenantCount * (3 + requests)
    BY <1>1, <2>4, <2>7 DEF Counts, RequestsOpen
  <2>10. Len(adapters) + TenantCount * k + Cardinality(Ahead') <= TenantCount * (3 + requests)
    BY <1>1, <2>4, <2>6, <2>8, <2>9
  <2>11. QED
    BY <1>1, <1>2, <2>2, <2>3, <2>10 DEF RequestsOpen
<1>8. RequestsAnswer'
  <2>1. ASSUME NEW id \in TenantIds
        PROVE  Posting(id)' = Posting(id)
    BY <1>2, <1>5 DEF Posting
  <2>2. QED
    BY <1>2, <2>1 DEF Counts, RequestsAnswer
<1>9. QED
  BY <1>6, <1>7, <1>8 DEF Counts

\* An adapter that a reload opens is that of a tenant which is then off the list.
LEMMA ReplaceCounts ==
    ASSUME ServerInv, EndpointsInv, Counts, answered' = answered,
           NEW w \in Workers, NEW id \in TenantIds, NEW outcome \in Outcomes,
           RestartTenant(w, id, outcome) \/ StartTenant(w, id, outcome)
    PROVE  Counts'
<1>1. /\ Len(adapters) \in Nat /\ requests \in Nat /\ TenantCount \in Nat
      /\ TenantCount' = TenantCount /\ mgr \in Locks
  <2>1. TenantCount' = TenantCount
    BY DEF TenantCount
  <2>2. QED
    BY <2>1, CountTypes
<1>2. /\ UNCHANGED <<phase, work, requests>>
      /\ mgr.holder = w /\ work[w].at = "follow"
      /\ mgr' = [mgr EXCEPT !.stopping = None, !.todo = @ \ {id}]
      /\ Len(adapters') = Len(adapters) + 1
  <2>1. /\ Replace(w, id, outcome) /\ mgr.holder = w /\ work[w].at = "follow"
    BY DEF RestartTenant, StartTenant, At, Stopped
  <2>2. PICK r : adapters' = Append(adapters, r)
    BY <2>1 DEF Replace, Start
  <2>3. Len(adapters') = Len(adapters) + 1
    BY <2>2 DEF ServerInv, TenantsInv, Objects, ObjectTypes
  <2>4. QED
    BY <2>1, <2>3 DEF Replace
<1>3. id \in mgr.todo
  BY DEF RestartTenant, StartTenant, At, Stopped, ServerInv, LockInv, Held
<1>4. ~ Booting
  BY <1>2 DEF ServerInv, LockInv, Quiet, Idle
<1>5. BootOpens'
  BY <1>2, <1>4 DEF BootOpens, Booting
<1>6. Yet' = Yet /\ \A t \in TenantIds : Posting(t)' = Posting(t)
  BY <1>2 DEF Yet, Posting
<1>7. RequestsAnswer'
  BY <1>2, <1>6 DEF Counts, RequestsAnswer
<1>8. RequestsOpen'
  <2>1. mgr'.holder = w /\ mgr'.todo = mgr.todo \ {id} /\ mgr.todo \subseteq TenantIds
    BY <1>1, <1>2 DEF Locks
  <2>2. Ahead = mgr.todo /\ Ahead' = mgr.todo \ {id}
    BY <1>2, <2>1 DEF Ahead
  <2>3. Cardinality(Ahead') = Cardinality(Ahead) - 1 /\ Cardinality(Ahead) \in Nat
    BY <1>3, <2>1, <2>2, ListShrinks, ListIsShort
  <2>4. Cardinality(Yet) \in Nat /\ IsFiniteSet(Yet)
    BY FS_CardinalityType DEF Counts, RequestsOpen
  <2>5. TenantCount * Cardinality(Yet) \in Nat /\ TenantCount * (3 + requests) \in Nat
    BY <1>1, <2>4, Times
  <2>6. Len(adapters) + TenantCount * Cardinality(Yet) + Cardinality(Ahead)
           <= TenantCount * (3 + requests)
    BY DEF Counts, RequestsOpen
  <2>7. Len(adapters') + TenantCount * Cardinality(Yet) + Cardinality(Ahead')
           <= TenantCount * (3 + requests)
    BY <1>1, <1>2, <2>3, <2>5, <2>6
  <2>8. QED
    BY <1>1, <1>2, <1>6, <2>4, <2>7 DEF RequestsOpen
<1>9. QED
  BY <1>5, <1>7, <1>8 DEF Counts

\* An answer pays for itself.
LEMMA AnswerCounts ==
    ASSUME ServerInv, ServerInv', EndpointsInv, Counts, NEW w \in Workers, handleSet(w)
    PROVE  Counts'
<1>1. /\ WorkTypes /\ requests \in Nat /\ answered \in [TenantIds -> Nat]
      /\ Main \notin Workers
  BY CountTypes
<1>2. /\ UNCHANGED <<phase, requests, mgr>>
      /\ work[w].at = "post" /\ work' = [work EXCEPT ![w] = Idle]
      /\ answered' = [answered EXCEPT ![work[w].id] = @ + 1]
  BY DEF handleSet
<1>3. PICK t : t = work[w].id
  OBVIOUS
<1>4. t \in TenantIds
  <2>1. work[w] \in Posts
    BY <1>1, <1>2, Shapes DEF WorkTypes
  <2>2. QED
    BY <1>3, <2>1 DEF Posts
<1>5. Len(adapters') = Len(adapters)
  <2>1. DOMAIN adapters' = DOMAIN adapters
    BY DEF handleSet, Enqueued
  <2>2. QED
    BY <2>1, SameLength
<1>6. /\ \A v \in Workers : v # w => work'[v] = work[v]
      /\ work'[w].at = "idle" /\ work'[Main] = work[Main]
  BY <1>1, <1>2 DEF WorkTypes, Idle
<1>7. Ahead' = Ahead /\ Yet' = Yet /\ TenantCount' = TenantCount
  BY <1>2, <1>6 DEF Ahead, Yet, TenantCount
<1>8. BootOpens'
  BY <1>2, <1>5, <1>6, <1>7 DEF Counts, BootOpens
<1>9. RequestsOpen'
  BY <1>2, <1>5, <1>7 DEF Counts, RequestsOpen
<1>10. RequestsAnswer'
  <2>1. ASSUME NEW id \in TenantIds
        PROVE  /\ IsFiniteSet(Posting(id)')
               /\ answered'[id] + Cardinality(Posting(id)') <= requests'
    <3>1. /\ IsFiniteSet(Posting(id))
          /\ answered[id] + Cardinality(Posting(id)) <= requests
      BY DEF Counts, RequestsAnswer
    <3>2. CASE id = t
      <4>1. w \in Posting(id) /\ Posting(id)' \subseteq Posting(id) \ {w}
        BY <1>2, <1>3, <1>6, <3>2 DEF Posting
      <4>2. /\ IsFiniteSet(Posting(id)') /\ Cardinality(Posting(id)') \in Nat
            /\ Cardinality(Posting(id)) \in Nat
            /\ Cardinality(Posting(id)') + 1 <= Cardinality(Posting(id))
        BY <3>1, <4>1, Leaves
      <4>3. answered'[id] = answered[id] + 1 /\ answered[id] \in Nat
        BY <1>1, <1>2, <1>3, <3>2
      <4>4. QED
        BY <1>1, <1>2, <3>1, <4>2, <4>3
    <3>3. CASE id # t
      <4>1. Posting(id)' = Posting(id)
        BY <1>2, <1>3, <1>6, <3>3 DEF Posting
      <4>2. answered'[id] = answered[id]
        BY <1>1, <1>2, <1>3, <3>3
      <4>3. QED
        BY <1>2, <3>1, <4>1, <4>2
    <3>4. QED
      BY <3>2, <3>3
  <2>2. QED
    BY <2>1 DEF RequestsAnswer
<1>11. QED
  BY <1>8, <1>9, <1>10 DEF Counts

\* While the process boots there are no requests: what has been opened is within what boot may open.
LEMMA BootCounts ==
    ASSUME ServerInv, EndpointsInv, Counts, Booting, UNCHANGED <<mgr, requests, answered>>,
           NEW job, work' = work \/ work' = [work EXCEPT ![Main] = job],
           Len(adapters') \in Nat, Len(adapters') <= 3 * TenantCount, BootOpens'
    PROVE  Counts'
<1>1. /\ \A v \in Workers : work[v] = Idle /\ work'[v] = work[v]
      /\ mgr.holder = None
  BY DEF ServerInv, LockInv, Quiet, Process, WorkTypes
<1>2. Yet' = {} /\ Ahead' = {} /\ TenantCount' = TenantCount
  BY <1>1 DEF Yet, Ahead, Idle, TenantCount
<1>3. \A id \in TenantIds : Posting(id)' = Posting(id)
  BY <1>1 DEF Posting
<1>4. RequestsAnswer'
  BY <1>3 DEF Counts, RequestsAnswer
<1>5. RequestsOpen'
  <2>1. /\ IsFiniteSet(Yet') /\ Cardinality(Yet') = 0 /\ Cardinality(Ahead') = 0
    BY <1>2, FS_EmptySet
  <2>2. TenantCount \in Nat /\ requests \in Nat
    BY CountTypes
  <2>3. TenantCount * 3 <= TenantCount * (3 + requests) /\ TenantCount * 0 = 0
    <3>1. 3 \in Nat /\ 3 + requests \in Nat /\ 3 <= 3 + requests
      BY <2>2
    <3>2. QED
      BY <2>2, <3>1, TimesGrows
  <2>4. TenantCount * (3 + requests) \in Nat
    BY <2>2, Times
  <2>5. Len(adapters') + TenantCount * 0 + 0 <= TenantCount * (3 + requests)
    BY <2>2, <2>3, <2>4
  <2>6. QED
    BY <1>2, <2>1, <2>5 DEF RequestsOpen
<1>6. QED
  BY <1>4, <1>5 DEF Counts

\* main makes a list of tenants, or has come to the end of one.
LEMMA ListCounts ==
    ASSUME ServerInv, EndpointsInv, Counts, UNCHANGED <<tenantVars, ilinkVars>>,
           LoadFromDB \/ BeginStartAll \/ BuildRouter \/ ListenAndServe
    PROVE  Counts'
<1>1. /\ Len(adapters) \in Nat /\ TenantCount \in Nat /\ WorkTypes
      /\ phase \in Lists => work[Main] \in TenantLists
  BY CountTypes
<1>2. TenantCount' = TenantCount /\ Len(adapters') = Len(adapters)
  BY DEF TenantCount
<1>3. ASSUME NEW next, NEW todo \in SUBSET TenantIds, MainGoes(next, todo), Booting,
             \/ next = "tenants" /\ Len(adapters) = 0
             \/ next = "start" /\ Len(adapters) <= TenantCount
             \/ next = "routes" /\ Len(adapters) <= 2 * TenantCount
      PROVE  Counts'
  <2>1. PICK job : job = [at |-> "main", todo |-> todo]
    OBVIOUS
  <2>2. /\ phase' = next /\ requests' = requests /\ work' = [work EXCEPT ![Main] = job]
        /\ work'[Main].todo = todo
    BY <1>1, <1>3, <2>1 DEF MainGoes, WorkTypes
  <2>3. Cardinality(todo) \in Nat /\ Cardinality(todo) <= TenantCount
    BY ListIsShort
  <2>4. BootOpens'
    BY <1>1, <1>2, <1>3, <2>2, <2>3 DEF BootOpens
  <2>5. Len(adapters') \in Nat /\ Len(adapters') <= 3 * TenantCount
    BY <1>1, <1>2, <1>3
  <2>6. QED
    BY <1>3, <2>2, <2>4, <2>5, BootCounts
<1>4. CASE LoadFromDB
  <2>1. PICK T : T = {id \in TenantIds : Wanted(rows, id)}
    OBVIOUS
  <2>2. T \in SUBSET TenantIds /\ MainGoes("tenants", T) /\ phase = "load"
    BY <1>4, <2>1 DEF LoadFromDB
  <2>3. Len(adapters) = 0 /\ Booting
    BY <2>2 DEF Counts, BootOpens, Booting
  <2>4. QED
    BY <1>3, <2>2, <2>3
<1>5. ASSUME NEW T, T \in SUBSET TenantIds, phase \in Lists, work[Main].todo = T
      PROVE  Cardinality(T) \in Nat /\ (T = {} => Cardinality(T) = 0)
  BY <1>5, ListIsShort, FS_EmptySet
<1>6. CASE BeginStartAll
  <2>1. Loaded \in SUBSET TenantIds /\ MainGoes("start", Loaded) /\ phase = "tenants"
        /\ work[Main].todo = {}
    BY <1>6 DEF BeginStartAll, Loaded
  <2>2. Len(adapters) <= TenantCount /\ Booting
    BY <1>1, <2>1, FS_EmptySet DEF Counts, BootOpens, Booting
  <2>3. QED
    BY <1>3, <2>1, <2>2
<1>7. CASE BuildRouter
  <2>1. PICK T : T = {id \in TenantIds : SpeaksILink(id)}
    OBVIOUS
  <2>2. T \in SUBSET TenantIds /\ MainGoes("routes", T) /\ phase = "start"
        /\ work[Main].todo = {}
    BY <1>7, <2>1 DEF BuildRouter
  <2>3. Len(adapters) <= 2 * TenantCount /\ Booting
    BY <1>1, <2>2, FS_EmptySet DEF Counts, BootOpens, Booting
  <2>4. QED
    BY <1>3, <2>2, <2>3
<1>8. CASE ListenAndServe
  <2>1. /\ phase = "routes" /\ phase' = "serve" /\ work' = work /\ requests' = requests
        /\ work[Main].todo = {}
    BY <1>8 DEF ListenAndServe
  <2>2. Len(adapters) <= 3 * TenantCount /\ Booting
    BY <1>1, <2>1, FS_EmptySet DEF Counts, BootOpens, Booting
  <2>3. BootOpens'
    BY <2>1 DEF BootOpens
  <2>4. Len(adapters') \in Nat /\ Len(adapters') <= 3 * TenantCount
    BY <1>1, <1>2, <2>2
  <2>5. QED
    BY <2>1, <2>2, <2>3, <2>4, BootCounts
<1>9. QED
  BY <1>4, <1>6, <1>7, <1>8

\* main opens an adapter for the tenant that it takes off its list.
LEMMA OpenCounts ==
    ASSUME ServerInv, EndpointsInv, Counts, NEW id \in TenantIds,
           \/ RegisterTenant(id)
           \/ /\ answered' = answered
              /\ \E outcome \in Outcomes : LoadTenant(id, outcome) \/ StartAll(id, outcome)
    PROVE  Counts'
<1>1. /\ Len(adapters) \in Nat /\ TenantCount \in Nat /\ WorkTypes
      /\ phase \in Lists => work[Main] \in TenantLists
  BY CountTypes
<1>2. /\ phase \in Lists /\ phase' \in {phase, "fatal"} /\ id \in work[Main].todo
      /\ UNCHANGED <<requests, mgr, answered>>
      /\ work' = [work EXCEPT ![Main].todo = @ \ {id}]
  BY DEF RegisterTenant, LoadTenant, StartAll, Lists
<1>3. Len(adapters') = Len(adapters) + 1
  <2>1. PICK r : adapters' = Append(adapters, r)
    BY DEF RegisterTenant, LoadTenant, StartAll, Start
  <2>2. QED
    BY <2>1 DEF ServerInv, TenantsInv, Objects, ObjectTypes
<1>4. PICK job : job = [work[Main] EXCEPT !.todo = @ \ {id}]
  OBVIOUS
<1>5. /\ work' = [work EXCEPT ![Main] = job] /\ work[Main] \in TenantLists
      /\ work'[Main].todo = work[Main].todo \ {id}
  <2>1. work[Main] \in TenantLists
    BY <1>1, <1>2
  <2>2. job.todo = work[Main].todo \ {id}
    BY <1>4, <2>1 DEF TenantLists
  <2>3. work' = [work EXCEPT ![Main] = job]
    BY <1>2, <1>4
  <2>4. work'[Main] = job
    BY <1>1, <2>3 DEF WorkTypes
  <2>5. QED
    BY <2>1, <2>2, <2>3, <2>4
<1>6. /\ Cardinality(work'[Main].todo) = Cardinality(work[Main].todo) - 1
      /\ Cardinality(work[Main].todo) \in Nat
  BY <1>2, <1>5, ListShrinks, ListIsShort DEF TenantLists
<1>7. TenantCount' = TenantCount /\ Booting
  BY <1>2 DEF TenantCount, Booting, Lists
<1>8. PICK n : n = Cardinality(work[Main].todo)
  OBVIOUS
<1>9. n \in Nat /\ n # 0
  BY <1>2, <1>5, <1>6, <1>8, ListIsShort, FS_EmptySet DEF TenantLists
<1>10. Len(adapters') + Cardinality(work'[Main].todo) = Len(adapters) + n
  BY <1>1, <1>3, <1>6, <1>8
<1>11. /\ phase = "tenants" => Len(adapters) + n <= TenantCount
       /\ phase = "start" => Len(adapters) + n <= 2 * TenantCount
       /\ phase = "routes" => Len(adapters) + n <= 3 * TenantCount
  BY <1>8 DEF Counts, BootOpens
<1>12. BootOpens'
  BY <1>2, <1>7, <1>10, <1>11 DEF BootOpens, Lists
<1>13. Len(adapters') \in Nat /\ Len(adapters') <= 3 * TenantCount
  <2>1. Len(adapters) + n <= 3 * TenantCount
    BY <1>1, <1>2, <1>9, <1>11 DEF Lists
  <2>2. QED
    BY <1>1, <1>3, <1>9, <2>1
<1>14. QED
  BY <1>2, <1>5, <1>7, <1>12, <1>13, BootCounts

----------------------------------------------------------------------------
(* Every step keeps the accounts *)

\* A request begins that may want the tenants to be followed.
LEMMA TenantRequestCounts ==
    ASSUME ServerInv, EndpointsInv, Counts, UNCHANGED ilinkVars,
           NEW w \in Workers, NEW id \in TenantIds,
           \/ updateTenantReads(w, id) \/ deleteTenant(w, id) \/ importTenants(w, id)
           \/ \E cfg \in Configs : createTenant(w, id, cfg)
    PROVE  Counts'
<1>1. UNCHANGED <<adapters, mgr, answered>>
  BY DEF updateTenantReads, deleteTenant, importTenants, createTenant
<1>2. \E job : Request(w, job)
  BY DEF updateTenantReads, deleteTenant, importTenants, createTenant
<1>3. PICK job : Request(w, job)
  BY <1>2
<1>4. QED
  BY <1>1, <1>3, RequestCounts

\* The steps of the tenant manager.
LEMMA TenantCounts ==
    ASSUME ServerInv, ServerInv', EndpointsInv, Counts, TenantNext,
           UNCHANGED <<ilinkVars, pbxVars>>
    PROVE  Counts'
<1>1. answered' = answered /\ UNCHANGED ilinkVars
  OBVIOUS
<1>2. CASE LoadFromDB \/ BeginStartAll
  <2>1. UNCHANGED <<tenantVars, ilinkVars>>
    BY <1>2 DEF LoadFromDB, BeginStartAll
  <2>2. QED
    BY <1>2, <2>1, ListCounts
<1>3. CASE LoadFails \/ BeginStopAll \/ StopSteps
  BY <1>1, <1>3, TenantEases, EasesKeeps
<1>4. ASSUME NEW id \in TenantIds, NEW outcome \in Outcomes,
             LoadTenant(id, outcome) \/ StartAll(id, outcome)
      PROVE  Counts'
  BY <1>1, <1>4, OpenCounts
<1>5. ASSUME NEW n \in DOMAIN adapters,
             Loop(n) \/ LoopHandles(n) \/ handlePBXEvent(n) \/ SendsOnClosed(n)
      PROVE  Counts'
  BY <1>1, <1>5, TenantEases, EasesKeeps
<1>6. ASSUME NEW w \in Workers,
             \/ ListTenants(w) \/ ListFails(w) \/ StopsTwice(w) \/ UnlockManager(w)
             \/ \E row \in Row : updateTenantWrites(w, row)
             \/ \E id \in TenantIds :
                   StopTenant(w, id) \/ RemoveTenant(w, id) \/ UpdateTenant(w, id)
      PROVE  Counts'
  <2>1. Eases
    BY <1>1, <1>6, TenantEases
  <2>2. QED
    BY <2>1, EasesKeeps
<1>7. ASSUME NEW w \in Workers, LockManager(w)
      PROVE  Counts'
  BY <1>1, <1>7, LockCounts
<1>8. ASSUME NEW w \in Workers, NEW id \in TenantIds, NEW outcome \in Outcomes,
             RestartTenant(w, id, outcome) \/ StartTenant(w, id, outcome)
      PROVE  Counts'
  BY <1>1, <1>8, ReplaceCounts
<1>9. ASSUME NEW w \in Workers, NEW id \in TenantIds,
             \/ updateTenantReads(w, id) \/ deleteTenant(w, id) \/ importTenants(w, id)
             \/ \E cfg \in Configs : createTenant(w, id, cfg)
      PROVE  Counts'
  BY <1>1, <1>9, TenantRequestCounts
<1>10. CASE LoadFromDB \/ LoadFails \/ BeginStartAll \/ BeginStopAll \/ StopSteps
  BY <1>2, <1>3, <1>10
<1>11. CASE \E id \in TenantIds, outcome \in Outcomes :
               LoadTenant(id, outcome) \/ StartAll(id, outcome)
  BY <1>4, <1>11
<1>12. CASE \E n \in DOMAIN adapters :
               Loop(n) \/ LoopHandles(n) \/ handlePBXEvent(n) \/ SendsOnClosed(n)
  BY <1>5, <1>12
<1>13. ASSUME NEW w \in Workers,
              \/ ReloadSteps(w) \/ ListFails(w)
              \/ \E row \in Row : updateTenantWrites(w, row)
              \/ \E id \in TenantIds :
                  \/ updateTenantReads(w, id) \/ deleteTenant(w, id) \/ importTenants(w, id)
                  \/ \E cfg \in Configs : createTenant(w, id, cfg)
       PROVE  Counts'
  <2>1. CASE ReloadSteps(w)
    <3>1. CASE ListTenants(w) \/ LockManager(w) \/ StopsTwice(w) \/ UnlockManager(w)
      BY <1>6, <1>7, <3>1
    <3>2. ASSUME NEW id \in TenantIds,
                 \/ StopTenant(w, id) \/ RemoveTenant(w, id) \/ UpdateTenant(w, id)
                 \/ \E outcome \in Outcomes :
                       RestartTenant(w, id, outcome) \/ StartTenant(w, id, outcome)
          PROVE  Counts'
      BY <1>6, <1>8, <3>2
    <3>3. QED
      BY <2>1, <3>1, <3>2 DEF ReloadSteps
  <2>2. CASE ListFails(w) \/ \E row \in Row : updateTenantWrites(w, row)
    BY <1>6, <2>2
  <2>3. CASE \E id \in TenantIds :
                \/ updateTenantReads(w, id) \/ deleteTenant(w, id) \/ importTenants(w, id)
                \/ \E cfg \in Configs : createTenant(w, id, cfg)
    BY <1>9, <2>3
  <2>4. QED
    BY <1>13, <2>1, <2>2, <2>3
<1>14. QED
  BY <1>10, <1>11, <1>12, <1>13 DEF TenantNext

\* The steps of the iLink endpoints.
LEMMA ILinkCounts ==
    ASSUME ServerInv, ServerInv', EndpointsInv, Counts, ILinkNext
    PROVE  Counts'
<1>1. CASE BuildRouter \/ ListenAndServe
  <2>1. UNCHANGED <<tenantVars, ilinkVars>>
    BY <1>1 DEF BuildRouter, ListenAndServe
  <2>2. QED
    BY <1>1, <2>1, ListCounts
<1>2. ASSUME NEW id \in TenantIds, RegisterTenant(id)
      PROVE  Counts'
  BY <1>2, OpenCounts
<1>3. ASSUME NEW w \in Workers, handleSet(w)
      PROVE  Counts'
  BY <1>3, AnswerCounts
<1>4. ASSUME NEW w \in Workers, NEW id \in TenantIds,
             createTenantToken(w, id) \/ revokeTenantToken(w, id) \/ resolveAndAuth(w, id)
      PROVE  Counts'
  <2>1. UNCHANGED <<adapters, mgr, answered>>
    BY <1>4 DEF createTenantToken, revokeTenantToken, resolveAndAuth
  <2>2. \E job : Request(w, job)
    BY <1>4 DEF createTenantToken, revokeTenantToken, resolveAndAuth
  <2>3. PICK job : Request(w, job)
    BY <2>2
  <2>4. QED
    BY <2>1, <2>3, RequestCounts
<1>5. QED
  BY <1>1, <1>2, <1>3, <1>4 DEF ILinkNext

\* The steps of the PBX manager.
LEMMA PbxCounts ==
    ASSUME ServerInv, EndpointsInv, Counts, PbxNext, UNCHANGED <<tenantVars, ilinkVars>>
    PROVE  Counts'
<1>1. ASSUME NEW w \in Workers,
             \/ ReloadSystems(w)
             \/ \E s \in Systems :
                   \/ ReloadSystem(w, s)
                   \/ \E state \in SystemRows : WriteSystem(w, s, state)
      PROVE  Counts'
  <2>1. \E job : Request(w, job)
    BY <1>1 DEF ReloadSystems, ReloadSystem, WriteSystem
  <2>2. PICK job : Request(w, job)
    BY <2>1
  <2>3. UNCHANGED <<adapters, mgr, answered>>
    OBVIOUS
  <2>4. QED
    BY <2>2, <2>3, RequestCounts
<1>2. ASSUME \/ ProviderNext
             \/ \E n \in Providers : Reports(n)
             \/ LoadFromDBSystems \/ SystemsLoaded \/ CloseSystems
             \/ \E w \in Goroutines :
                   \/ Connect(w) \/ ConnectsDone(w)
                   \/ \E s \in Systems : GetBicomSystem(w, s) \/ TurnOf(w, s)
             \/ \E w \in Workers : FollowSystems(w)
      PROVE  Counts'
  BY <1>2, PbxEases, EasesKeeps
<1>3. ASSUME NEW w \in Workers,
             \/ ReloadSystems(w) \/ FollowSystems(w)
             \/ \E s \in Systems :
                 \/ ReloadSystem(w, s)
                 \/ \E state \in SystemRows : WriteSystem(w, s, state)
      PROVE  Counts'
  BY <1>1, <1>2, <1>3
<1>4. QED
  BY <1>2, <1>3 DEF PbxNext

\* No step breaks the accounts.
LEMMA CountsStep ==
    ASSUME ServerInv, ServerInv', EndpointsInv, Counts, [Next]_vars
    PROVE  Counts'
<1>1. CASE UNCHANGED vars
  <2>1. /\ UNCHANGED <<phase, work, requests, adapters, mgr, answered>>
    BY <1>1 DEF vars
  <2>2. Eases
    BY <2>1 DEF Eases, Yet, Ahead, Posting, Calm
  <2>3. QED
    BY <2>2, EasesKeeps
<1>2. CASE Next
  BY <1>2, TenantCounts, ILinkCounts, PbxCounts DEF Next
<1>3. QED
  BY <1>1, <1>2

----------------------------------------------------------------------------
(* What the loops have selected on *)

\* No adapter is opened: a loop goes on where it was, or has one that there is.
LEMMA SelectedInPlace ==
    ASSUME ServerInv, ServerInv', Selected, DOMAIN adapters' = DOMAIN adapters,
           \A n \in DOMAIN adapters :
               adapters'[n].on = adapters[n].on \/ adapters'[n].on \in DOMAIN adapters
    PROVE  Selected'
<1>1. Len(adapters') = Len(adapters)
  BY SameLength
<1>2. DOMAIN adapters = 1..Len(adapters) /\ Len(adapters) \in Nat
  BY DEF ServerInv, TenantsInv, Objects, ObjectTypes
<1>3. QED
  BY <1>1, <1>2 DEF Selected

\* Nothing is done to the adapters.
LEMMA SelectedSame == ASSUME Selected, adapters' = adapters PROVE Selected'
BY DEF Selected

\* One is opened, and its loop, if it has one, has yet to select.
LEMMA SelectedOpens ==
    ASSUME ServerInv, Selected, NEW r, r.on = 0, adapters' = Append(adapters, r)
    PROVE  Selected'
<1>1. adapters \in Seq(LinkType) /\ Len(adapters) \in Nat
  BY DEF ServerInv, TenantsInv, Objects, ObjectTypes
<1>2. \A n \in DOMAIN adapters : adapters[n].on \in Nat
  <2>1. \A n \in DOMAIN adapters : adapters[n] \in LinkType
    BY <1>1
  <2>2. QED
    BY <2>1 DEF LinkType
<1>3. /\ DOMAIN adapters = 1..Len(adapters) /\ Len(adapters') = Len(adapters) + 1
      /\ DOMAIN adapters' = 1..(Len(adapters) + 1) /\ adapters'[Len(adapters) + 1] = r
      /\ \A n \in DOMAIN adapters : adapters'[n] = adapters[n]
  BY <1>1
<1>4. ASSUME NEW n \in DOMAIN adapters' PROVE adapters'[n].on <= Len(adapters')
  <2>1. CASE n \in DOMAIN adapters
    BY <1>1, <1>2, <1>3, <2>1 DEF Selected
  <2>2. CASE n \notin DOMAIN adapters
    <3>1. n = Len(adapters) + 1
      BY <1>1, <1>3, <1>4, <2>2
    <3>2. QED
      BY <1>1, <1>3, <3>1
  <2>3. QED
    BY <2>1, <2>2
<1>5. QED
  BY <1>4 DEF Selected

\* A Start does so.
LEMMA StartSelects ==
    ASSUME ServerInv, Selected, NEW id, NEW obj, NEW cfg, NEW outcome, Start(id, obj, cfg, outcome)
    PROVE  Selected'
<1>1. PICK r : r = Created(id, obj, cfg, outcome)
  OBVIOUS
<1>2. r.on = 0
  BY <1>1 DEF Created
<1>3. adapters' = Append(adapters, r)
  BY <1>1 DEF Start
<1>4. QED
  BY <1>2, <1>3, SelectedOpens

\* A loop selects on the last adapter of its own object.
LEMMA LoopSelected ==
    ASSUME ServerInv, ServerInv', Selected, NEW n \in DOMAIN adapters,
           Loop(n) \/ LoopHandles(n) \/ handlePBXEvent(n) \/ SendsOnClosed(n)
    PROVE  Selected'
<1>1. /\ Objects /\ adapters \in Seq(LinkType)
      /\ \A k \in DOMAIN adapters : adapters[k] \in LinkType
  BY DEF ServerInv, TenantsInv, Objects, ObjectTypes
<1>2. CASE LoopSelects(n)
  <2>1. PICK o : o = adapters[n].obj
    OBVIOUS
  <2>2. PICK k : k = Current(o)
    OBVIOUS
  <2>3. k \in DOMAIN adapters
    <3>1. n \in AdaptersOf(o)
      BY <2>1 DEF AdaptersOf
    <3>2. PICK l : IsLast(l, o)
      BY <1>1, <3>1 DEF Objects, HaveLast
    <3>3. k = l
      BY <1>1, <2>2, <3>2, CurrentIsLast DEF Objects
    <3>4. QED
      BY <3>2, <3>3 DEF IsLast, AdaptersOf
  <2>4. PICK e : e = [adapters[n] EXCEPT !.loop = "blocked", !.on = k]
    OBVIOUS
  <2>5. e.on = k
    BY <1>1, <2>4 DEF LinkType
  <2>6. adapters' = [adapters EXCEPT ![n] = e]
    BY <1>2, <2>1, <2>2, <2>4 DEF LoopSelects
  <2>7. /\ DOMAIN adapters' = DOMAIN adapters
        /\ \A m \in DOMAIN adapters : adapters'[m] = IF m = n THEN e ELSE adapters[m]
    BY <2>6
  <2>8. QED
    BY <2>3, <2>5, <2>7, SelectedInPlace
<1>3. CASE LoopEnds(n)
  <2>1. PICK e : e = [adapters[n] EXCEPT !.loop = "none"]
    OBVIOUS
  <2>2. e.on = adapters[n].on
    BY <1>1, <2>1 DEF LinkType
  <2>3. adapters' = [adapters EXCEPT ![n] = e]
    BY <1>3, <2>1 DEF LoopEnds
  <2>4. /\ DOMAIN adapters' = DOMAIN adapters
        /\ \A m \in DOMAIN adapters : adapters'[m] = IF m = n THEN e ELSE adapters[m]
    BY <2>3
  <2>5. QED
    BY <2>2, <2>4, SelectedInPlace
<1>4. CASE LoopHandles(n)
  <2>1. PICK m : m = adapters[n].on
    OBVIOUS
  <2>2. PICK q : q = IF adapters[m].cfg \in TigerConfigs THEN adapters[m].queue - 1
                                                         ELSE adapters[m].queue
    OBVIOUS
  <2>3. m \in DOMAIN adapters
    BY <1>1, <1>4, <2>1, ReadersAreTenants DEF LoopHandles
  <2>4. PICK e : e = [adapters[n] EXCEPT !.loop = "new"]
    OBVIOUS
  <2>5. e \in LinkType /\ e.queue = adapters[n].queue /\ e.on = adapters[n].on
    <3>1. adapters[n] \in LinkType
      BY <1>1
    <3>2. QED
      BY <2>4, <3>1, SMTT(30) DEF LinkType
  <2>6. PICK l : l = [adapters EXCEPT ![n] = e]
    OBVIOUS
  <2>7. /\ DOMAIN l = DOMAIN adapters
        /\ \A k \in DOMAIN adapters : l[k] = IF k = n THEN e ELSE adapters[k]
    BY <1>1, <2>6
  <2>8. PICK f : f = [l[m] EXCEPT !.queue = q]
    OBVIOUS
  <2>9. f.on = l[m].on
    <3>1. l[m] \in LinkType
      BY <1>1, <2>3, <2>5, <2>7
    <3>2. QED
      BY <2>8, <3>1 DEF LinkType
  <2>10. adapters' = [l EXCEPT ![m] = f]
    <3>1. l[m].queue = adapters[m].queue
      BY <2>3, <2>5, <2>7
    <3>2. adapters' = [l EXCEPT ![m] = [l[m] EXCEPT !.queue = q]]
      BY <1>4, <2>1, <2>2, <2>3, <2>4, <2>6, <3>1 DEF LoopHandles
    <3>3. QED
      BY <2>8, <3>2
  <2>11. /\ DOMAIN adapters' = DOMAIN adapters
         /\ \A k \in DOMAIN adapters : adapters'[k] = IF k = m THEN f ELSE l[k]
    BY <2>7, <2>10
  <2>12. \A k \in DOMAIN adapters : adapters'[k].on = adapters[k].on
    BY <2>5, <2>7, <2>9, <2>11
  <2>13. QED
    BY <2>11, <2>12, SelectedInPlace
<1>5. CASE handlePBXEvent(n) \/ SendsOnClosed(n)
  <2>1. PICK e \in {[adapters[n] EXCEPT !.loop = "new"], [adapters[n] EXCEPT !.overtaken = TRUE]} :
               adapters' = [adapters EXCEPT ![n] = e]
    BY <1>5 DEF handlePBXEvent, SendsOnClosed
  <2>2. e.on = adapters[n].on
    BY <1>1, <2>1 DEF LinkType
  <2>3. /\ DOMAIN adapters' = DOMAIN adapters
        /\ \A m \in DOMAIN adapters : adapters'[m] = IF m = n THEN e ELSE adapters[m]
    BY <2>1
  <2>4. QED
    BY <2>2, <2>3, SelectedInPlace
<1>6. QED
  BY <1>2, <1>3, <1>4, <1>5 DEF Loop

\* A stop leaves the loops where they are.
LEMMA StopSelected ==
    ASSUME ServerInv, ServerInv', Selected, NEW id \in TenantIds, tenants[id] # None, Stop(id)
    PROVE  Selected'
<1>1. PICK n : n = Current(tenants[id].obj)
  OBVIOUS
<1>2. n \in DOMAIN adapters /\ adapters[n] \in LinkType
  BY <1>1, LinkExists, AdaptersTyped DEF ServerInv, TenantsInv, Objects
<1> PICK state : adapters' = StopEffects(n, state)
  BY <1>1 DEF Stop
<1>3. PICK e : e = [adapters[n] EXCEPT !.cancelled = TRUE, !.state = state]
  OBVIOUS
<1>4. e.on = adapters[n].on
  BY <1>2, <1>3 DEF LinkType
<1>5. adapters' = [adapters EXCEPT ![n] = e]
  BY <1>1, <1>2, <1>3 DEF StopEffects, LinkType
<1>6. /\ DOMAIN adapters' = DOMAIN adapters
      /\ \A k \in DOMAIN adapters : adapters'[k] = IF k = n THEN e ELSE adapters[k]
  BY <1>5
<1>7. QED
  BY <1>4, <1>6, SelectedInPlace

\* The steps of the tenants.
LEMMA TenantSelected ==
    ASSUME ServerInv, ServerInv', Selected, TenantNext
    PROVE  Selected'
<1>1. ASSUME NEW id \in TenantIds, StopAll(id)
      PROVE  Selected'
  <2>1. tenants[id] # None
    BY <1>1 DEF StopAll, ServerInv, TenantsInv, Waits, Loaded
  <2>2. adapters' = adapters \/ Stop(id)
    BY <1>1 DEF StopAll
  <2>3. QED
    BY <2>1, <2>2, SelectedSame, StopSelected
<1>2. ASSUME NEW id \in TenantIds, NEW outcome \in Outcomes,
             LoadTenant(id, outcome) \/ StartAll(id, outcome)
      PROVE  Selected'
  BY <1>2, StartSelects DEF LoadTenant, StartAll
<1>3. ASSUME NEW n \in DOMAIN adapters,
             Loop(n) \/ LoopHandles(n) \/ handlePBXEvent(n) \/ SendsOnClosed(n)
      PROVE  Selected'
  BY <1>3, LoopSelected
<1>4. ASSUME NEW w \in Workers, NEW id \in TenantIds, StopTenant(w, id)
      PROVE  Selected'
  BY <1>4, StopSelected DEF StopTenant, MustStop, Gone, Changed
<1>5. ASSUME NEW w \in Workers, NEW id \in TenantIds, NEW outcome \in Outcomes,
             RestartTenant(w, id, outcome) \/ StartTenant(w, id, outcome)
      PROVE  Selected'
  <2>1. Replace(w, id, outcome)
    BY <1>5 DEF RestartTenant, StartTenant
  <2>2. QED
    BY <2>1, StartSelects DEF Replace
<1>6. CASE adapters' = adapters
  BY <1>6, SelectedSame
<1>7. QED
  BY <1>1, <1>2, <1>3, <1>4, <1>5, <1>6, ZenonT(40)
     DEF TenantNext, StopSteps, ReloadSteps, LoadFromDB, LoadFails, BeginStartAll, BeginStopAll,
         EndStopAll, StoppedInAll, ListTenants, ListFails, LockManager, StopsTwice, UnlockManager,
         RemoveTenant, UpdateTenant, updateTenantWrites, updateTenantReads, deleteTenant,
         importTenants, createTenant

\* No step of the others changes what a loop has selected on.
LEMMA SelectedStep ==
    ASSUME ServerInv, ServerInv', Selected, [Next]_vars
    PROVE  Selected'
<1>1. CASE adapters' = adapters
  BY <1>1, SelectedSame
<1>2. ASSUME NEW id \in TenantIds, RegisterTenant(id)
      PROVE  Selected'
  <2>1. PICK c : c = Created(id, 0, rows[id].cfg, "ok")
    OBVIOUS
  <2>2. PICK r : r = [c EXCEPT !.loop = "none"]
    OBVIOUS
  <2>3. r.on = 0
    BY <2>1, <2>2 DEF Created
  <2>4. adapters' = Append(adapters, r)
    BY <1>2, <2>1, <2>2 DEF RegisterTenant
  <2>5. QED
    BY <2>3, <2>4, SelectedOpens
<1>3. ASSUME NEW w \in Workers, handleSet(w)
      PROVE  Selected'
  <2>1. PICK n \in DOMAIN adapters : Enqueued(n)
    BY <1>3 DEF handleSet, Registered
  <2>2. CASE adapters' = adapters
    BY <2>2, SelectedSame
  <2>3. CASE adapters' = [adapters EXCEPT ![n].queue = @ + 1]
    <3>1. adapters[n] \in LinkType
      BY AdaptersTyped DEF ServerInv, TenantsInv, Objects
    <3>2. PICK e : e = [adapters[n] EXCEPT !.queue = adapters[n].queue + 1]
      OBVIOUS
    <3>3. e.on = adapters[n].on
      BY <3>1, <3>2 DEF LinkType
    <3>4. adapters' = [adapters EXCEPT ![n] = e]
      BY <2>3, <3>2
    <3>5. /\ DOMAIN adapters' = DOMAIN adapters
          /\ \A k \in DOMAIN adapters : adapters'[k] = IF k = n THEN e ELSE adapters[k]
      BY <3>4
    <3>6. QED
      BY <3>3, <3>5, SelectedInPlace
  <2>4. QED
    BY <2>1, <2>2, <2>3 DEF Enqueued
<1>4. CASE TenantNext
  BY <1>4, TenantSelected
<1>5. CASE ILinkNext
  BY <1>1, <1>2, <1>3, <1>5
     DEF ILinkNext, BuildRouter, ListenAndServe, createTenantToken, revokeTenantToken,
         resolveAndAuth
<1>6. QED
  BY <1>1, <1>4, <1>5 DEF Next, vars

----------------------------------------------------------------------------
(***************************************************************************)
(* The accounts hold for good, and with them the types.                    *)
(***************************************************************************)

\* Nothing has been opened, asked or answered at first.
LEMMA BoundsInitially == Init => BoundsInv
<1> SUFFICES ASSUME Init PROVE BoundsInv
  OBVIOUS
<1>1. /\ adapters = <<>> /\ phase = "systems" /\ requests = 0
      /\ work = [g \in Goroutines |-> Idle] /\ mgr.holder = None
      /\ answered = [id \in TenantIds |-> 0]
  BY DEF Init, TenantInit, ProcessInit, ILinkInit
<1>2. Len(adapters) = 0 /\ DOMAIN adapters = {}
  BY <1>1
<1>3. \A w \in Workers : work[w].at = "idle"
  BY <1>1 DEF Idle
<1>4. /\ Yet = {} /\ Ahead = {} /\ \A id \in TenantIds : Posting(id) = {}
  BY <1>1, <1>3 DEF Yet, Ahead, Posting
<1>5. IsFiniteSet({}) /\ Cardinality({}) = 0
  BY FS_EmptySet
<1>6. BootOpens /\ Selected
  BY <1>1, <1>2 DEF BootOpens, Selected
<1>7. RequestsOpen
  <2>1. TenantCount \in Nat
    BY ListIsShort
  <2>2. TenantCount * 0 = 0 /\ TenantCount * (3 + 0) \in Nat
    BY <2>1, Times
  <2>3. QED
    BY <1>1, <1>2, <1>4, <1>5, <2>2 DEF RequestsOpen
<1>8. RequestsAnswer
  <2>1. ASSUME NEW id \in TenantIds
        PROVE  IsFiniteSet(Posting(id)) /\ answered[id] + Cardinality(Posting(id)) <= requests
    <3>1. Posting(id) = {} /\ answered[id] = 0 /\ requests = 0
      BY <1>1, <1>4
    <3>2. IsFiniteSet(Posting(id)) /\ Cardinality(Posting(id)) = 0
      BY <1>5, <3>1
    <3>3. QED
      BY <3>1, <3>2
  <2>2. QED
    BY <2>1 DEF RequestsAnswer
<1>9. QED
  BY <1>6, <1>7, <1>8 DEF BoundsInv

\* The accounts hold in every reachable state.
LEMMA BoundsInductive == Spec => []BoundsInv
<1>1. ServerInv /\ ServerInv' /\ EndpointsInv /\ BoundsInv /\ [Next]_vars => BoundsInv'
  BY CountsStep, SelectedStep DEF BoundsInv, Counts
<1>2. QED
  BY <1>1, BoundsInitially, ServerInvInductive, EndpointsInductive, PTL DEF Spec

\* The PBX manager has an entry, or none, for each system.
Entries == systems = [s \in Systems |-> systems[s]]

\* It has in every reachable state.
LEMMA EntriesInductive == Spec => []Entries
<1>1. Init => Entries
  BY DEF Init, PbxInit, Entries
<1>2. ASSUME Entries, [Next]_vars
      PROVE  Entries'
  <2>1. CASE systems' = systems
    BY <1>2, <2>1 DEF Entries
  <2>2. ASSUME NEW s, NEW e, systems' = [systems EXCEPT ![s] = e]
        PROVE  Entries'
    BY <1>2, <2>2 DEF Entries
  <2>3. ASSUME NEW ids, Forget(ids)
        PROVE  Entries'
    BY <2>3 DEF Forget, Entries
  <2>4. ASSUME NEW n \in Providers, Reports(n), systems' # systems
        PROVE  Entries'
    <3>1. PICK s : s = providers[n].system
      OBVIOUS
    <3>2. PICK state : state = IF providers[n].dial = "up" THEN "connected" ELSE "disconnected"
      OBVIOUS
    <3>3. PICK e : e = [systems[s] EXCEPT !.state = state]
      OBVIOUS
    <3>4. systems' = [systems EXCEPT ![s] = e]
      BY <2>4, <3>1, <3>2, <3>3 DEF Reports
    <3>5. QED
      BY <2>2, <3>4
  <2>5. ASSUME NEW w \in Goroutines, Connect(w)
        PROVE  Entries'
    BY <2>1, <2>2, <2>5 DEF Connect
  <2>6. CASE PbxNext
    BY <2>1, <2>3, <2>4, <2>5, <2>6, ZenonT(40)
       DEF PbxNext, ProviderNext, Dialled, Reconnected, SubscriptionLost, ReconnectChecks,
           EventArrives, EventSent, Provider, LoadFromDBSystems, SystemsLoaded, CloseSystems,
           ConnectsDone, GetBicomSystem, TurnOf, ReloadSystems, FollowSystems, ReloadSystem,
           WriteSystem
  <2>7. QED
    BY <1>2, <2>1, <2>6 DEF Next, vars
<1>3. QED
  BY <1>1, <1>2, PTL DEF Spec

\* No more adapters are opened than MaxAdapters, for whose loops fairness is stated.
LEMMA AdaptersBounded ==
    ASSUME ServerInv, EndpointsInv, BoundsInv
    PROVE  Len(adapters) \in Nat /\ Len(adapters) <= MaxAdapters
<1>1. /\ Len(adapters) \in Nat /\ requests \in 0..MaxRequests /\ TenantCount \in Nat
      /\ Ahead \subseteq TenantIds
  BY CountTypes DEF ServerInv, Process, ProcessTypes
<1>2. /\ Len(adapters) + TenantCount * Cardinality(Yet) + Cardinality(Ahead)
             <= TenantCount * (3 + requests)
      /\ IsFiniteSet(Yet)
  BY DEF BoundsInv, RequestsOpen
<1>3. /\ TenantCount * Cardinality(Yet) \in Nat /\ Cardinality(Ahead) \in Nat
  <2>1. Cardinality(Yet) \in Nat
    BY <1>2, FS_CardinalityType
  <2>2. QED
    BY <1>1, <2>1, Times, ListIsShort
<1>4. /\ TenantCount * (3 + requests) <= TenantCount * (3 + MaxRequests)
      /\ TenantCount * (3 + requests) \in Nat /\ TenantCount * (3 + MaxRequests) \in Nat
  <2>1. /\ 3 + requests \in Nat /\ 3 + MaxRequests \in Nat /\ 3 + requests <= 3 + MaxRequests
    BY <1>1
  <2>2. QED
    BY <1>1, <2>1, Times, TimesGrows
<1>5. TenantCount * (3 + MaxRequests) <= MaxAdapters
  BY DEF TenantCount
<1>6. QED
  BY <1>1, <1>2, <1>3, <1>4, <1>5

\* An adapter has its type, and its loop waits at one that exists.
LEMMA AdapterBounded ==
    ASSUME ServerInv, EndpointsInv, BoundsInv, NEW n \in DOMAIN adapters
    PROVE  /\ adapters[n] \in Adapter
           /\ adapters[n].loop = "blocked" => adapters[n].on \in DOMAIN adapters
<1>1. Len(adapters) \in Nat /\ Len(adapters) <= MaxAdapters
  BY AdaptersBounded
<1>2. /\ adapters[n] \in LinkType /\ DOMAIN adapters = 1..Len(adapters)
      /\ adapters[n].obj \in Nat /\ adapters[n].on \in Nat
  BY AdaptersTyped DEF ServerInv, TenantsInv, Objects, LinkType
<1>3. adapters[n].obj \in 0..MaxAdapters
  <2>1. adapters[n].obj # 0 => adapters[n].obj \in DOMAIN adapters
    BY DEF ServerInv, TenantsInv, Objects, Named
  <2>2. QED
    BY <1>1, <1>2, <2>1
<1>4. adapters[n].on \in 0..MaxAdapters
  <2>1. adapters[n].on <= Len(adapters)
    BY DEF BoundsInv, Selected
  <2>2. QED
    BY <1>1, <1>2, <2>1
<1>5. adapters[n] \in Adapter
  BY <1>2, <1>3, <1>4 DEF Adapter, LinkType
<1>6. adapters[n].loop = "blocked" => adapters[n].on \in DOMAIN adapters
  BY DEF ServerInv, TenantsInv, Objects, ReadOwn, AdaptersOf
<1>7. QED
  BY <1>5, <1>6

\* What was answered, and of this what was dropped, were requests.
LEMMA AnswersBounded ==
    ASSUME ServerInv, EndpointsInv, BoundsInv
    PROVE  /\ answered \in [TenantIds -> 0..MaxRequests]
           /\ dropped \in [TenantIds -> 0..MaxRequests]
<1>1. /\ answered \in [TenantIds -> Nat] /\ dropped \in [TenantIds -> Nat]
      /\ requests \in 0..MaxRequests
  BY DEF EndpointsInv, ServerInv, Process, ProcessTypes
<1>2. ASSUME NEW id \in TenantIds
      PROVE  answered[id] \in 0..MaxRequests /\ dropped[id] \in 0..MaxRequests
  <2>1. answered[id] \in Nat /\ dropped[id] \in Nat
    BY <1>1
  <2>2. answered[id] <= requests
    <3>1. /\ answered[id] + Cardinality(Posting(id)) <= requests
          /\ Cardinality(Posting(id)) \in Nat
      BY FS_CardinalityType DEF BoundsInv, RequestsAnswer
    <3>2. QED
      BY <1>1, <2>1, <3>1
  <2>3. dropped[id] <= answered[id]
    <3>1. CASE Registered(id) = {}
      BY <3>1 DEF EndpointsInv
    <3>2. CASE Registered(id) # {}
      <4>1. PICK n : n \in Registered(id)
        BY <3>2
      <4>2. /\ n \in DOMAIN adapters /\ adapters[n].tenant = id
            /\ adapters[n].queue + dropped[id] = answered[id]
        BY <4>1 DEF Registered, EndpointsInv, IsEndpoint
      <4>3. adapters[n].queue \in Nat
        BY <4>2, AdaptersTyped DEF ServerInv, TenantsInv, Objects, LinkType
      <4>4. QED
        BY <2>1, <4>2, <4>3
    <3>3. QED
      BY <3>1, <3>2
  <2>4. QED
    BY <1>1, <2>1, <2>2, <2>3
<1>3. QED
  BY <1>1, <1>2

\* Every variable has its type; an entry of the PBX manager and a loop of a tenant name a
\* provider and an adapter that exist.
THEOREM TypeCorrect == Spec => []TypeOK
<1>1. ASSUME ServerInv, EndpointsInv, BoundsInv, Entries
      PROVE  TypeOK
  <2>1. /\ phase \in Phases /\ requests \in 0..MaxRequests /\ failures \in 0..MaxFailures
        /\ rows \in [TenantIds -> Row \cup {None}]
        /\ behind \subseteq TenantIds /\ tokens \in [TenantIds -> TokenRows]
        /\ bicom_systems \in [Systems -> SystemRows]
    BY <1>1 DEF ServerInv, Process, ProcessTypes
  <2>2. ASSUME NEW id \in TenantIds, tenants[id] # None
        PROVE  tenants[id].cfg \in Configs /\ tenants[id].obj \in DOMAIN adapters
    <3>1. tenants[id] \in Object
      BY <1>1, <2>2 DEF ServerInv, TenantsInv, Objects, ObjectTypes
    <3>2. QED
      BY <1>1, <2>2, <3>1 DEF Object, ServerInv, TenantsInv, Objects, Owned
  <2>3. Len(adapters) <= MaxAdapters
    BY <1>1, AdaptersBounded
  <2>4. \A n \in DOMAIN adapters :
            /\ adapters[n] \in Adapter
            /\ adapters[n].loop = "blocked" => adapters[n].on \in DOMAIN adapters
    BY <1>1, AdapterBounded
  <2>5. /\ mgr.holder \in Goroutines \cup {None}
        /\ mgr.stopping \in TenantIds \cup {None}
        /\ mgr.todo \subseteq TenantIds
    BY <1>1 DEF ServerInv, Process, ProcessTypes, Locks
  <2>6. /\ answered \in [TenantIds -> 0..MaxRequests]
        /\ dropped \in [TenantIds -> 0..MaxRequests]
    BY <1>1, AnswersBounded
  <2>7. systems \in [Systems -> Entry \cup {None}]
    <3>1. systems = [s \in Systems |-> systems[s]]
      BY <1>1 DEF Entries
    <3>2. \A s \in Systems : systems[s] \in Entry \cup {None}
      BY <1>1 DEF ServerInv, PbxInv, EntriesAreOpen
    <3>3. QED
      BY <3>1, <3>2
  <2>8. \A n \in Providers : providers[n] \in ProviderType
    BY <1>1 DEF ServerInv, PbxInv, Providers
  <2>9. QED
    BY <2>1, <2>2, <2>3, <2>4, <2>5, <2>6, <2>7, <2>8 DEF TypeOK
<1>2. ServerInv /\ EndpointsInv /\ BoundsInv /\ Entries => TypeOK
  BY <1>1
<1>3. QED
  BY <1>2, ServerInvInductive, EndpointsInductive, BoundsInductive, EntriesInductive, PTL

=============================================================================
