----------------------------- MODULE PbxManager -----------------------------
(***************************************************************************)
(* internal/pbx/manager.go: the connected Bicom systems, and the requests  *)
(* of admin_pbx.go and admin_bicom_systems.go that reload them. Connect    *)
(* puts an entry into the map and leaves the rest to a goroutine, which    *)
(* reports to whatever entry it then finds there.                          *)
(***************************************************************************)
EXTENDS BicomProvider

PbxInit ==
    /\ bicom_systems \in [Systems -> SystemRows]
    /\ systems = [s \in Systems |-> None]
    /\ providers = <<>>

Enabled == {s \in Systems : bicom_systems[s] = "enabled"}

\* Mutant: the outcome is not looked at.
ReportsConnected(n) ==
    /\ providers[n].dial \in {"up", "down"}
    /\ systems' = IF systems[providers[n].system] = None THEN systems
                  ELSE [systems EXCEPT ![providers[n].system].state = "connected"]
    /\ providers' = [providers EXCEPT ![n].dial = IF @ = "up" THEN "reported_up"
                                                  ELSE "reported_down"]
    /\ UNCHANGED <<processVars, bicom_systems>>

\* The goroutine of Connect takes the lock and writes the outcome down.
Reports(n) ==
    LET s == providers[n].system
        state == IF providers[n].dial = "up" THEN "connected" ELSE "disconnected" IN
    /\ providers[n].dial \in {"up", "down"}
    /\ systems' = IF systems[s] = None THEN systems
                  ELSE [systems EXCEPT ![s].state = state]
    /\ providers' = [providers EXCEPT ![n].dial = IF @ = "up" THEN "reported_up"
                                                  ELSE "reported_down"]
    /\ UNCHANGED <<processVars, bicom_systems>>

-----------------------------------------------------------------------------
(* Connect, for the systems a goroutine has on its list *)

Connecting(w) == work[w].at = "connect"

\* `turn` is the part of the list for which Connect is called: all of it at boot and for one
\* system, and one after the other in ReloadFromDB. `got` is the one whose row was read.
ConnectList(todo, turn) == [at |-> "connect", todo |-> todo, turn |-> turn, got |-> None]
Passed(job, s) == [job EXCEPT !.todo = @ \ {s}, !.turn = @ \ {s}, !.got = None]

\* The row is read before the lock is taken; whether it is enabled does not matter.
GetBicomSystem(w, s) ==
    /\ Connecting(w)
    /\ work[w].got = None
    /\ s \in work[w].turn
    /\ \E broken \in BOOLEAN :
        /\ Fails(broken)
        /\ work' = [work EXCEPT ![w] = IF broken \/ bicom_systems[s] = "none"
                                      THEN Passed(work[w], s)
                                      ELSE [work[w] EXCEPT !.got = s]]
    /\ UNCHANGED <<phase, requests, pbxVars>>

IsConnected(s) == systems[s] # None /\ systems[s].state = "connected"

\* NewProvider may refuse the row. An entry that is not connected is replaced, and its
\* provider not closed.
Connect(w) ==
    LET s == work[w].got IN
    /\ Connecting(w)
    /\ s # None
    /\ \E broken \in BOOLEAN :
        /\ broken => ~IsConnected(s)
        /\ Fails(broken)
        /\ IF broken \/ IsConnected(s)
           THEN UNCHANGED <<systems, providers>>
           ELSE /\ providers' = Append(providers, NewProvider(s))
                /\ systems' = [systems EXCEPT ![s] =
                                  [provider |-> Len(providers) + 1, state |-> "connecting"]]
    /\ work' = [work EXCEPT ![w] = Passed(work[w], s)]
    /\ UNCHANGED <<phase, requests, bicom_systems>>

ConnectsDone(w) ==
    /\ w \in Workers
    /\ Connecting(w)
    /\ work[w].todo = {}
    /\ Goes(w, Idle)
    /\ UNCHANGED pbxVars

\* main goes on without systems when they cannot be listed.
LoadFromDBSystems ==
    /\ phase = "systems"
    /\ phase' = "connect"
    /\ \E broken \in BOOLEAN :
        /\ Fails(broken)
        /\ LET listed == IF broken THEN {} ELSE Enabled IN
           work' = [work EXCEPT ![Main] = ConnectList(listed, listed)]
    /\ UNCHANGED <<requests, pbxVars>>

SystemsLoaded ==
    /\ MainDid("connect")
    /\ phase' = "load"
    /\ UNCHANGED <<work, requests, failures, pbxVars>>

-----------------------------------------------------------------------------
(* Requests *)

Closing(ids) ==
    providers' = [n \in Providers |->
        IF \E s \in ids : systems[s] # None /\ systems[s].provider = n
        THEN Closed(providers[n]) ELSE providers[n]]

Forget(ids) == systems' = [s \in Systems |-> IF s \in ids THEN None ELSE systems[s]]

\* ReloadSystem: Disconnect, and then Connect. (updateBicomSystemARISecret ends so too.)
ReloadSystem(w, s) ==
    /\ Request(w, ConnectList({s}, {s}))
    /\ Closing({s})
    /\ Forget({s})
    /\ UNCHANGED bicom_systems

\* ReloadFromDB lists the systems, which may fail, disconnects what is not enabled, and
\* connects what is missing, for which it gives the lock away each time.
ReloadSystems(w) ==
    /\ Request(w, [at |-> "systems", enabled |-> Enabled]) \/ Request(w, Idle)
    /\ UNCHANGED pbxVars

FollowSystems(w) ==
    LET gone == {s \in Systems : systems[s] # None /\ s \notin work[w].enabled} IN
    /\ work[w].at = "systems"
    /\ Closing(gone)
    /\ Forget(gone)
    /\ Goes(w, ConnectList(work[w].enabled, {}))
    /\ UNCHANGED bicom_systems

\* Whether a system is missing is looked at when its turn comes.
TurnOf(w, s) ==
    /\ Connecting(w)
    /\ work[w].turn = {}
    /\ s \in work[w].todo
    /\ Goes(w, IF systems[s] = None THEN [work[w] EXCEPT !.turn = {s}] ELSE Passed(work[w], s))
    /\ UNCHANGED pbxVars

\* createBicomSystem, updateBicomSystem and deleteBicomSystem change the row only. A
\* row that is created disabled is enabled: its column has a default, which replaces FALSE.
WriteSystem(w, s, state) ==
    /\ bicom_systems[s] = "none" => state = "enabled"
    /\ state # bicom_systems[s]
    /\ Request(w, Idle)
    /\ bicom_systems' = [bicom_systems EXCEPT ![s] = state]
    /\ UNCHANGED <<systems, providers>>

\* Close, the last that main does.
CloseSystems ==
    /\ phase = "close"
    /\ Closing(Systems)
    /\ Forget(Systems)
    /\ phase' = "ended"
    /\ UNCHANGED <<work, requests, failures, bicom_systems>>

PbxNext ==
    \/ ProviderNext
    \/ \E n \in Providers : Reports(n)
    \/ LoadFromDBSystems \/ SystemsLoaded \/ CloseSystems
    \/ \E w \in Goroutines :
        \/ Connect(w) \/ ConnectsDone(w)
        \/ \E s \in Systems : GetBicomSystem(w, s) \/ TurnOf(w, s)
    \/ \E w \in Workers :
        \/ ReloadSystems(w) \/ FollowSystems(w)
        \/ \E s \in Systems :
            \/ ReloadSystem(w, s)
            \/ \E state \in SystemRows : WriteSystem(w, s, state)

=============================================================================
