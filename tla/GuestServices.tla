--------------------------- MODULE GuestServices ---------------------------
(***************************************************************************)
(* The guest services of one tenant: the events of its PMS, the table of   *)
(* wake-up calls and the scheduler that makes them, in one process that    *)
(* may be shut down, crash and be started again.                           *)
(***************************************************************************)
EXTENDS WakeUpScheduler, TenantEvents

vars == <<wake, rings, world, faults, scheduling, handling, tenancy>>

Idle(h) == doing[h] = 0
AllIdle == \A h \in Handlers : Idle(h)

Advance ==
    /\ now < MaxTime /\ now' = now + 1
    /\ UNCHANGED <<wake, rings, life, tenant, faults, scheduling, handling, tenancy>>

\* main stops the scheduler and waits for its batch; then it has the manager stop the tenants.
Shutdown ==
    /\ life = "running" /\ Fault
    /\ life' = "stopping"
    /\ UNCHANGED <<wake, rings, now, tenant, scheduling, handling, tenancy>>

Down ==
    /\ life = "stopping" /\ batch = <<>> /\ tenant = "gone"
    /\ life' = "down"
    /\ UNCHANGED <<wake, rings, now, tenant, faults, scheduling, handling, tenancy>>

Crash ==
    /\ life # "down" /\ Fault
    /\ life' = "down"
    /\ batch' = <<>> /\ outcome' = "none"
    /\ doing' = [h \in Handlers |-> 0]
    /\ todo' = [h \in Handlers |-> <<>>]
    /\ found' = [h \in Handlers |-> 0]
    /\ UNCHANGED <<wake, rings, now, tenant, seen, tenancy>>

Restart ==
    /\ life = "down" /\ life' = "running"
    /\ tenant' = "loaded"
    /\ UNCHANGED <<wake, rings, now, faults, scheduling, handling, tenancy>>

\* The manager stops a tenant that was deleted or disabled: Stop cancels the context, also of
\* an event that is being handled, and waits for the event loop. The lock is held meanwhile.
Unload ==
    /\ life = "running" /\ tenant = "loaded" /\ Fault
    /\ tenant' = "leaving"
    /\ UNCHANGED <<wake, rings, now, life, scheduling, handling, tenancy>>

StopAll ==
    /\ life = "stopping" /\ batch = <<>> /\ tenant = "loaded"
    /\ tenant' = "leaving"
    /\ UNCHANGED <<wake, rings, now, life, faults, scheduling, handling, tenancy>>

Unloaded ==
    /\ life # "down" /\ tenant = "leaving" /\ AllIdle
    /\ tenant' = "gone"
    /\ UNCHANGED <<wake, rings, now, life, faults, scheduling, handling, tenancy>>

\* It was enabled, or created, again.
Load ==
    /\ life = "running" /\ tenant = "gone"
    /\ tenant' = "loaded"
    /\ UNCHANGED <<wake, rings, now, life, faults, scheduling, handling, tenancy>>

Scheduler == SchedulerStep /\ UNCHANGED <<handling, tenancy>>
Handle(h) == (Take(h) \/ HandlerStep(h)) /\ UNCHANGED scheduling
Retry(n) == RetryEvent(n) /\ UNCHANGED scheduling
Process == Shutdown \/ Down \/ Crash \/ Restart \/ Unload \/ StopAll \/ Unloaded \/ Load

Init ==
    /\ wake = [i \in CallIds |->
                [status |-> "absent", ext |-> CHOOSE x \in Extensions : TRUE, at |-> 0]]
    /\ rings = [i \in CallIds |-> 0]
    /\ now = 0 /\ life = "running" /\ tenant = "loaded" /\ faults = 0
    /\ SchedulerInit /\ TenantInit

Next ==
    \/ Scheduler \/ Advance \/ Process
    \/ \E h \in Handlers : Handle(h)
    \/ \E n \in EventIds : Retry(n)

Spec == Init /\ [][Next]_vars

(***************************************************************************)
(* The ticker ticks and goroutines run; calls return (they have time-outs); *)
(* a stopped or crashed process is started again, and a tenant that is     *)
(* being stopped stops. No event, retry or change of a tenant need happen. *)
(***************************************************************************)
Fairness ==
    /\ WF_vars(Scheduler) /\ WF_vars(Down) /\ WF_vars(Restart) /\ WF_vars(StopAll) /\ WF_vars(Unloaded)
    /\ \A h \in Handlers : WF_vars(HandlerStep(h) /\ UNCHANGED scheduling)

FairSpec == Spec /\ Fairness

----------------------------------------------------------------------------
TypeOK ==
    /\ wake \in [CallIds -> WakeRows]
    /\ rings \in [CallIds -> Nat]
    /\ now \in Times /\ tenant \in {"loaded", "leaving", "gone"} /\ faults \in Nat
    /\ life \in {"running", "stopping", "down"}
    /\ batch \in Seq(CallIds)
    /\ outcome \in {"none", "originated", "failed"}
    /\ seen \in Seq(Events)
    /\ doing \in [Handlers -> 0..MaxEvents]
    /\ todo \in [Handlers -> Seq(CallNames)]
    /\ found \in [Handlers -> 0..MaxCalls]
    /\ pbx \in [Extensions -> Lines]
    /\ sessions \in [Rooms -> Nat]
    /\ audit \in [EventIds -> {"none", "open", "processed", "failed"}]
    /\ acked \subseteq EventIds /\ botched \subseteq EventIds
    /\ finished \subseteq EventIds /\ retried \subseteq EventIds

\* A row makes its telephone ring once, and once more for each fault at most: a
\* crash, a shutdown or a failed UPDATE between the call and its record.
RingsOnce == \A i \in CallIds : rings[i] <= 1 + faults

Fetched(i) == \E k \in DOMAIN batch : batch[k] = i

\* A cancelled call stays cancelled and silent and is never fetched again, unless
\* the scheduler had fetched it before the cancellation.
CancelIsFinal ==
    [][\A i \in CallIds :
        wake[i].status = "cancelled" /\ ~ Fetched(i) =>
            wake'[i] = wake[i] /\ rings'[i] = rings[i] /\ ~ Fetched(i)']_vars

\* Every call whose time has come leaves 'pending': restarts, batches and failed
\* statements delay it and never lose it.
OverdueSettles ==
    \A i \in CallIds : (Pending(i) /\ wake[i].at <= now) ~> ~ Pending(i)

\* The last wake-up event of an extension, if it is a clearall that was carried
\* out, leaves no call pending for it.
WakeEventsOf(x) ==
    {n \in 1..Len(seen) : Extension[seen[n].room] = x
                          /\ seen[n].kind \in TimedKinds \cup {"wake_clearall"}}

ClearAllClears ==
    \A n \in finished \ botched :
        LET x == Extension[seen[n].room] IN
        seen[n].kind = "wake_clearall" /\ (\A m \in WakeEventsOf(x) : m <= n) =>
            \A i \in CallIds : Pending(i) => wake[i].ext # x

\* What becomes of an error of the PBX. If it hits a change of a lamp, a name or DND, neither
\* the PMS nor the audit log is told that the event was carried out. An event of any other
\* kind is never marked as failed: the errors of a check-in, a check-out and a wake-up, of one
\* call or of seven, are only logged (manager.go:789, 807-849, 911, 936), and the event is
\* acknowledged and marked as processed.
FailuresAreAudited ==
    /\ \A n \in botched : seen[n].kind \in ReportedKinds => n \notin acked /\ audit[n] # "processed"
    /\ \A n \in 1..Len(seen) : audit[n] = "failed" => seen[n].kind \in ReportedKinds /\ n \in botched

\* The last event of an extension, if it is a check-out that was carried out,
\* leaves nothing of the guest on the PBX and no session of the room.
LastOf(x, n) == \A m \in 1..Len(seen) : Extension[seen[m].room] = x => m <= n

CheckOutCleans ==
    \A n \in finished \ botched :
        LET x == Extension[seen[n].room] IN
        seen[n].kind = "check_out" /\ LastOf(x, n) =>
            /\ pbx[x].name = "" /\ ~ pbx[x].mwi /\ ~ pbx[x].mail /\ ~ pbx[x].alarm
            /\ sessions[seen[n].room] = 0

\* Without faults, a room has one active session for each check-in since its
\* last check-out.
Since(r) ==
    {n \in 1..Len(seen) : seen[n].kind = "check_in" /\ seen[n].room = r
        /\ \A m \in (n + 1)..Len(seen) : ~ (seen[m].kind = "check_out" /\ seen[m].room = r)}

SessionsBalance ==
    AllIdle /\ faults = 0 => \A r \in Rooms : sessions[r] = Cardinality(Since(r))

\* What the documentation says of a cancelled call, "PMS sent a wake-up cancel
\* event or tenant check-out": a check-out that was carried out leaves no call
\* pending for the extension of the guest who left.
CheckOutSilences ==
    \A n \in finished \ botched :
        LET x == Extension[seen[n].room] IN
        seen[n].kind = "check_out" /\ LastOf(x, n) =>
            \A i \in CallIds : Pending(i) => wake[i].ext # x

\* What markEventFailed says, "so the admin retry endpoint can find and replay
\* it": an event that was reset is eventually handled again, and marked.
RetryReplays ==
    \A n \in EventIds : (n \in retried /\ audit[n] = "open") ~> audit[n] # "open"
=============================================================================
