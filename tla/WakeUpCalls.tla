---------------------------- MODULE WakeUpCalls ----------------------------
(***************************************************************************)
(* The table wakeup_calls of internal/db/db.go and the telephones that its *)
(* rows make ring. WakeUpScheduler reads and settles the rows, TenantEvents *)
(* adds and cancels them; GuestServices puts the two together.             *)
(***************************************************************************)
EXTENDS Integers, FiniteSets, Sequences

CONSTANTS
    Extensions,     \* extension numbers of one tenant
    MaxCalls,       \* bound: row ids are 1..MaxCalls
    MaxTime,        \* bound: the clock runs from 0 to MaxTime
    MaxFaults       \* bound: crashes, shutdowns, failed calls, unloads and retries

ASSUME WakeUpAssumption ==
    /\ Extensions # {}
    /\ MaxCalls \in Nat \ {0} /\ MaxTime \in Nat /\ MaxFaults \in Nat

CallIds == 1..MaxCalls
Times == 0..MaxTime

VARIABLES
    wake,       \* rows: status, ext and at (scheduled_at) of each id
    rings,      \* how often each row made its telephone ring
    now,        \* the clock
    life,       \* the process: "running", "stopping" (being shut down), "down"
    tenant,     \* the tenant: "loaded", "leaving" (being stopped) or "gone" from the map
    faults      \* faults so far

world == <<now, life, tenant>>

WakeStatuses == {"absent", "pending", "originated", "failed", "cancelled"}
WakeRows == [status : WakeStatuses, ext : Extensions, at : Times]

\* One more fault, within the bound.
Fault == faults < MaxFaults /\ faults' = faults + 1

\* A statement of the scheduler may fail while this is being stopped, and as a fault
\* at any time.
MayFail == \/ life = "stopping" /\ UNCHANGED faults
           \/ life = "running" /\ Fault

Pending(i) == wake[i].status = "pending"

----------------------------------------------------------------------------
\* The statements of the repository.

CreateWakeUpCall(x, at) ==
    \E i \in CallIds :
        /\ wake[i].status = "absent"
        /\ \A j \in 1..(i - 1) : wake[j].status # "absent"
        /\ wake' = [wake EXCEPT ![i] = [status |-> "pending", ext |-> x, at |-> at]]

\* Mutants: the status is not looked at; only rows due at this very instant.
DueAnyStatus == {i \in CallIds : wake[i].status # "absent" /\ wake[i].at <= now}
DueExactly == {i \in CallIds : Pending(i) /\ wake[i].at = now}

Due == {i \in CallIds : Pending(i) /\ wake[i].at <= now}

\* Due rows in the order of scheduled_at, at most limit of them.
GetDueWakeUpCalls(limit) ==
    {b \in UNION {[1..n -> Due] : n \in 0..limit} :
        /\ \A k, l \in DOMAIN b : k < l => b[k] # b[l] /\ wake[b[k]].at <= wake[b[l]].at
        /\ Len(b) = limit \/ \A i \in Due : \E k \in DOMAIN b : b[k] = i
        /\ \A i \in Due : \A k \in DOMAIN b :
            wake[i].at < wake[b[k]].at => \E l \in DOMAIN b : b[l] = i}

\* MarkWakeUpOriginated and MarkWakeUpFailed: WHERE id = ?, whatever the status.
MarkWakeUp(i, outcome) == wake' = [wake EXCEPT ![i].status = outcome]

\* FindPendingWakeUpCall: the latest pending row of a number, if any.
FindPendingWakeUpCall(x) ==
    LET mine == {i \in CallIds : Pending(i) /\ wake[i].ext = x}
    IN  {i \in mine : \A j \in mine : wake[j].at <= wake[i].at}

Cancellable(i) == wake[i].status \in {"pending", "originated"}

CancelWakeUpCall(i) ==
    wake' = IF Cancellable(i) THEN [wake EXCEPT ![i].status = "cancelled"] ELSE wake

\* Mutant: it cancels one row, as the cancellation of a single call does.
CancelLatestForExtension(x) ==
    wake' = [i \in CallIds |-> IF i \in FindPendingWakeUpCall(x)
                               THEN [wake[i] EXCEPT !.status = "cancelled"] ELSE wake[i]]

CancelAllPendingWakeUpCallsForExtension(x) ==
    wake' = [i \in CallIds |-> IF Cancellable(i) /\ wake[i].ext = x
                               THEN [wake[i] EXCEPT !.status = "cancelled"] ELSE wake[i]]
=============================================================================
