-------------------------- MODULE WakeUpScheduler --------------------------
(***************************************************************************)
(* The goroutine of internal/wakeup/scheduler.go: every tick it fetches a   *)
(* batch of due rows and, row by row, asks the tenant's PBX to ring and     *)
(* records the outcome. Rows may be cancelled between any two of its steps. *)
(***************************************************************************)
EXTENDS WakeUpCalls

CONSTANTS
    MaxBatchPerTick     \* rows fetched per tick

ASSUME SchedulerAssumption == MaxBatchPerTick \in Nat \ {0}

VARIABLES
    batch,      \* rows of this tick that remain, the one being dispatched first
    outcome     \* what dispatch has to record of the first row, or "none"

scheduling == <<batch, outcome>>

SchedulerInit == batch = <<>> /\ outcome = "none"

\* GetDueWakeUpCalls with the context of the scheduler.
Fetch ==
    /\ life = "running" /\ batch = <<>>
    /\ Due # {}
    /\ batch' \in GetDueWakeUpCalls(MaxBatchPerTick)
    /\ UNCHANGED <<wake, rings, world, faults, outcome>>

\* tm.Get, which waits while the manager stops a tenant, and OriginateWakeUp. The
\* provider takes no context, so a shutdown does not stop it; an error may come
\* after the telephone rang.
Dispatch ==
    /\ batch # <<>> /\ outcome = "none"
    /\ LET i == Head(batch)
           Ring == rings' = [rings EXCEPT ![i] = @ + 1]
       IN  \/ tenant = "gone" /\ outcome' = "failed" /\ UNCHANGED <<rings, faults>>
           \/ tenant = "loaded" /\ outcome' = "originated" /\ Ring /\ UNCHANGED faults
           \/ tenant = "loaded" /\ outcome' = "failed" /\ (Ring \/ UNCHANGED rings) /\ Fault
    /\ UNCHANGED <<wake, world, batch>>

\* Mutant: the row of a call that was placed is not written.
RecordFailures(i) == IF outcome = "failed" THEN MarkWakeUp(i, outcome) ELSE UNCHANGED wake

Record(i) == MarkWakeUp(i, outcome)

NextRow == batch' = Tail(batch) /\ outcome' = "none"

Mark ==
    /\ outcome # "none"
    /\ life = "running"
    /\ Record(Head(batch)) /\ NextRow
    /\ UNCHANGED <<rings, world, faults>>

\* The statement fails, as it must once the context is cancelled. Logged only.
MarkError ==
    /\ outcome # "none" /\ MayFail
    /\ NextRow
    /\ UNCHANGED <<wake, rings, world>>

SchedulerStep == Fetch \/ Dispatch \/ Mark \/ MarkError
=============================================================================
