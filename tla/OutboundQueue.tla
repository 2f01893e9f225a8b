--------------------------- MODULE OutboundQueue ---------------------------
(***************************************************************************)
(* The outbound webhook queue: the table outbound_webhooks of              *)
(* internal/db/db.go, the producers that enqueue into it and the           *)
(* dispatcher of internal/outbound/dispatcher.go that claims due rows,     *)
(* POSTs them and records the outcome.                                     *)
(*                                                                         *)
(* One action is one SQL statement, one HTTP exchange, or one local step   *)
(* of a goroutine: everything between two actions of a process may be      *)
(* interleaved with other processes, a crash or a shutdown.                *)
(***************************************************************************)
EXTENDS Integers, FiniteSets

CONSTANTS
    Events,       \* the (tenant_id, event_type, idempotency_key) triples produced
    NoEvent,      \* not one of Events
    Keys,         \* values of the column idempotency_key
    IdemKey,      \* the idempotency_key of each event
    Strategy,     \* the target_strategy of each event
    Producers,    \* goroutines calling Producer.EnqueueILinkCDR
    Workers,      \* dispatcher processes sharing the database
    MaxRows,      \* bound: row ids are 1..MaxRows
    BatchSize,    \* Dispatcher.batchSize
    Concurrency,  \* Dispatcher.concurrency
    MaxAttempts,  \* Dispatcher.maxAttempts
    MaxFaults     \* bound: crashes, shutdowns and failed statements of a behaviour

Strategies == {"ilink_cdr", "cloud_hmac", "cloud_bearer", "unregistered"}

ASSUME OutboundAssumption ==
    /\ NoEvent \notin Events
    /\ IdemKey \in [Events -> Keys]
    /\ Strategy \in [Events -> Strategies]
    /\ MaxRows \in Nat \ {0} /\ MaxAttempts \in Nat \ {0}
    /\ BatchSize \in Nat \ {0} /\ Concurrency \in Nat \ {0}
    /\ MaxFaults \in Nat

Ids == 1..MaxRows

VARIABLES
    status,     \* column status of each row, "absent" when the row does not exist
    event,      \* the triple of each row
    attempts,   \* column attempt_count
    due,        \* next_attempt_at has passed
    pending,    \* per producer: the event its lookup missed, before the INSERT
    accepted,   \* events whose enqueue returned without an error
    life,       \* per dispatcher: "running", "stopping" (context cancelled), "down"
    phase,      \* per dispatcher: where drainBatch is
    selected,   \* per dispatcher: the ids plucked by ClaimDueOutboundWebhooks
    flight,     \* per dispatcher and row: where deliver is
    copies,     \* how often the receiver has taken each row
    cut,        \* rows with a 2xx answer whose body was lost on the way
    faults      \* faults so far

table == <<status, event, attempts, due>>
producing == <<pending, accepted>>
dispatching == <<life, phase, selected, flight>>
receiving == <<copies, cut>>
vars == <<table, producing, dispatching, receiving, faults>>

Statuses == {"absent", "queued", "sending", "sent", "failed", "dropped"}
Phases == {"idle", "plucked", "claimed", "draining"}
Flights == {"none", "loaded", "posting", "accepted", "rejected", "bumped"}

Present(i) == status[i] # "absent"
Terminal(i) == status[i] \in {"sent", "dropped"}
InFlight(w, i) == flight[w][i] # "none"

\* One more fault, within the bound.
Fault == faults < MaxFaults /\ faults' = faults + 1

\* A statement of dispatcher w fails: always once its context is cancelled,
\* otherwise as a fault of the database.
StatementFails(w) ==
    \/ life[w] = "stopping" /\ UNCHANGED faults
    \/ life[w] = "running" /\ Fault

StatementSucceeds(w) == life[w] = "running" /\ UNCHANGED faults

----------------------------------------------------------------------------
\* Producers: db.EnqueueOutboundWebhook, a SELECT and then an INSERT.

\* Mutant: the lookup matches the key alone and forgets tenant and type.
LookupByKey(e) == \E i \in Ids : Present(i) /\ IdemKey[event[i]] = IdemKey[e]

Lookup(e) == \E i \in Ids : Present(i) /\ event[i] = e

\* Mutant: the table has no unique index.
NoIndex(e) == FALSE

\* The unique index of the table is on idempotency_key alone.
IndexConflict(e) == \E i \in Ids : Present(i) /\ IdemKey[event[i]] = IdemKey[e]

EnqueueLookup(p, e) ==
    /\ pending[p] = NoEvent
    /\ IF Lookup(e)
       THEN accepted' = accepted \cup {e} /\ UNCHANGED pending
       ELSE pending' = [pending EXCEPT ![p] = e] /\ UNCHANGED accepted
    /\ UNCHANGED <<table, dispatching, receiving, faults>>

EnqueueInsert(p) ==
    LET e == pending[p] IN
    /\ e # NoEvent
    /\ ~ IndexConflict(e)
    /\ \E i \in Ids :
        /\ ~ Present(i)
        /\ \A j \in 1..(i - 1) : Present(j)
        /\ status' = [status EXCEPT ![i] = "queued"]
        /\ event' = [event EXCEPT ![i] = e]
        /\ due' = [due EXCEPT ![i] = TRUE]
    /\ accepted' = accepted \cup {e}
    /\ pending' = [pending EXCEPT ![p] = NoEvent]
    /\ UNCHANGED <<attempts, dispatching, receiving, faults>>

\* The INSERT returns an error: the unique index rejects it, or the database
\* or the producing process fails.
EnqueueError(p) ==
    /\ pending[p] # NoEvent
    /\ \/ IndexConflict(pending[p]) /\ UNCHANGED faults
       \/ Fault
    /\ pending' = [pending EXCEPT ![p] = NoEvent]
    /\ UNCHANGED <<table, accepted, dispatching, receiving>>

----------------------------------------------------------------------------
\* Claiming: the three statements of db.ClaimDueOutboundWebhooks.

\* Mutants of the claim's WHERE clause: every due row; fresh rows only.
ClaimableAny == {i \in Ids : Present(i) /\ due[i]}
ClaimableQueued == {i \in Ids : status[i] = "queued" /\ due[i]}

Claimable == {i \in Ids : status[i] \in {"queued", "failed"} /\ due[i]}

\* Mutant: the rows are loaded but not marked.
Unmarked == "queued"

ClaimedStatus == "sending"

\* SELECT id ... LIMIT. Which due rows come first (the oldest next_attempt_at)
\* is left open.
ClaimPluck(w) ==
    /\ life[w] = "running" /\ phase[w] = "idle"
    /\ Claimable # {}
    /\ \E S \in SUBSET Claimable :
        /\ S # {}
        /\ Cardinality(S) <= BatchSize
        /\ Cardinality(S) = BatchSize \/ S = Claimable
        /\ selected' = [selected EXCEPT ![w] = S]
    /\ phase' = [phase EXCEPT ![w] = "plucked"]
    /\ UNCHANGED <<table, producing, life, flight, receiving, faults>>

\* UPDATE ... SET status = 'sending' WHERE id IN ids.
ClaimUpdate(w) ==
    /\ phase[w] = "plucked" /\ StatementSucceeds(w)
    /\ status' = [i \in Ids |-> IF i \in selected[w] THEN ClaimedStatus ELSE status[i]]
    /\ phase' = [phase EXCEPT ![w] = "claimed"]
    /\ UNCHANGED <<event, attempts, due, producing, life, selected, flight, receiving>>

\* SELECT * WHERE id IN ids; drainBatch starts one delivery per row.
ClaimLoad(w) ==
    /\ phase[w] = "claimed" /\ StatementSucceeds(w)
    /\ flight' = [flight EXCEPT ![w] =
                    [i \in Ids |-> IF i \in selected[w] THEN "loaded" ELSE "none"]]
    /\ selected' = [selected EXCEPT ![w] = {}]
    /\ phase' = [phase EXCEPT ![w] = "draining"]
    /\ UNCHANGED <<table, producing, life, receiving>>

\* drainBatch logs the error of either statement and returns.
ClaimError(w) ==
    /\ phase[w] \in {"plucked", "claimed"} /\ StatementFails(w)
    /\ selected' = [selected EXCEPT ![w] = {}]
    /\ phase' = [phase EXCEPT ![w] = "idle"]
    /\ UNCHANGED <<table, producing, life, flight, receiving>>

----------------------------------------------------------------------------
\* Delivering: Dispatcher.deliver and Dispatcher.reschedule.

Fly(w, i, to) == flight' = [flight EXCEPT ![w][i] = to]

\* NewDispatcher registers three strategies. The two cloud strategies read a
\* header that deliver never sets, so that signing always fails.
Registered == {"ilink_cdr", "cloud_hmac", "cloud_bearer"}
Signs(e) == Strategy[e] = "ilink_cdr"

\* A row of an unknown strategy is given up after one attempt.
Budget(i) == IF Strategy[event[i]] \in Registered THEN MaxAttempts ELSE 1

\* What the dispatcher reads back. "cut_2xx" is a 2xx whose body is lost on the
\* way: deliver ignores the error of io.ReadAll. "lost" is an answer that never
\* comes: a time-out, a network error, a cancelled context.
Answers == {"receivedok", "other_json", "non_json_2xx", "non_2xx", "cut_2xx", "lost"}
TellsTaken == {"receivedok", "non_json_2xx"}
TellsNothing == {"cut_2xx", "lost"}

\* Mutant: any 2xx counts, whatever the body says.
Accept2xx(answer) == answer \notin {"non_2xx", "lost"}

\* ILinkCDRStrategy.AcceptResponse: a 2xx whose body, if it is JSON, says RECEIVEDOK.
AcceptResponse(answer) == answer \in {"receivedok", "non_json_2xx", "cut_2xx"}

\* A delivery goroutine gets a slot of the semaphore and builds its request.
DeliverStart(w, i) ==
    /\ flight[w][i] = "loaded"
    /\ Cardinality({j \in Ids : flight[w][j] \in Flights \ {"none", "loaded"}}) < Concurrency
    /\ Fly(w, i, IF Signs(event[i]) /\ life[w] = "running" THEN "posting" ELSE "rejected")
    /\ UNCHANGED <<table, producing, life, phase, selected, receiving, faults>>

\* The POST. Whatever the answer, the receiver may or may not have taken the
\* event, unless the answer tells.
DeliverPost(w, i) ==
    /\ flight[w][i] = "posting"
    /\ \E answer \in Answers, taken \in BOOLEAN :
        /\ life[w] = "stopping" => answer = "lost"
        /\ answer \in TellsNothing \/ (taken <=> answer \in TellsTaken)
        /\ Fly(w, i, IF AcceptResponse(answer) THEN "accepted" ELSE "rejected")
        /\ copies' = IF taken THEN [copies EXCEPT ![i] = @ + 1] ELSE copies
        /\ IF answer = "cut_2xx" THEN Fault /\ cut' = cut \cup {i} ELSE UNCHANGED <<cut, faults>>
    /\ UNCHANGED <<table, producing, life, phase, selected>>

\* db.MarkOutboundSent: UPDATE ... SET status = 'sent' WHERE id = ?
MarkSent(w, i) ==
    /\ flight[w][i] = "accepted" /\ StatementSucceeds(w)
    /\ status' = [status EXCEPT ![i] = "sent"]
    /\ Fly(w, i, "none")
    /\ UNCHANGED <<event, attempts, due, producing, life, phase, selected, receiving>>

\* Mutant: the sign of the counter is wrong.
Refunded(i) == attempts[i] - 1

Bumped(i) == attempts[i] + 1

\* db.MarkOutboundFailed, first statement: 'failed', attempt_count + 1 and the
\* next attempt after the backoff.
MarkFailed(w, i) ==
    /\ flight[w][i] = "rejected" /\ StatementSucceeds(w)
    /\ status' = [status EXCEPT ![i] = "failed"]
    /\ attempts' = [attempts EXCEPT ![i] = Bumped(i)]
    /\ due' = [due EXCEPT ![i] = FALSE]
    /\ Fly(w, i, "bumped")
    /\ UNCHANGED <<event, producing, life, phase, selected, receiving>>

\* Mutants of the budget test: off by one, either way.
ExhaustedLate(i) == attempts[i] > Budget(i)
ExhaustedEarly(i) == attempts[i] + 1 >= Budget(i)

Exhausted(i) == attempts[i] >= Budget(i)

\* db.MarkOutboundFailed, what follows: the count is read, and an UPDATE drops the row once the
\* budget is spent. They are one step, for counts never fall: what the read found spent is spent
\* at the UPDATE, whatever comes between; if it did not, nothing follows. An error of either
\* leaves the row as it is (MarkError).
MarkDropped(w, i) ==
    /\ flight[w][i] = "bumped" /\ StatementSucceeds(w)
    /\ status' = IF Exhausted(i) THEN [status EXCEPT ![i] = "dropped"] ELSE status
    /\ Fly(w, i, "none")
    /\ UNCHANGED <<event, attempts, due, producing, life, phase, selected, receiving>>

\* A failed statement is logged and the delivery ends: the row stays as it is.
MarkError(w, i) ==
    /\ flight[w][i] \in {"accepted", "rejected", "bumped"} /\ StatementFails(w)
    /\ Fly(w, i, "none")
    /\ UNCHANGED <<table, producing, life, phase, selected, receiving>>

\* wg.Wait() of drainBatch: the next tick comes after the last delivery.
DrainDone(w) ==
    /\ phase[w] = "draining"
    /\ \A i \in Ids : ~ InFlight(w, i)
    /\ phase' = [phase EXCEPT ![w] = "idle"]
    /\ UNCHANGED <<table, producing, life, selected, flight, receiving, faults>>

----------------------------------------------------------------------------
\* The life of a dispatcher process, and time.

\* Dispatcher.Stop: the context of every request and statement is cancelled,
\* and Stop waits for drainBatch to return.
Stop(w) ==
    /\ life[w] = "running" /\ Fault
    /\ life' = [life EXCEPT ![w] = "stopping"]
    /\ UNCHANGED <<table, producing, phase, selected, flight, receiving>>

Stopped(w) ==
    /\ life[w] = "stopping" /\ phase[w] = "idle"
    /\ life' = [life EXCEPT ![w] = "down"]
    /\ UNCHANGED <<table, producing, phase, selected, flight, receiving, faults>>

Crash(w) ==
    /\ life[w] # "down" /\ Fault
    /\ life' = [life EXCEPT ![w] = "down"]
    /\ phase' = [phase EXCEPT ![w] = "idle"]
    /\ selected' = [selected EXCEPT ![w] = {}]
    /\ flight' = [flight EXCEPT ![w] = [i \in Ids |-> "none"]]
    /\ UNCHANGED <<table, producing, receiving>>

\* The supervisor starts the process again; the rows are as the last one left them.
Restart(w) ==
    /\ life[w] = "down"
    /\ life' = [life EXCEPT ![w] = "running"]
    /\ UNCHANGED <<table, producing, phase, selected, flight, receiving, faults>>

\* The backoff of a row ends. Full jitter may make it end at once.
Elapse(i) ==
    /\ status[i] = "failed" /\ ~ due[i]
    /\ due' = [due EXCEPT ![i] = TRUE]
    /\ UNCHANGED <<status, event, attempts, producing, dispatching, receiving, faults>>

----------------------------------------------------------------------------
Init ==
    /\ status = [i \in Ids |-> "absent"]
    /\ event = [i \in Ids |-> NoEvent]
    /\ attempts = [i \in Ids |-> 0]
    /\ due = [i \in Ids |-> FALSE]
    /\ pending = [p \in Producers |-> NoEvent]
    /\ accepted = {}
    /\ life = [w \in Workers |-> "running"]
    /\ phase = [w \in Workers |-> "idle"]
    /\ selected = [w \in Workers |-> {}]
    /\ flight = [w \in Workers |-> [i \in Ids |-> "none"]]
    /\ copies = [i \in Ids |-> 0]
    /\ cut = {}
    /\ faults = 0

Enqueue(p) == (\E e \in Events : EnqueueLookup(p, e)) \/ EnqueueInsert(p) \/ EnqueueError(p)
Claim(w) == ClaimPluck(w) \/ ClaimUpdate(w) \/ ClaimLoad(w) \/ ClaimError(w)
Mark(w, i) == MarkSent(w, i) \/ MarkFailed(w, i) \/ MarkDropped(w, i) \/ MarkError(w, i)
Deliver(w, i) == DeliverStart(w, i) \/ DeliverPost(w, i) \/ Mark(w, i)
Live(w) == Stop(w) \/ Stopped(w) \/ Crash(w) \/ Restart(w)

Next ==
    \/ \E p \in Producers : Enqueue(p)
    \/ \E w \in Workers : Claim(w) \/ DrainDone(w) \/ Live(w)
    \/ \E w \in Workers, i \in Ids : Deliver(w, i)
    \/ \E i \in Ids : Elapse(i)

Spec == Init /\ [][Next]_vars

(***************************************************************************)
(* Goroutines are scheduled, the HTTP client times out after 30 seconds,   *)
(* the ticker goes on ticking, the supervisor restarts the process and     *)
(* backoffs are finite. Nothing makes a producer, a crash or Stop happen.  *)
(***************************************************************************)
Fairness ==
    /\ \A w \in Workers : WF_vars(Claim(w)) /\ WF_vars(DrainDone(w))
                          /\ WF_vars(Stopped(w)) /\ WF_vars(Restart(w))
    /\ \A w \in Workers, i \in Ids : WF_vars(Deliver(w, i))
    /\ \A i \in Ids : WF_vars(Elapse(i))

FairSpec == Spec /\ Fairness

----------------------------------------------------------------------------
TypeOK ==
    /\ status \in [Ids -> Statuses]
    /\ event \in [Ids -> Events \cup {NoEvent}]
    /\ attempts \in [Ids -> Nat]
    /\ due \in [Ids -> BOOLEAN]
    /\ pending \in [Producers -> Events \cup {NoEvent}]
    /\ accepted \subseteq Events
    /\ life \in [Workers -> {"running", "stopping", "down"}]
    /\ phase \in [Workers -> Phases]
    /\ selected \in [Workers -> SUBSET Ids]
    /\ flight \in [Workers -> [Ids -> Flights]]
    /\ copies \in [Ids -> Nat]
    /\ cut \subseteq Ids
    /\ faults \in Nat

\* Exactly once at the table layer: however producers interleave, no two rows
\* carry the same (tenant_id, event_type, idempotency_key).
UniqueTriples ==
    \A i, j \in Ids : Present(i) /\ Present(j) /\ event[i] = event[j] => i = j

\* An enqueue that returned no error has left a row for that very event: a
\* producer is never told "deduped" because of another tenant's row.
AcceptedIsDurable ==
    \A e \in accepted : \E i \in Ids : Present(i) /\ event[i] = e

\* A row says 'sent' only if the receiver has taken the event, in this attempt
\* or in an earlier one, across retries and restarts. The one way out is a 2xx
\* answer cut short, whose missing body deliver takes for a body that is no JSON.
SentWasTaken ==
    \A i \in Ids : status[i] = "sent" => copies[i] > 0 \/ i \in cut

\* The receiver gets at most one copy per recorded attempt, and one more of a row
\* being delivered or delivered: a copy is never sent again without the attempt
\* before it being counted, whatever fails. It holds for one dispatcher process.
CopiesArePaidFor ==
    \A i \in Ids : copies[i] <= attempts[i] + (IF status[i] \in {"sending", "sent"} THEN 1 ELSE 0)

\* A row that is being delivered is claimed, until its outcome is recorded: no
\* later claim can take it. It holds for one dispatcher process.
ExclusiveClaim ==
    \A w \in Workers, i \in Ids :
        flight[w][i] \in {"loaded", "posting", "accepted", "rejected"} => status[i] = "sending"

\* The retry budget holds, but for one more attempt per fault: only a fault
\* between the two statements of MarkOutboundFailed lets a row outlive it.
AttemptBudget ==
    \A i \in Ids : Present(i) => attempts[i] <= Budget(i) + faults

\* No row is dropped before its budget is spent.
DroppedSpentBudget ==
    \A i \in Ids : status[i] = "dropped" => attempts[i] >= Budget(i)

\* 'sent' and 'dropped' are final: neither a retry, a restart nor a late
\* statement brings a row back. It holds for one dispatcher process.
TerminalIsFinal ==
    [][\A i \in Ids : Terminal(i) => status'[i] = status[i]]_vars

\* A row nobody will ever touch again: claimed, and its claimant is gone.
Stranded(i) == status[i] = "sending" /\ \A w \in Workers : ~ InFlight(w, i) /\ i \notin selected[w]

\* Every row is eventually sent or dropped. The one way out is a fault while
\* the row was claimed, which strands it.
Settles ==
    \A i \in Ids : status[i] = "queued" ~> Terminal(i) \/ (faults > 0 /\ Stranded(i))

----------------------------------------------------------------------------
(***************************************************************************)
(* The queue of one dispatcher process implements EventDelivery. A row     *)
(* whose attempt is counted but not yet settled is still being tried.      *)
(***************************************************************************)
Unsettled(i) == status[i] = "sending" \/ \E w \in Workers : flight[w][i] = "bumped"

RowStage(i) ==
    IF Terminal(i) THEN status[i] ELSE IF Unsettled(i) THEN "trying" ELSE "waiting"

RowTries(i) == attempts[i] + (IF status[i] \in {"sending", "sent"} THEN 1 ELSE 0)

RowsOf(e) == {i \in Ids : Present(i) /\ event[i] = e}
RowOf(e) == CHOOSE i \in RowsOf(e) : TRUE

Delivery == INSTANCE EventDelivery WITH
    Limit <- [e \in Events |-> IF Strategy[e] \in Registered THEN MaxAttempts ELSE 1],
    stage <- [e \in Events |-> IF RowsOf(e) = {} THEN "unknown" ELSE RowStage(RowOf(e))],
    tries <- [e \in Events |-> IF RowsOf(e) = {} THEN 0 ELSE RowTries(RowOf(e))],
    copies <- [e \in Events |-> IF RowsOf(e) = {} THEN 0 ELSE copies[RowOf(e)]]

\* Claims, retries, faults and restarts, seen from outside, are the life of an
\* event that EventDelivery allows. It holds for one dispatcher process.
DeliverySpec == Delivery!Spec

----------------------------------------------------------------------------
\* What db.go says of the table, "the dispatcher is at-least-once at the HTTP
\* layer": an accepted event is eventually taken by the receiver or dropped.
AtLeastOnce ==
    \A i \in Ids : Present(i) ~> copies[i] > 0 \/ status[i] = "dropped"

\* What db.go says of the claim, "concurrent workers don't double-deliver":
\* no row is being delivered by two dispatchers.
NoDoubleDelivery ==
    \A v, w \in Workers, i \in Ids : InFlight(v, i) /\ InFlight(w, i) => v = w
=============================================================================
