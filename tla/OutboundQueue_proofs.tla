----------------------- MODULE OutboundQueue_proofs ------------------------
(***************************************************************************)
(* Theorems about OutboundQueue, for any number of producers, rows and     *)
(* attempts, and for any number of dispatcher processes unless one is      *)
(* assumed to be the only one.                                             *)
(***************************************************************************)
EXTENDS OutboundQueue, TLAPS

USE DEF table, producing, dispatching, receiving,
        Fault, StatementSucceeds, StatementFails, Fly

----------------------------------------------------------------------------
\* Every action keeps every variable in its range.
LEMMA TypeStep == TypeOK /\ [Next]_vars => TypeOK'
<1> SUFFICES ASSUME TypeOK, [Next]_vars PROVE TypeOK'
  OBVIOUS
<1> USE DEF TypeOK, Statuses, Phases, Flights
<1>1. ASSUME NEW p \in Producers, NEW e \in Events, EnqueueLookup(p, e)
      PROVE  TypeOK'
  BY <1>1 DEF EnqueueLookup
<1>2. ASSUME NEW p \in Producers, EnqueueInsert(p)
      PROVE  TypeOK'
  BY <1>2 DEF EnqueueInsert
<1>3. ASSUME NEW p \in Producers, EnqueueError(p)
      PROVE  TypeOK'
  BY <1>3 DEF EnqueueError
<1>4. ASSUME NEW w \in Workers, ClaimPluck(w)
      PROVE  TypeOK'
  BY <1>4 DEF ClaimPluck, Claimable
<1>5. ASSUME NEW w \in Workers, ClaimUpdate(w)
      PROVE  TypeOK'
  BY <1>5 DEF ClaimUpdate, ClaimedStatus
<1>6. ASSUME NEW w \in Workers, ClaimLoad(w)
      PROVE  TypeOK'
  BY <1>6 DEF ClaimLoad
<1>7. ASSUME NEW w \in Workers, ClaimError(w)
      PROVE  TypeOK'
  BY <1>7 DEF ClaimError
<1>8. ASSUME NEW w \in Workers, NEW i \in Ids, DeliverStart(w, i)
      PROVE  TypeOK'
  BY <1>8 DEF DeliverStart
<1>9. ASSUME NEW w \in Workers, NEW i \in Ids, DeliverPost(w, i)
      PROVE  TypeOK'
  <2> PICK answer \in Answers, taken \in BOOLEAN :
         /\ flight' = [flight EXCEPT ![w][i] = IF AcceptResponse(answer) THEN "accepted" ELSE "rejected"]
         /\ copies' = IF taken THEN [copies EXCEPT ![i] = @ + 1] ELSE copies
         /\ \/ Fault /\ cut' = cut \cup {i}
            \/ UNCHANGED <<cut, faults>>
    BY <1>9 DEF DeliverPost
  <2> UNCHANGED <<table, producing, life, phase, selected>>
    BY <1>9 DEF DeliverPost
  <2> flight' \in [Workers -> [Ids -> Flights]]
    OBVIOUS
  <2> copies' \in [Ids -> Nat]
    OBVIOUS
  <2> cut' \subseteq Ids
    OBVIOUS
  <2> faults' \in Nat
    OBVIOUS
  <2> QED
    OBVIOUS
<1>10. ASSUME NEW w \in Workers, NEW i \in Ids, MarkSent(w, i)
       PROVE  TypeOK'
  BY <1>10 DEF MarkSent
<1>11. ASSUME NEW w \in Workers, NEW i \in Ids, MarkFailed(w, i)
       PROVE  TypeOK'
  BY <1>11 DEF MarkFailed, Bumped
<1>12. ASSUME NEW w \in Workers, NEW i \in Ids, MarkDropped(w, i)
       PROVE  TypeOK'
  BY <1>12 DEF MarkDropped
<1>13. ASSUME NEW w \in Workers, NEW i \in Ids, MarkError(w, i)
       PROVE  TypeOK'
  BY <1>13 DEF MarkError
<1>14. ASSUME NEW w \in Workers, DrainDone(w)
       PROVE  TypeOK'
  BY <1>14 DEF DrainDone
<1>15. ASSUME NEW w \in Workers, Stop(w)
       PROVE  TypeOK'
  BY <1>15 DEF Stop
<1>16. ASSUME NEW w \in Workers, Stopped(w)
       PROVE  TypeOK'
  BY <1>16 DEF Stopped
<1>17. ASSUME NEW w \in Workers, Crash(w)
       PROVE  TypeOK'
  BY <1>17 DEF Crash
<1>18. ASSUME NEW w \in Workers, Restart(w)
       PROVE  TypeOK'
  BY <1>18 DEF Restart
<1>19. ASSUME NEW i \in Ids, Elapse(i)
       PROVE  TypeOK'
  BY <1>19 DEF Elapse
<1>20. CASE UNCHANGED vars
  BY <1>20 DEF vars
<1>21. QED
  BY <1>1, <1>2, <1>3, <1>4, <1>5, <1>6, <1>7, <1>8, <1>9, <1>10, <1>11, <1>12, <1>13, <1>14, <1>15, <1>16, <1>17, <1>18, <1>19, <1>20 DEF Next, Enqueue, Claim, Deliver, Mark, Live

\* The types of all variables, in every reachable state.
THEOREM TypeCorrect == Spec => []TypeOK
<1>1. Init => TypeOK
  BY DEF Init, TypeOK, Statuses, Phases, Flights
<1>2. QED
  BY <1>1, TypeStep, PTL DEF Spec

----------------------------------------------------------------------------
\* The statements that write a row; every other step leaves the rows alone.
LEMMA TableStep ==
    ASSUME [Next]_vars
    PROVE  \/ \E p \in Producers : EnqueueInsert(p)
           \/ \E w \in Workers : ClaimUpdate(w)
           \/ \E w \in Workers, i \in Ids : MarkSent(w, i) \/ MarkFailed(w, i) \/ MarkDropped(w, i)
           \/ UNCHANGED <<status, event, attempts>>
BY ZenonT(30) DEF Next, vars, Enqueue, Claim, Deliver, Mark, Live,
       EnqueueLookup, EnqueueError, ClaimPluck, ClaimLoad, ClaimError, DeliverStart, DeliverPost,
       MarkError, DrainDone, Stop, Stopped, Crash, Restart, Elapse

\* A row never disappears, is never given to another event, and its attempts are
\* never forgotten.
RowsKept ==
    \A i \in Ids : Present(i) =>
        Present(i)' /\ event'[i] = event[i] /\ attempts'[i] >= attempts[i]

\* Every step keeps the rows there are.
LEMMA RowsPersist == TypeOK /\ [Next]_vars => RowsKept
<1> SUFFICES ASSUME TypeOK, [Next]_vars PROVE RowsKept
  OBVIOUS
<1> USE DEF TypeOK, RowsKept, Present
<1>1. ASSUME NEW p \in Producers, EnqueueInsert(p) PROVE RowsKept
  BY <1>1 DEF EnqueueInsert
<1>2. ASSUME NEW w \in Workers, ClaimUpdate(w) PROVE RowsKept
  BY <1>2 DEF ClaimUpdate, ClaimedStatus
<1>3. ASSUME NEW w \in Workers, NEW i \in Ids, MarkSent(w, i) PROVE RowsKept
  BY <1>3 DEF MarkSent
<1>4. ASSUME NEW w \in Workers, NEW i \in Ids, MarkFailed(w, i) PROVE RowsKept
  BY <1>4 DEF MarkFailed, Bumped
<1>5. ASSUME NEW w \in Workers, NEW i \in Ids, MarkDropped(w, i) PROVE RowsKept
  BY <1>5 DEF MarkDropped
<1>6. CASE UNCHANGED <<status, event, attempts>>
  BY <1>6
<1>7. QED
  BY <1>1, <1>2, <1>3, <1>4, <1>5, <1>6, TableStep

----------------------------------------------------------------------------
\* What a dispatcher holds are rows that exist.
RowsExist ==
    /\ \A w \in Workers : \A i \in selected[w] : Present(i)
    /\ \A w \in Workers, i \in Ids : InFlight(w, i) => Present(i)

\* A dispatcher never comes to hold an id without a row.
LEMMA RowsExistStep == TypeOK /\ RowsExist /\ [Next]_vars => RowsExist'
<1> SUFFICES ASSUME TypeOK, RowsExist, [Next]_vars PROVE RowsExist'
  OBVIOUS
<1>1. \A i \in Ids : Present(i) => Present(i)'
  BY RowsPersist DEF RowsKept
<1>2. \A w \in Workers : \A i \in selected'[w] : i \in selected[w] \/ Present(i)
  <2>1. ASSUME NEW v \in Workers, ClaimPluck(v)
        PROVE  \A w \in Workers : \A i \in selected'[w] : i \in selected[w] \/ Present(i)
    BY <2>1 DEF ClaimPluck, Claimable, TypeOK, Present
  <2>2. ASSUME NEW v \in Workers, ClaimLoad(v) \/ ClaimError(v) \/ Crash(v)
        PROVE  \A w \in Workers : selected'[w] \subseteq selected[w]
    BY <2>2 DEF ClaimLoad, ClaimError, Crash, TypeOK
  <2>3. CASE UNCHANGED selected
    BY <2>3
  <2>4. QED
    BY <2>1, <2>2, <2>3, ZenonT(30) DEF Next, vars, Enqueue, Claim, Deliver, Mark, Live,
       EnqueueLookup, EnqueueInsert, EnqueueError, ClaimUpdate, DeliverStart, DeliverPost,
       MarkSent, MarkFailed, MarkDropped, MarkError, DrainDone, Stop, Stopped, Restart, Elapse
<1>3. \A w \in Workers, i \in Ids : InFlight(w, i)' => InFlight(w, i) \/ i \in selected[w]
  <2>1. ASSUME NEW v \in Workers, ClaimLoad(v)
        PROVE  \A w \in Workers, i \in Ids : InFlight(w, i)' => InFlight(w, i) \/ i \in selected[w]
    BY <2>1 DEF ClaimLoad, InFlight, TypeOK
  <2>2. ASSUME NEW v \in Workers, Crash(v)
        PROVE  \A w \in Workers, i \in Ids : InFlight(w, i)' => InFlight(w, i)
    BY <2>2 DEF Crash, InFlight, TypeOK
  <2>3. ASSUME NEW v \in Workers, NEW j \in Ids, NEW to, flight[v][j] # "none", Fly(v, j, to)
        PROVE  \A w \in Workers, i \in Ids : InFlight(w, i)' => InFlight(w, i)
    BY <2>3 DEF InFlight, TypeOK
  <2>4. ASSUME NEW v \in Workers, NEW j \in Ids, Deliver(v, j)
        PROVE  \A w \in Workers, i \in Ids : InFlight(w, i)' => InFlight(w, i)
    <3>1. \E to : Fly(v, j, to)
      BY <2>4 DEF Deliver, Mark, DeliverStart, DeliverPost, MarkSent, MarkFailed, MarkDropped, MarkError
    <3>2. flight[v][j] # "none"
      BY <2>4 DEF Deliver, Mark, DeliverStart, DeliverPost, MarkSent, MarkFailed, MarkDropped, MarkError
    <3>3. QED
      BY <2>3, <3>1, <3>2
  <2>5. CASE UNCHANGED flight
    BY <2>5 DEF InFlight
  <2>6. QED
    BY <2>1, <2>2, <2>4, <2>5 DEF Next, vars, Enqueue, Claim, Live,
       EnqueueLookup, EnqueueInsert, EnqueueError, ClaimPluck, ClaimUpdate, ClaimError,
       DrainDone, Stop, Stopped, Restart, Elapse
<1>4. \A w \in Workers : selected'[w] \subseteq Ids
  BY TypeStep DEF TypeOK
<1>5. QED
  BY <1>1, <1>2, <1>3, <1>4 DEF RowsExist

----------------------------------------------------------------------------
\* Two producers may both miss the same event in their lookups; the index lets
\* only one of their rows in.
LEMMA UniqueTriplesStep ==
    TypeOK /\ RowsExist /\ UniqueTriples /\ [Next]_vars => UniqueTriples'
<1> SUFFICES ASSUME TypeOK, RowsExist, UniqueTriples, [Next]_vars PROVE UniqueTriples'
  OBVIOUS
<1> USE DEF TypeOK, UniqueTriples, Present
<1>1. ASSUME NEW p \in Producers, EnqueueInsert(p) PROVE UniqueTriples'
  <2>1. \A j \in Ids : Present(j) => event[j] # pending[p]
    BY <1>1 DEF EnqueueInsert, IndexConflict
  <2>2. QED
    BY <1>1, <2>1 DEF EnqueueInsert
<1>2. ASSUME NEW w \in Workers, ClaimUpdate(w) PROVE UniqueTriples'
  BY <1>2 DEF ClaimUpdate, RowsExist
<1>3. ASSUME NEW w \in Workers, NEW i \in Ids,
             MarkSent(w, i) \/ MarkFailed(w, i) \/ MarkDropped(w, i)
      PROVE  UniqueTriples'
  BY <1>3 DEF MarkSent, MarkFailed, MarkDropped, RowsExist, InFlight
<1>4. CASE UNCHANGED <<status, event, attempts>>
  BY <1>4
<1>5. QED
  BY <1>1, <1>2, <1>3, <1>4, TableStep

\* An accepted event keeps its row.
LEMMA AcceptedIsDurableStep ==
    TypeOK /\ AcceptedIsDurable /\ [Next]_vars => AcceptedIsDurable'
<1> SUFFICES ASSUME TypeOK, AcceptedIsDurable, [Next]_vars PROVE AcceptedIsDurable'
  OBVIOUS
<1>1. ASSUME NEW e, \E i \in Ids : Present(i) /\ event[i] = e
      PROVE  \E i \in Ids : Present(i)' /\ event'[i] = e
  BY <1>1, RowsPersist DEF RowsKept
<1>2. ASSUME NEW p \in Producers, NEW e \in Events, EnqueueLookup(p, e) PROVE AcceptedIsDurable'
  BY <1>1, <1>2 DEF EnqueueLookup, Lookup, AcceptedIsDurable
<1>3. ASSUME NEW p \in Producers, EnqueueInsert(p) PROVE AcceptedIsDurable'
  <2>1. \E i \in Ids : Present(i)' /\ event'[i] = pending[p]
    BY <1>3 DEF EnqueueInsert, TypeOK, Present
  <2>2. QED
    BY <1>1, <1>3, <2>1 DEF EnqueueInsert, AcceptedIsDurable
<1>4. CASE UNCHANGED accepted
  BY <1>1, <1>4 DEF AcceptedIsDurable
<1>5. QED
  BY <1>2, <1>3, <1>4, ZenonT(30) DEF Next, vars, Enqueue, Claim, Deliver, Mark, Live,
     EnqueueError, ClaimPluck, ClaimUpdate, ClaimLoad, ClaimError, DeliverStart, DeliverPost,
     MarkSent, MarkFailed, MarkDropped, MarkError, DrainDone, Stop, Stopped, Crash, Restart, Elapse

\* A dropped row has spent its budget, and an attempt is never taken back.
LEMMA DroppedSpentBudgetStep ==
    TypeOK /\ RowsExist /\ DroppedSpentBudget /\ [Next]_vars => DroppedSpentBudget'
<1> SUFFICES ASSUME TypeOK, RowsExist, DroppedSpentBudget, [Next]_vars PROVE DroppedSpentBudget'
  OBVIOUS
<1>1. ASSUME NEW i \in Ids, status[i] = "dropped" PROVE attempts'[i] >= Budget(i)'
  <2>1. attempts'[i] >= attempts[i] /\ event'[i] = event[i]
    BY <1>1, RowsPersist DEF RowsKept, Present
  <2>2. Budget(i)' = Budget(i)
    BY <2>1 DEF Budget
  <2>3. attempts[i] >= Budget(i) /\ attempts[i] \in Nat /\ attempts'[i] \in Nat /\ Budget(i) \in Nat
    BY <1>1, TypeStep, OutboundAssumption DEF DroppedSpentBudget, TypeOK, Budget
  <2>4. QED
    BY <2>1, <2>2, <2>3
<1>2. ASSUME NEW i \in Ids, status[i] # "dropped", status'[i] = "dropped"
      PROVE  attempts'[i] >= Budget(i)'
  <2>1. PICK w \in Workers : MarkDropped(w, i)
    BY <1>2, TableStep DEF EnqueueInsert, ClaimUpdate, ClaimedStatus, MarkSent, MarkFailed, MarkDropped, TypeOK
  <2>2. Exhausted(i)
    BY <1>2, <2>1 DEF MarkDropped
  <2>3. QED
    BY <2>1, <2>2 DEF MarkDropped, Exhausted, Budget
<1>3. QED
  BY <1>1, <1>2 DEF DroppedSpentBudget

----------------------------------------------------------------------------
\* A delivery whose answer was read as a success: the receiver has the event, or
\* the body of the answer was cut.
AnswersTold ==
    \A w \in Workers, i \in Ids :
        flight[w][i] = "accepted" => copies[i] > 0 \/ i \in cut

\* A POST that ends as accepted was answered by a receiver that took the event, or cut.
LEMMA AnswersToldStep == TypeOK /\ AnswersTold /\ [Next]_vars => AnswersTold'
<1> SUFFICES ASSUME TypeOK, AnswersTold, [Next]_vars PROVE AnswersTold'
  OBVIOUS
<1> USE DEF TypeOK, AnswersTold
<1>1. ASSUME NEW w \in Workers, NEW i \in Ids, DeliverPost(w, i) PROVE AnswersTold'
  <2>1. PICK answer \in Answers, taken \in BOOLEAN :
         /\ answer \in TellsNothing \/ (taken <=> answer \in TellsTaken)
         /\ Fly(w, i, IF AcceptResponse(answer) THEN "accepted" ELSE "rejected")
         /\ copies' = IF taken THEN [copies EXCEPT ![i] = @ + 1] ELSE copies
         /\ IF answer = "cut_2xx" THEN cut' = cut \cup {i} ELSE UNCHANGED cut
    BY <1>1 DEF DeliverPost
  <2>2. cut \subseteq cut' /\ \A j \in Ids : copies'[j] >= copies[j]
    BY <2>1
  <2>3. ASSUME AcceptResponse(answer) PROVE copies'[i] > 0 \/ i \in cut'
    BY <2>1, <2>3 DEF AcceptResponse, TellsNothing, TellsTaken
  <2>4. ASSUME NEW v \in Workers, NEW j \in Ids, flight'[v][j] = "accepted"
        PROVE  (v = w /\ j = i /\ AcceptResponse(answer)) \/ flight[v][j] = "accepted"
    BY <2>1, <2>4
  <2>5. \A j \in Ids : copies'[j] \in Nat /\ copies[j] \in Nat
    BY TypeStep
  <2>6. QED
    BY <2>2, <2>3, <2>4, <2>5
<1>2. ASSUME NEW w \in Workers, NEW i \in Ids, DeliverStart(w, i) \/ Mark(w, i) PROVE AnswersTold'
  <2>1. UNCHANGED <<copies, cut>>
    BY <1>2 DEF DeliverStart, Mark, MarkSent, MarkFailed, MarkDropped, MarkError
  <2>2. \E to \in Flights \ {"accepted"} : Fly(w, i, to)
    BY <1>2 DEF DeliverStart, Mark, MarkSent, MarkFailed, MarkDropped, MarkError, Flights
  <2>3. QED
    BY <2>1, <2>2
<1>3. ASSUME NEW w \in Workers, ClaimLoad(w) \/ Crash(w) PROVE AnswersTold'
  <2>1. UNCHANGED <<copies, cut>>
    BY <1>3 DEF ClaimLoad, Crash
  <2>2. ASSUME NEW j \in Ids PROVE flight'[w][j] # "accepted"
    <3>1. CASE ClaimLoad(w)
      <4>1. flight'[w] = [i \in Ids |-> IF i \in selected[w] THEN "loaded" ELSE "none"]
        BY <3>1 DEF ClaimLoad
      <4>2. QED
        BY <4>1
    <3>2. CASE Crash(w)
      <4>1. flight'[w] = [i \in Ids |-> "none"]
        BY <3>2 DEF Crash
      <4>2. QED
        BY <4>1
    <3>3. QED
      BY <1>3, <3>1, <3>2
  <2>3. \A v \in Workers : v # w => flight'[v] = flight[v]
    BY <1>3 DEF ClaimLoad, Crash
  <2>4. QED
    BY <2>1, <2>2, <2>3
<1>4. CASE UNCHANGED <<flight, copies, cut>>
  BY <1>4
<1>5. QED
  BY <1>1, <1>2, <1>3, <1>4 DEF Next, vars, Enqueue, Claim, Deliver, Live,
     EnqueueLookup, EnqueueInsert, EnqueueError, ClaimPluck, ClaimUpdate, ClaimError,
     DrainDone, Stop, Stopped, Restart, Elapse

\* A row becomes 'sent' only after such an answer, and copies are never taken back.
LEMMA SentWasTakenStep ==
    TypeOK /\ AnswersTold /\ SentWasTaken /\ [Next]_vars => SentWasTaken'
<1> SUFFICES ASSUME TypeOK, AnswersTold, SentWasTaken, [Next]_vars PROVE SentWasTaken'
  OBVIOUS
<1> USE DEF TypeOK
<1>1. cut \subseteq cut' /\ \A i \in Ids : copies[i] > 0 => copies'[i] > 0
  <2>1. ASSUME NEW w \in Workers, NEW i \in Ids, DeliverPost(w, i)
        PROVE  cut \subseteq cut' /\ \A j \in Ids : copies[j] > 0 => copies'[j] > 0
    BY <2>1 DEF DeliverPost
  <2>2. CASE UNCHANGED <<copies, cut>>
    BY <2>2
  <2>3. QED
    BY <2>1, <2>2, ZenonT(30) DEF Next, vars, Enqueue, Claim, Deliver, Mark, Live,
       EnqueueLookup, EnqueueInsert, EnqueueError, ClaimPluck, ClaimUpdate, ClaimLoad, ClaimError,
       DeliverStart, MarkSent, MarkFailed, MarkDropped, MarkError,
       DrainDone, Stop, Stopped, Crash, Restart, Elapse
<1>2. ASSUME NEW i \in Ids, status'[i] = "sent", status[i] # "sent"
      PROVE  \E w \in Workers : flight[w][i] = "accepted"
  BY <1>2, TableStep DEF EnqueueInsert, ClaimUpdate, ClaimedStatus, MarkSent, MarkFailed, MarkDropped
<1>3. QED
  BY <1>1, <1>2 DEF SentWasTaken, AnswersTold

----------------------------------------------------------------------------
(***************************************************************************)
(* The inductive invariant for any number of dispatcher processes.         *)
(***************************************************************************)
QueueInv ==
    /\ TypeOK
    /\ RowsExist
    /\ UniqueTriples
    /\ AcceptedIsDurable
    /\ DroppedSpentBudget
    /\ AnswersTold
    /\ SentWasTaken

\* The invariant holds of an empty table.
LEMMA QueueInvInit == Init => QueueInv
BY DEF Init, QueueInv, TypeOK, Statuses, Phases, Flights, RowsExist, UniqueTriples,
       AcceptedIsDurable, DroppedSpentBudget, AnswersTold, SentWasTaken, Present, InFlight

\* Every step preserves it.
LEMMA QueueInvStep == QueueInv /\ [Next]_vars => QueueInv'
BY TypeStep, RowsExistStep, UniqueTriplesStep, AcceptedIsDurableStep,
   DroppedSpentBudgetStep, AnswersToldStep, SentWasTakenStep DEF QueueInv

\* It holds in every reachable state.
LEMMA QueueInvInductive == Spec => []QueueInv
BY QueueInvInit, QueueInvStep, PTL DEF Spec

\* No event has two rows, whatever the producers and however they interleave.
THEOREM OneRowPerEvent == Spec => []UniqueTriples
BY QueueInvInductive, PTL DEF QueueInv

\* An enqueue that returned without an error has left a row for its own event.
THEOREM EnqueueIsDurable == Spec => []AcceptedIsDurable
BY QueueInvInductive, PTL DEF QueueInv

\* A row marked 'sent' was taken by the receiver, unless its answer was cut.
THEOREM SentIsTaken == Spec => []SentWasTaken
BY QueueInvInductive, PTL DEF QueueInv

\* No row is given up early.
THEOREM DroppedIsSpent == Spec => []DroppedSpentBudget
BY QueueInvInductive, PTL DEF QueueInv

\* A dispatcher that is alone holds only rows that are its own: it holds none
\* while it claims, and what it holds is marked as claimed.
HoldsItsRows(w) ==
    /\ phase[w] # "draining" => \A i \in Ids : flight[w][i] = "none"
    /\ phase[w] \in {"idle", "draining"} => selected[w] = {}
    /\ phase[w] = "plucked" => \A i \in selected[w] : status[i] \in {"queued", "failed"}
    /\ phase[w] = "claimed" => \A i \in selected[w] : status[i] = "sending"
    /\ \A i \in Ids :
        /\ flight[w][i] \in {"loaded", "posting", "accepted", "rejected"} => status[i] = "sending"
        /\ flight[w][i] = "bumped" => status[i] = "failed"

\* A row whose next copy has not been sent yet has all its copies accounted for.
CopiesPaid(w) ==
    /\ CopiesArePaidFor
    /\ phase[w] = "claimed" => \A i \in selected[w] : copies[i] <= attempts[i]
    /\ \A i \in Ids : flight[w][i] \in {"loaded", "posting"} => copies[i] <= attempts[i]

\* Every step of a lone dispatcher, and of the producers, preserves HoldsItsRows.
LEMMA HoldsItsRowsStep ==
    ASSUME NEW w \in Workers, \A v \in Workers : v = w,
           TypeOK, RowsExist, HoldsItsRows(w), [Next]_vars
    PROVE  HoldsItsRows(w)'
<1> USE DEF TypeOK, HoldsItsRows, Present, RowsExist
<1>1. ASSUME NEW p \in Producers, NEW e \in Events, EnqueueLookup(p, e) PROVE HoldsItsRows(w)'
  BY <1>1 DEF EnqueueLookup
<1>2. ASSUME NEW p \in Producers, EnqueueInsert(p) PROVE HoldsItsRows(w)'
  BY <1>2 DEF EnqueueInsert
<1>3. ASSUME NEW p \in Producers, EnqueueError(p) PROVE HoldsItsRows(w)'
  BY <1>3 DEF EnqueueError
<1>4. ASSUME NEW v \in Workers, ClaimPluck(v) PROVE HoldsItsRows(w)'
  BY <1>4 DEF ClaimPluck, Claimable
<1>5. ASSUME NEW v \in Workers, ClaimUpdate(v) PROVE HoldsItsRows(w)'
  BY <1>5 DEF ClaimUpdate, ClaimedStatus
<1>6. ASSUME NEW v \in Workers, ClaimLoad(v) PROVE HoldsItsRows(w)'
  BY <1>6 DEF ClaimLoad
<1>7. ASSUME NEW v \in Workers, ClaimError(v) PROVE HoldsItsRows(w)'
  BY <1>7 DEF ClaimError
<1>8. ASSUME NEW v \in Workers, NEW j \in Ids, DeliverStart(v, j) PROVE HoldsItsRows(w)'
  BY <1>8 DEF DeliverStart
<1>9. ASSUME NEW v \in Workers, NEW j \in Ids, DeliverPost(v, j) PROVE HoldsItsRows(w)'
  BY <1>9 DEF DeliverPost
<1>10. ASSUME NEW v \in Workers, NEW j \in Ids, MarkSent(v, j) PROVE HoldsItsRows(w)'
  BY <1>10 DEF MarkSent
<1>11. ASSUME NEW v \in Workers, NEW j \in Ids, MarkFailed(v, j) PROVE HoldsItsRows(w)'
  BY <1>11 DEF MarkFailed, Bumped
<1>12. ASSUME NEW v \in Workers, NEW j \in Ids, MarkDropped(v, j) PROVE HoldsItsRows(w)'
  BY <1>12 DEF MarkDropped
<1>13. ASSUME NEW v \in Workers, NEW j \in Ids, MarkError(v, j) PROVE HoldsItsRows(w)'
  BY <1>13 DEF MarkError
<1>14. ASSUME NEW v \in Workers, DrainDone(v) PROVE HoldsItsRows(w)'
  BY <1>14 DEF DrainDone, InFlight
<1>15. ASSUME NEW v \in Workers, Stop(v) PROVE HoldsItsRows(w)'
  BY <1>15 DEF Stop
<1>16. ASSUME NEW v \in Workers, Stopped(v) PROVE HoldsItsRows(w)'
  BY <1>16 DEF Stopped
<1>17. ASSUME NEW v \in Workers, Crash(v) PROVE HoldsItsRows(w)'
  BY <1>17 DEF Crash
<1>18. ASSUME NEW v \in Workers, Restart(v) PROVE HoldsItsRows(w)'
  BY <1>18 DEF Restart
<1>19. ASSUME NEW j \in Ids, Elapse(j) PROVE HoldsItsRows(w)'
  BY <1>19 DEF Elapse
<1>20. CASE UNCHANGED vars
  BY <1>20 DEF vars
<1>21. QED
  BY <1>1, <1>2, <1>3, <1>4, <1>5, <1>6, <1>7, <1>8, <1>9, <1>10,
     <1>11, <1>12, <1>13, <1>14, <1>15, <1>16, <1>17, <1>18, <1>19, <1>20
     DEF Next, Enqueue, Claim, Deliver, Mark, Live

\* Every step of a lone dispatcher, and of the producers, preserves CopiesPaid.
LEMMA CopiesPaidStep ==
    ASSUME NEW w \in Workers, \A v \in Workers : v = w,
           TypeOK, HoldsItsRows(w), CopiesPaid(w), [Next]_vars
    PROVE  CopiesPaid(w)'
<1> USE DEF TypeOK, HoldsItsRows, CopiesPaid, CopiesArePaidFor, Present
<1>1. ASSUME NEW p \in Producers, NEW e \in Events, EnqueueLookup(p, e) PROVE CopiesPaid(w)'
  BY <1>1 DEF EnqueueLookup
<1>2. ASSUME NEW p \in Producers, EnqueueInsert(p) PROVE CopiesPaid(w)'
  BY <1>2 DEF EnqueueInsert
<1>3. ASSUME NEW p \in Producers, EnqueueError(p) PROVE CopiesPaid(w)'
  BY <1>3 DEF EnqueueError
<1>4. ASSUME NEW v \in Workers, ClaimPluck(v) PROVE CopiesPaid(w)'
  BY <1>4 DEF ClaimPluck, Claimable
<1>5. ASSUME NEW v \in Workers, ClaimUpdate(v) PROVE CopiesPaid(w)'
  BY <1>5 DEF ClaimUpdate, ClaimedStatus
<1>6. ASSUME NEW v \in Workers, ClaimLoad(v) PROVE CopiesPaid(w)'
  BY <1>6 DEF ClaimLoad
<1>7. ASSUME NEW v \in Workers, ClaimError(v) PROVE CopiesPaid(w)'
  BY <1>7 DEF ClaimError
<1>8. ASSUME NEW v \in Workers, NEW j \in Ids, DeliverStart(v, j) PROVE CopiesPaid(w)'
  BY <1>8 DEF DeliverStart
<1>9. ASSUME NEW v \in Workers, NEW j \in Ids, DeliverPost(v, j) PROVE CopiesPaid(w)'
  BY <1>9 DEF DeliverPost
<1>10. ASSUME NEW v \in Workers, NEW j \in Ids, MarkSent(v, j) PROVE CopiesPaid(w)'
  BY <1>10 DEF MarkSent
<1>11. ASSUME NEW v \in Workers, NEW j \in Ids, MarkFailed(v, j) PROVE CopiesPaid(w)'
  BY <1>11 DEF MarkFailed, Bumped
<1>12. ASSUME NEW v \in Workers, NEW j \in Ids, MarkDropped(v, j) PROVE CopiesPaid(w)'
  BY <1>12 DEF MarkDropped
<1>13. ASSUME NEW v \in Workers, NEW j \in Ids, MarkError(v, j) PROVE CopiesPaid(w)'
  BY <1>13 DEF MarkError
<1>14. ASSUME NEW v \in Workers, DrainDone(v) PROVE CopiesPaid(w)'
  BY <1>14 DEF DrainDone, InFlight
<1>15. ASSUME NEW v \in Workers, Stop(v) PROVE CopiesPaid(w)'
  BY <1>15 DEF Stop
<1>16. ASSUME NEW v \in Workers, Stopped(v) PROVE CopiesPaid(w)'
  BY <1>16 DEF Stopped
<1>17. ASSUME NEW v \in Workers, Crash(v) PROVE CopiesPaid(w)'
  BY <1>17 DEF Crash
<1>18. ASSUME NEW v \in Workers, Restart(v) PROVE CopiesPaid(w)'
  BY <1>18 DEF Restart
<1>19. ASSUME NEW j \in Ids, Elapse(j) PROVE CopiesPaid(w)'
  BY <1>19 DEF Elapse
<1>20. CASE UNCHANGED vars
  BY <1>20 DEF vars
<1>21. QED
  BY <1>1, <1>2, <1>3, <1>4, <1>5, <1>6, <1>7, <1>8, <1>9, <1>10,
     <1>11, <1>12, <1>13, <1>14, <1>15, <1>16, <1>17, <1>18, <1>19, <1>20
     DEF Next, Enqueue, Claim, Deliver, Mark, Live

\* The budget of a row is a positive number, and does not change.
LEMMA BudgetIsFixed ==
    ASSUME TypeOK, [Next]_vars, NEW i \in Ids
    PROVE  /\ Budget(i) \in Nat \ {0} /\ Budget(i)' \in Nat \ {0}
           /\ Present(i) => Budget(i)' = Budget(i)
<1>1. Present(i) => event'[i] = event[i]
  BY RowsPersist DEF RowsKept
<1>2. QED
  BY <1>1, OutboundAssumption DEF Budget

\* An attempt of a row counts as spent from the first statement of
\* MarkOutboundFailed to the second, unless the dispatcher is being stopped: then
\* the second will not come, and the fault has been counted.
Spendable(w, i) == status[i] # "dropped" /\ ~ (flight[w][i] = "bumped" /\ life[w] = "running")

\* Every row that can be spent has an attempt left, or as many more as there were faults.
BudgetKept(w) ==
    \A i \in Ids :
        /\ ~ Present(i) => attempts[i] = 0
        /\ attempts[i] <= Budget(i) + faults
        /\ Spendable(w, i) => attempts[i] < Budget(i) + faults

\* Every step of a lone dispatcher, and of the producers, preserves BudgetKept.
LEMMA BudgetKeptStep ==
    ASSUME NEW w \in Workers, \A v \in Workers : v = w,
           TypeOK, RowsExist, HoldsItsRows(w), BudgetKept(w), [Next]_vars
    PROVE  BudgetKept(w)'
<1> DEFINE Kept(i) == /\ ~ Present(i) => attempts[i] = 0
                      /\ attempts[i] <= Budget(i) + faults
                      /\ Spendable(w, i) => attempts[i] < Budget(i) + faults
<1> SUFFICES ASSUME NEW i \in Ids PROVE Kept(i)'
  BY DEF BudgetKept
<1>a. /\ Budget(i) \in Nat \ {0} /\ Budget(i)' \in Nat \ {0}
      /\ Present(i) => Budget(i)' = Budget(i)
  BY BudgetIsFixed
<1>b. Kept(i)
  BY DEF BudgetKept
<1>c. InFlight(w, i) => Present(i)
  BY DEF RowsExist
<1> USE <1>a, <1>b, <1>c DEF TypeOK, HoldsItsRows, InFlight, Present, Spendable
<1>1. ASSUME NEW p \in Producers, NEW e \in Events, EnqueueLookup(p, e) PROVE Kept(i)'
  BY <1>1, SMTT(30) DEF EnqueueLookup
<1>2. ASSUME NEW p \in Producers, EnqueueInsert(p) PROVE Kept(i)'
  BY <1>2 DEF EnqueueInsert
<1>3. ASSUME NEW p \in Producers, EnqueueError(p) PROVE Kept(i)'
  BY <1>3 DEF EnqueueError
<1>4. ASSUME NEW v \in Workers, ClaimPluck(v) PROVE Kept(i)'
  BY <1>4 DEF ClaimPluck
<1>5. ASSUME NEW v \in Workers, ClaimUpdate(v) PROVE Kept(i)'
  BY <1>5, SMTT(30) DEF ClaimUpdate, ClaimedStatus
<1>6. ASSUME NEW v \in Workers, ClaimLoad(v) PROVE Kept(i)'
  BY <1>6 DEF ClaimLoad
<1>7. ASSUME NEW v \in Workers, ClaimError(v) PROVE Kept(i)'
  BY <1>7 DEF ClaimError
<1>8. ASSUME NEW v \in Workers, NEW j \in Ids, DeliverStart(v, j) PROVE Kept(i)'
  BY <1>8, SMTT(30) DEF DeliverStart
<1>9. ASSUME NEW v \in Workers, NEW j \in Ids, DeliverPost(v, j) PROVE Kept(i)'
  BY <1>9 DEF DeliverPost
<1>10. ASSUME NEW v \in Workers, NEW j \in Ids, MarkSent(v, j) PROVE Kept(i)'
  <2>1. /\ v = w /\ UNCHANGED <<event, attempts, life, faults>>
        /\ flight[w][j] = "accepted"
        /\ status' = [status EXCEPT ![j] = "sent"]
        /\ flight' = [flight EXCEPT ![w][j] = "none"]
    BY <1>10 DEF MarkSent
  <2>2. CASE i = j
    BY <2>1, <2>2
  <2>3. CASE i # j
    BY <2>1, <2>3
  <2>4. QED
    BY <2>2, <2>3
<1>11. ASSUME NEW v \in Workers, NEW j \in Ids, MarkFailed(v, j) PROVE Kept(i)'
  BY <1>11, SMTT(30) DEF MarkFailed, Bumped
<1>12. ASSUME NEW v \in Workers, NEW j \in Ids, MarkDropped(v, j) PROVE Kept(i)'
  BY <1>12 DEF MarkDropped, Exhausted
<1>13. ASSUME NEW v \in Workers, NEW j \in Ids, MarkError(v, j) PROVE Kept(i)'
  BY <1>13 DEF MarkError
<1>14. ASSUME NEW v \in Workers, DrainDone(v) PROVE Kept(i)'
  BY <1>14 DEF DrainDone
<1>15. ASSUME NEW v \in Workers, Stop(v) PROVE Kept(i)'
  BY <1>15 DEF Stop
<1>16. ASSUME NEW v \in Workers, Stopped(v) PROVE Kept(i)'
  BY <1>16 DEF Stopped
<1>17. ASSUME NEW v \in Workers, Crash(v) PROVE Kept(i)'
  BY <1>17 DEF Crash
<1>18. ASSUME NEW v \in Workers, Restart(v) PROVE Kept(i)'
  BY <1>18 DEF Restart
<1>19. ASSUME NEW j \in Ids, Elapse(j) PROVE Kept(i)'
  BY <1>19 DEF Elapse
<1>20. CASE UNCHANGED vars
  BY <1>20 DEF vars
<1>21. QED
  BY <1>1, <1>2, <1>3, <1>4, <1>5, <1>6, <1>7, <1>8, <1>9, <1>10,
     <1>11, <1>12, <1>13, <1>14, <1>15, <1>16, <1>17, <1>18, <1>19, <1>20
     DEF Next, Enqueue, Claim, Deliver, Mark, Live

----------------------------------------------------------------------------
(***************************************************************************)
(* The inductive invariant of a dispatcher that is the only one.           *)
(***************************************************************************)
LoneInv(w) == QueueInv /\ HoldsItsRows(w) /\ CopiesPaid(w) /\ BudgetKept(w)

\* The invariant of a lone dispatcher holds in every reachable state.
LEMMA LoneInvInductive ==
    ASSUME NEW w \in Workers, \A v \in Workers : v = w
    PROVE  Spec => []LoneInv(w)
<1>1. Init => HoldsItsRows(w) /\ CopiesPaid(w) /\ BudgetKept(w)
  BY OutboundAssumption
     DEF Init, HoldsItsRows, CopiesPaid, CopiesArePaidFor, BudgetKept, Budget, Present
<1>2. LoneInv(w) /\ [Next]_vars => LoneInv(w)'
  BY QueueInvStep, HoldsItsRowsStep, CopiesPaidStep, BudgetKeptStep DEF LoneInv, QueueInv
<1>3. QED
  BY <1>1, <1>2, QueueInvInit, PTL DEF Spec, LoneInv

\* With one dispatcher process, a row being delivered is marked as claimed.
THEOREM ClaimIsExclusive ==
    ASSUME NEW w \in Workers, \A v \in Workers : v = w
    PROVE  Spec => []ExclusiveClaim
<1>1. LoneInv(w) => ExclusiveClaim
  BY DEF LoneInv, HoldsItsRows, ExclusiveClaim
<1>2. QED
  BY <1>1, LoneInvInductive, PTL

\* With one dispatcher process, the receiver gets at most one copy per recorded
\* attempt, and one more of a row being delivered or delivered.
THEOREM CopiesAreCounted ==
    ASSUME NEW w \in Workers, \A v \in Workers : v = w
    PROVE  Spec => []CopiesArePaidFor
<1>1. LoneInv(w) => CopiesArePaidFor
  BY DEF LoneInv, CopiesPaid
<1>2. QED
  BY <1>1, LoneInvInductive, PTL

\* With one dispatcher process, a row is attempted at most once more than its
\* budget for each fault.
THEOREM BudgetHolds ==
    ASSUME NEW w \in Workers, \A v \in Workers : v = w
    PROVE  Spec => []AttemptBudget
<1>1. LoneInv(w) => AttemptBudget
  BY DEF LoneInv, BudgetKept, AttemptBudget
<1>2. QED
  BY <1>1, LoneInvInductive, PTL

\* With one dispatcher process, 'sent' and 'dropped' are final.
THEOREM SettledStaysSettled ==
    ASSUME NEW w \in Workers, \A v \in Workers : v = w
    PROVE  Spec => TerminalIsFinal
<1>1. LoneInv(w) /\ [Next]_vars => [\A i \in Ids : Terminal(i) => status'[i] = status[i]]_vars
  <2> SUFFICES ASSUME LoneInv(w), [Next]_vars, NEW i \in Ids, Terminal(i)
               PROVE  status'[i] = status[i]
    OBVIOUS
  <2> USE DEF LoneInv, QueueInv, TypeOK, HoldsItsRows, Terminal
  <2>1. ASSUME NEW p \in Producers, EnqueueInsert(p) PROVE status'[i] = status[i]
    BY <2>1 DEF EnqueueInsert, Present
  <2>2. ASSUME NEW v \in Workers, ClaimUpdate(v) PROVE status'[i] = status[i]
    BY <2>2 DEF ClaimUpdate
  <2>3. ASSUME NEW v \in Workers, NEW j \in Ids, MarkSent(v, j) \/ MarkFailed(v, j) \/ MarkDropped(v, j)
        PROVE  status'[i] = status[i]
    BY <2>3 DEF MarkSent, MarkFailed, MarkDropped
  <2>4. QED
    BY <2>1, <2>2, <2>3, TableStep
<1>2. QED
  BY <1>1, LoneInvInductive, PTL DEF Spec, TerminalIsFinal

=============================================================================
