---------------------- MODULE OutboundQueue_refinement ----------------------
(***************************************************************************)
(* The queue of a lone dispatcher implements EventDelivery: the proof of   *)
(* what DeliverySpec states, for any number of events, producers, rows,    *)
(* attempts and faults.                                                    *)
(***************************************************************************)
EXTENDS OutboundQueue_proofs

USE DEF table, producing, dispatching, receiving,
        Fault, StatementSucceeds, StatementFails, Fly

----------------------------------------------------------------------------
(***************************************************************************)
(* The variables of EventDelivery, as the INSTANCE of OutboundQueue        *)
(* substitutes them.                                                       *)
(***************************************************************************)
Stage == [e \in Events |-> IF RowsOf(e) = {} THEN "unknown" ELSE RowStage(RowOf(e))]
Tries == [e \in Events |-> IF RowsOf(e) = {} THEN 0 ELSE RowTries(RowOf(e))]
Copied == [e \in Events |-> IF RowsOf(e) = {} THEN 0 ELSE copies[RowOf(e)]]
Spent == [e \in Events |-> IF Strategy[e] \in Registered THEN MaxAttempts ELSE 1]

HasRow(e) == \E i \in Ids : Present(i) /\ event[i] = e

\* What is seen of an event is what its row says, or that it has none.
SeenByRows ==
    /\ \A e \in Events : ~ HasRow(e) => Stage[e] = "unknown" /\ Tries[e] = 0 /\ Copied[e] = 0
    /\ \A i \in Ids : Present(i) /\ event[i] \in Events =>
        /\ Stage[event[i]] = RowStage(i)
        /\ Tries[event[i]] = RowTries(i)
        /\ Copied[event[i]] = copies[i]

\* It is the one row of the event, since no event has two.
LEMMA RowsAreSeen == UniqueTriples => SeenByRows
<1> SUFFICES ASSUME UniqueTriples PROVE SeenByRows
  OBVIOUS
<1>1. ASSUME NEW e \in Events, ~ HasRow(e) PROVE RowsOf(e) = {}
  BY <1>1 DEF HasRow, RowsOf
<1>2. ASSUME NEW i \in Ids, Present(i), event[i] \in Events
      PROVE  RowsOf(event[i]) # {} /\ RowOf(event[i]) = i
  <2>1. RowsOf(event[i]) = {i}
    BY <1>2 DEF RowsOf, UniqueTriples
  <2>2. QED
    BY <2>1 DEF RowOf
<1>3. QED
  BY <1>1, <1>2 DEF SeenByRows, Stage, Tries, Copied

\* The three are functions of the events, before and after a step.
LEMMA ViewsAreFunctions ==
    /\ Stage = [e \in Events |-> Stage[e]] /\ Stage' = [e \in Events |-> Stage'[e]]
    /\ Tries = [e \in Events |-> Tries[e]] /\ Tries' = [e \in Events |-> Tries'[e]]
    /\ Copied = [e \in Events |-> Copied[e]] /\ Copied' = [e \in Events |-> Copied'[e]]
BY DEF Stage, Tries, Copied

----------------------------------------------------------------------------
(***************************************************************************)
(* The actions of EventDelivery, in those variables.                       *)
(***************************************************************************)
Seen == <<Stage, Tries, Copied>>

\* A row is inserted.
LEMMA Produces ==
    ASSUME NEW e \in Events, Stage[e] = "unknown",
           Stage' = [Stage EXCEPT ![e] = "waiting"], UNCHANGED <<Tries, Copied>>
    PROVE  Delivery!Next
BY DEF Delivery!Next, Delivery!Produce, Delivery!Move, Stage, Tries, Copied

\* A batch is claimed.
LEMMA TakesUp ==
    ASSUME NEW S \in SUBSET Events, \A e \in S : Stage[e] = "waiting",
           Stage' = [e \in Events |-> IF e \in S THEN "trying" ELSE Stage[e]],
           Tries' = [e \in Events |-> IF e \in S THEN Tries[e] + 1 ELSE Tries[e]],
           UNCHANGED Copied
    PROVE  Delivery!Next
BY DEF Delivery!Next, Delivery!Take, Stage, Tries, Copied

\* The receiver takes a copy.
LEMMA SendsCopy ==
    ASSUME NEW e \in Events, Stage[e] = "trying", Copied[e] < Tries[e],
           Copied' = [Copied EXCEPT ![e] = @ + 1], UNCHANGED <<Stage, Tries>>
    PROVE  Delivery!Next
BY DEF Delivery!Next, Delivery!Copy, Stage, Tries, Copied

\* A row is marked as sent.
LEMMA Succeeds ==
    ASSUME NEW e \in Events, Stage[e] = "trying",
           Stage' = [Stage EXCEPT ![e] = "sent"], UNCHANGED <<Tries, Copied>>
    PROVE  Delivery!Next
BY DEF Delivery!Next, Delivery!Succeed, Delivery!Move, Stage, Tries, Copied

\* Attempts end without success.
LEMMA TriesAgain ==
    ASSUME NEW S \in SUBSET Events, \A e \in S : Stage[e] = "trying",
           Stage' = [e \in Events |-> IF e \in S THEN "waiting" ELSE Stage[e]],
           UNCHANGED <<Tries, Copied>>
    PROVE  Delivery!Next
BY DEF Delivery!Next, Delivery!Retry, Stage, Tries, Copied

\* A row is dropped.
LEMMA GivesUp ==
    ASSUME NEW e \in Events, Stage[e] = "trying", Tries[e] >= Spent[e],
           Stage' = [Stage EXCEPT ![e] = "dropped"], UNCHANGED <<Tries, Copied>>
    PROVE  Delivery!Next
BY DEF Delivery!Next, Delivery!GiveUp, Delivery!Move, Stage, Tries, Copied, Spent

----------------------------------------------------------------------------
(***************************************************************************)
(* A step that inserts no row changes what is seen of an event as it       *)
(* changes the event's row.                                                *)
(***************************************************************************)
NoRowAdded == \A i \in Ids : Present(i)' => Present(i)

\* The rows that are there are looked at before and after the step.
LEMMA EventsFollowRows ==
    ASSUME SeenByRows, SeenByRows', RowsKept, NoRowAdded, NEW e \in Events
    PROVE  \/ /\ ~ HasRow(e)
              /\ Stage[e] = "unknown" /\ Stage'[e] = "unknown"
              /\ Tries'[e] = Tries[e] /\ Copied'[e] = Copied[e]
           \/ \E i \in Ids :
              /\ Present(i) /\ event[i] = e
              /\ Stage[e] = RowStage(i) /\ Stage'[e] = RowStage(i)'
              /\ Tries[e] = RowTries(i) /\ Tries'[e] = RowTries(i)'
              /\ Copied[e] = copies[i] /\ Copied'[e] = copies'[i]
<1>1. CASE HasRow(e)
  <2>1. PICK i \in Ids : Present(i) /\ event[i] = e
    BY <1>1 DEF HasRow
  <2>2. Present(i)' /\ event'[i] = e
    BY <2>1 DEF RowsKept
  <2>3. QED
    BY <2>1, <2>2 DEF SeenByRows
<1>2. CASE ~ HasRow(e)
  <2>1. ~ HasRow(e)'
    BY <1>2 DEF HasRow, NoRowAdded, RowsKept
  <2>2. QED
    BY <1>2, <2>1 DEF SeenByRows
<1>3. QED
  BY <1>1, <1>2

\* A step that leaves every row's own stage, tries and copies is not seen.
LEMMA NotSeen ==
    ASSUME SeenByRows, SeenByRows', RowsKept, NoRowAdded,
           \A i \in Ids : Present(i) =>
               /\ RowStage(i)' = RowStage(i) /\ RowTries(i)' = RowTries(i)
               /\ copies'[i] = copies[i]
    PROVE  UNCHANGED Seen
<1>1. \A e \in Events : Stage'[e] = Stage[e] /\ Tries'[e] = Tries[e] /\ Copied'[e] = Copied[e]
  BY EventsFollowRows
<1>2. QED
  BY <1>1 DEF Seen, Stage, Tries, Copied

\* Where a row is with one dispatcher.
LEMMA StageOfRow ==
    ASSUME NEW w \in Workers, \A v \in Workers : v = w, NEW i \in Ids
    PROVE  /\ Terminal(i) => RowStage(i) = status[i]
           /\ ~ Terminal(i) /\ (status[i] = "sending" \/ flight[w][i] = "bumped")
              => RowStage(i) = "trying"
           /\ ~ Terminal(i) /\ status[i] # "sending" /\ flight[w][i] # "bumped"
              => RowStage(i) = "waiting"
BY DEF RowStage, Unsettled

\* The same after a step.
LEMMA StageOfRowAfter ==
    ASSUME NEW w \in Workers, \A v \in Workers : v = w, NEW i \in Ids
    PROVE  /\ Terminal(i)' => RowStage(i)' = status'[i]
           /\ ~ Terminal(i)' /\ (status'[i] = "sending" \/ flight'[w][i] = "bumped")
              => RowStage(i)' = "trying"
           /\ ~ Terminal(i)' /\ status'[i] # "sending" /\ flight'[w][i] # "bumped"
              => RowStage(i)' = "waiting"
BY DEF RowStage, Unsettled, Terminal

----------------------------------------------------------------------------
(***************************************************************************)
(* The steps that are seen, one lemma each.                                *)
(***************************************************************************)
Lone(w) == w \in Workers /\ \A v \in Workers : v = w

\* What every step is known to do.
StepTaken(w) ==
    /\ Lone(w) /\ LoneInv(w) /\ RowsKept
    /\ SeenByRows /\ SeenByRows'

\* The INSERT produces the event of the producer's lookup.
LEMMA InsertProduces ==
    ASSUME NEW w, StepTaken(w), NEW p \in Producers, EnqueueInsert(p)
    PROVE  Delivery!Next
<1> DEFINE e == pending[p]
<1> USE DEF StepTaken, Lone, LoneInv, QueueInv, TypeOK
<1>1. e \in Events
  BY DEF EnqueueInsert
<1>2. ~ HasRow(e)
  BY DEF EnqueueInsert, IndexConflict, HasRow
<1>3. PICK i \in Ids :
        /\ ~ Present(i)
        /\ status' = [status EXCEPT ![i] = "queued"]
        /\ event' = [event EXCEPT ![i] = e]
  BY DEF EnqueueInsert
<1>4. attempts' = attempts /\ copies' = copies /\ flight' = flight
  BY DEF EnqueueInsert
<1>5. attempts[i] = 0 /\ copies[i] = 0 /\ flight[w][i] = "none"
  <2>1. attempts[i] = 0
    BY <1>3 DEF BudgetKept
  <2>2. copies[i] = 0
    BY <1>3, <2>1 DEF CopiesPaid, CopiesArePaidFor, Present
  <2>3. flight[w][i] = "none"
    BY <1>3 DEF RowsExist, InFlight
  <2>4. QED
    BY <2>1, <2>2, <2>3
<1>6. Present(i)' /\ event'[i] = e
  BY <1>3 DEF Present
<1>7. RowStage(i)' = "waiting" /\ RowTries(i)' = 0
  <2>1. status'[i] = "queued" /\ attempts'[i] = 0 /\ flight'[w][i] = "none"
    BY <1>3, <1>4, <1>5
  <2>2. RowTries(i)' = 0
    BY <2>1 DEF RowTries
  <2>3. QED
    BY <2>1, <2>2, StageOfRowAfter DEF Terminal
<1>8. Stage[e] = "unknown" /\ Tries[e] = 0 /\ Copied[e] = 0
  BY <1>1, <1>2 DEF SeenByRows
<1>9. Stage'[e] = "waiting" /\ Tries'[e] = 0 /\ Copied'[e] = 0
  BY <1>1, <1>4, <1>5, <1>6, <1>7 DEF SeenByRows
<1>10. ASSUME NEW d \in Events, d # e
       PROVE  Stage'[d] = Stage[d] /\ Tries'[d] = Tries[d] /\ Copied'[d] = Copied[d]
  <2>1. CASE ~ HasRow(d)
    <3>1. ~ HasRow(d)'
      BY <2>1, <1>3, <1>10 DEF HasRow, Present
    <3>2. QED
      BY <2>1, <3>1 DEF SeenByRows
  <2>2. CASE HasRow(d)
    <3>1. PICK j \in Ids : Present(j) /\ event[j] = d
      BY <2>2 DEF HasRow
    <3>2. j # i /\ Present(j)' /\ event'[j] = d /\ status'[j] = status[j]
      BY <1>3, <3>1 DEF Present
    <3>3. RowStage(j)' = RowStage(j) /\ RowTries(j)' = RowTries(j)
      BY <1>4, <3>2 DEF RowStage, RowTries, Terminal, Unsettled
    <3>4. QED
      BY <1>4, <3>1, <3>2, <3>3 DEF SeenByRows
  <2>3. QED
    BY <2>1, <2>2
<1>11. /\ Stage' = [Stage EXCEPT ![e] = "waiting"]
       /\ UNCHANGED <<Tries, Copied>>
  BY <1>1, <1>8, <1>9, <1>10, ViewsAreFunctions
<1>12. QED
  BY <1>1, <1>8, <1>11, Produces

\* The UPDATE of a claim takes up the events of the rows that were selected.
LEMMA ClaimTakesUp ==
    ASSUME NEW w, StepTaken(w), ClaimUpdate(w)
    PROVE  Delivery!Next
<1> DEFINE S == {e \in Events : \E i \in selected[w] : event[i] = e}
<1> USE DEF StepTaken, Lone, LoneInv, QueueInv, TypeOK
<1>1. /\ phase[w] = "plucked" /\ selected[w] \subseteq Ids
      /\ status' = [i \in Ids |-> IF i \in selected[w] THEN "sending" ELSE status[i]]
      /\ UNCHANGED <<event, attempts, flight, copies>>
  BY DEF ClaimUpdate, ClaimedStatus
<1>2. \A i \in selected[w] :
        /\ Present(i) /\ flight[w][i] = "none" /\ status[i] \in {"queued", "failed"}
  BY <1>1 DEF RowsExist, HoldsItsRows
<1>3. NoRowAdded
  BY <1>1, <1>2 DEF NoRowAdded, Present
<1>4. ASSUME NEW i \in Ids, i \in selected[w]
      PROVE  /\ RowStage(i) = "waiting" /\ RowStage(i)' = "trying"
             /\ RowTries(i)' = RowTries(i) + 1
  <2>1. status'[i] = "sending" /\ attempts'[i] = attempts[i] /\ attempts[i] \in Nat
    BY <1>1, <1>4
  <2>2. RowStage(i) = "waiting"
    BY <1>2, <1>4, StageOfRow DEF Terminal
  <2>3. RowStage(i)' = "trying"
    BY <2>1, StageOfRowAfter DEF Terminal
  <2>4. RowTries(i)' = RowTries(i) + 1
    BY <1>2, <1>4, <2>1 DEF RowTries
  <2>5. QED
    BY <2>2, <2>3, <2>4
<1>5. ASSUME NEW i \in Ids, i \notin selected[w]
      PROVE  RowStage(i)' = RowStage(i) /\ RowTries(i)' = RowTries(i)
  <2>1. status'[i] = status[i]
    BY <1>1, <1>5
  <2>2. QED
    BY <1>1, <2>1 DEF RowStage, RowTries, Terminal, Unsettled
<1>6. ASSUME NEW e \in Events
      PROVE  /\ e \in S => Stage[e] = "waiting" /\ Stage'[e] = "trying" /\ Tries'[e] = Tries[e] + 1
             /\ e \notin S => Stage'[e] = Stage[e] /\ Tries'[e] = Tries[e]
             /\ Copied'[e] = Copied[e]
  <2>1. CASE ~ HasRow(e)
    <3>1. e \notin S
      BY <1>1, <1>2, <2>1 DEF HasRow
    <3>2. QED
      BY <2>1, <3>1, <1>3, EventsFollowRows DEF HasRow
  <2>2. ASSUME NEW i \in Ids, Present(i), event[i] = e,
               Stage[e] = RowStage(i), Stage'[e] = RowStage(i)',
               Tries[e] = RowTries(i), Tries'[e] = RowTries(i)',
               Copied[e] = copies[i], Copied'[e] = copies'[i]
        PROVE  /\ e \in S => Stage[e] = "waiting" /\ Stage'[e] = "trying" /\ Tries'[e] = Tries[e] + 1
               /\ e \notin S => Stage'[e] = Stage[e] /\ Tries'[e] = Tries[e]
               /\ Copied'[e] = Copied[e]
    <3>1. e \in S <=> i \in selected[w]
      BY <1>1, <1>2, <2>2 DEF UniqueTriples
    <3>2. QED
      BY <1>1, <1>4, <1>5, <2>2, <3>1
  <2>3. QED
    BY <1>3, <2>1, <2>2, EventsFollowRows
<1>7. /\ Stage' = [e \in Events |-> IF e \in S THEN "trying" ELSE Stage[e]]
      /\ Tries' = [e \in Events |-> IF e \in S THEN Tries[e] + 1 ELSE Tries[e]]
      /\ UNCHANGED Copied
  <2>1. S \subseteq Events
    OBVIOUS
  <2> HIDE DEF S
  <2>2. QED
    BY <1>6, <2>1, ViewsAreFunctions
<1>8. \A e \in S : Stage[e] = "waiting"
  BY <1>6
<1>9. S \in SUBSET Events
  OBVIOUS
<1>10. QED
  <2> HIDE DEF S
  <2>1. QED
    BY <1>7, <1>8, <1>9, TakesUp

\* A step at one row is seen at that row's event and nowhere else.
LEMMA SeenAtOneRow ==
    ASSUME NEW w, StepTaken(w), NoRowAdded, NEW i \in Ids, Present(i),
           \A j \in Ids : j # i => RowStage(j)' = RowStage(j) /\ RowTries(j)' = RowTries(j)
                                   /\ copies'[j] = copies[j]
    PROVE  /\ event[i] \in Events =>
                /\ Stage[event[i]] = RowStage(i) /\ Stage'[event[i]] = RowStage(i)'
                /\ Tries[event[i]] = RowTries(i) /\ Tries'[event[i]] = RowTries(i)'
                /\ Copied[event[i]] = copies[i] /\ Copied'[event[i]] = copies'[i]
           /\ \A e \in Events : e # event[i] =>
                Stage'[e] = Stage[e] /\ Tries'[e] = Tries[e] /\ Copied'[e] = Copied[e]
<1> USE DEF StepTaken
<1>1. Present(i)' /\ event'[i] = event[i]
  BY DEF RowsKept
<1>2. event[i] \in Events =>
        /\ Stage[event[i]] = RowStage(i) /\ Stage'[event[i]] = RowStage(i)'
        /\ Tries[event[i]] = RowTries(i) /\ Tries'[event[i]] = RowTries(i)'
        /\ Copied[event[i]] = copies[i] /\ Copied'[event[i]] = copies'[i]
  BY <1>1 DEF SeenByRows
<1>3. ASSUME NEW e \in Events, e # event[i]
      PROVE  Stage'[e] = Stage[e] /\ Tries'[e] = Tries[e] /\ Copied'[e] = Copied[e]
  BY <1>3, EventsFollowRows
<1>4. QED
  BY <1>2, <1>3

\* The other rows, in a step that writes the status, the attempts, the copies and
\* the delivery of row i alone.
OnlyRow(w, i) ==
    /\ Present(i)' /\ UNCHANGED event
    /\ \A j \in Ids : j # i =>
        /\ status'[j] = status[j] /\ attempts'[j] = attempts[j] /\ copies'[j] = copies[j]
        /\ flight'[w][j] = flight[w][j]

\* They look the same.
LEMMA OthersKept ==
    ASSUME NEW w, Lone(w), NEW i \in Ids, Present(i), OnlyRow(w, i)
    PROVE  /\ NoRowAdded
           /\ \A j \in Ids : j # i => RowStage(j)' = RowStage(j) /\ RowTries(j)' = RowTries(j)
                                      /\ copies'[j] = copies[j]
<1>1. NoRowAdded
  BY DEF OnlyRow, NoRowAdded, Present
<1>2. ASSUME NEW j \in Ids, j # i PROVE RowStage(j)' = RowStage(j) /\ RowTries(j)' = RowTries(j)
  BY <1>2 DEF OnlyRow, Lone, RowStage, RowTries, Terminal, Unsettled
<1>3. QED
  BY <1>1, <1>2 DEF OnlyRow

\* Row i is all that changes, so its event is all that is seen to change.
LEMMA OneRowStep ==
    ASSUME NEW w, StepTaken(w), NEW i \in Ids, Present(i), OnlyRow(w, i)
    PROVE  \/ event[i] \notin Events /\ UNCHANGED Seen
           \/ /\ event[i] \in Events
              /\ Stage[event[i]] = RowStage(i) /\ Tries[event[i]] = RowTries(i)
              /\ Copied[event[i]] = copies[i]
              /\ Stage' = [Stage EXCEPT ![event[i]] = RowStage(i)']
              /\ Tries' = [Tries EXCEPT ![event[i]] = RowTries(i)']
              /\ Copied' = [Copied EXCEPT ![event[i]] = copies'[i]]
<1>1. /\ NoRowAdded
      /\ \A j \in Ids : j # i => RowStage(j)' = RowStage(j) /\ RowTries(j)' = RowTries(j)
                                 /\ copies'[j] = copies[j]
  BY OthersKept DEF StepTaken
<1>2. /\ event[i] \in Events =>
           /\ Stage[event[i]] = RowStage(i) /\ Stage'[event[i]] = RowStage(i)'
           /\ Tries[event[i]] = RowTries(i) /\ Tries'[event[i]] = RowTries(i)'
           /\ Copied[event[i]] = copies[i] /\ Copied'[event[i]] = copies'[i]
      /\ \A e \in Events : e # event[i] =>
           Stage'[e] = Stage[e] /\ Tries'[e] = Tries[e] /\ Copied'[e] = Copied[e]
  BY <1>1, SeenAtOneRow
<1>3. CASE event[i] \notin Events
  BY <1>2, <1>3, ViewsAreFunctions DEF Seen
<1>4. CASE event[i] \in Events
  <2>1. Stage' = [Stage EXCEPT ![event[i]] = RowStage(i)']
    BY <1>2, <1>4, ViewsAreFunctions
  <2>2. Tries' = [Tries EXCEPT ![event[i]] = RowTries(i)']
    BY <1>2, <1>4, ViewsAreFunctions
  <2>3. Copied' = [Copied EXCEPT ![event[i]] = copies'[i]]
    BY <1>2, <1>4, ViewsAreFunctions
  <2>4. QED
    BY <1>2, <1>4, <2>1, <2>2, <2>3
<1>5. QED
  BY <1>3, <1>4

\* The POST: what the receiver takes is a copy of an attempt already started.
LEMMA PostCopies ==
    ASSUME NEW w, StepTaken(w), NEW i \in Ids, DeliverPost(w, i)
    PROVE  Delivery!Next \/ UNCHANGED Seen
<1> USE DEF StepTaken, Lone, LoneInv, QueueInv, TypeOK
<1>1. /\ flight[w][i] = "posting" /\ status[i] = "sending" /\ Present(i)
      /\ copies[i] <= attempts[i]
  BY DEF DeliverPost, HoldsItsRows, Present, CopiesPaid
<1>2. /\ UNCHANGED <<status, event, attempts>>
      /\ \A j \in Ids : j # i => copies'[j] = copies[j] /\ flight'[w][j] = flight[w][j]
      /\ copies'[i] \in {copies[i], copies[i] + 1}
  BY DEF DeliverPost
<1>3. OnlyRow(w, i)
  BY <1>1, <1>2 DEF OnlyRow, Present
<1>4. /\ RowStage(i) = "trying" /\ RowStage(i)' = "trying"
      /\ RowTries(i) = attempts[i] + 1 /\ RowTries(i)' = RowTries(i)
  BY <1>1, <1>2 DEF RowStage, RowTries, Terminal, Unsettled
<1>5. copies[i] < RowTries(i)
  BY <1>1, <1>4
<1>6. CASE event[i] \in Events
  <2>1. /\ Stage[event[i]] = "trying" /\ Copied[event[i]] < Tries[event[i]]
        /\ Stage' = [Stage EXCEPT ![event[i]] = Stage[event[i]]]
        /\ Tries' = [Tries EXCEPT ![event[i]] = Tries[event[i]]]
        /\ Copied' = [Copied EXCEPT ![event[i]] = copies'[i]]
        /\ Copied[event[i]] = copies[i]
    BY <1>1, <1>3, <1>4, <1>5, <1>6, OneRowStep
  <2>2. UNCHANGED <<Stage, Tries>>
    BY <2>1, ViewsAreFunctions
  <2>3. CASE copies'[i] = copies[i]
    <3>1. Copied' = [Copied EXCEPT ![event[i]] = Copied[event[i]]]
      BY <2>1, <2>3
    <3>2. UNCHANGED Copied
      BY <3>1, ViewsAreFunctions
    <3>3. QED
      BY <2>2, <3>2 DEF Seen
  <2>4. CASE copies'[i] = copies[i] + 1
    <3>1. Copied' = [Copied EXCEPT ![event[i]] = @ + 1]
      BY <2>1, <2>4
    <3>2. QED
      BY <1>6, <2>1, <2>2, <3>1, SendsCopy
  <2>5. QED
    BY <1>2, <2>3, <2>4
<1>7. CASE event[i] \notin Events
  BY <1>1, <1>3, <1>7, OneRowStep
<1>8. QED
  BY <1>6, <1>7

\* A row that is marked as sent has succeeded.
LEMMA MarkSucceeds ==
    ASSUME NEW w, StepTaken(w), NEW i \in Ids, MarkSent(w, i)
    PROVE  Delivery!Next \/ UNCHANGED Seen
<1> USE DEF StepTaken, Lone, LoneInv, QueueInv, TypeOK
<1>1. /\ flight[w][i] = "accepted" /\ status[i] = "sending" /\ Present(i)
      /\ status' = [status EXCEPT ![i] = "sent"]
      /\ UNCHANGED <<event, attempts, copies>>
      /\ \A j \in Ids : j # i => flight'[w][j] = flight[w][j]
  BY DEF MarkSent, HoldsItsRows, Present
<1>2. OnlyRow(w, i)
  BY <1>1 DEF OnlyRow, Present
<1>3. /\ RowStage(i) = "trying" /\ RowStage(i)' = "sent"
      /\ RowTries(i)' = RowTries(i)
  BY <1>1 DEF RowStage, RowTries, Terminal, Unsettled
<1>4. CASE event[i] \in Events
  <2>1. /\ Stage[event[i]] = "trying"
        /\ Stage' = [Stage EXCEPT ![event[i]] = "sent"]
        /\ Tries' = [Tries EXCEPT ![event[i]] = Tries[event[i]]]
        /\ Copied' = [Copied EXCEPT ![event[i]] = Copied[event[i]]]
    BY <1>1, <1>2, <1>3, <1>4, OneRowStep
  <2>2. UNCHANGED <<Tries, Copied>>
    BY <2>1, ViewsAreFunctions, ZenonT(30)
  <2>3. QED
    BY <1>4, <2>1, <2>2, Succeeds
<1>5. CASE event[i] \notin Events
  BY <1>1, <1>2, <1>5, OneRowStep
<1>6. QED
  BY <1>4, <1>5

\* The first statement of MarkOutboundFailed is not seen: the attempt it counts
\* is the one that was being made, and the row is still being tried.
LEMMA MarkFailedIsNotSeen ==
    ASSUME NEW w, StepTaken(w), NEW i \in Ids, MarkFailed(w, i)
    PROVE  UNCHANGED Seen
<1> USE DEF StepTaken, Lone, LoneInv, QueueInv, TypeOK
<1>1. /\ flight[w][i] = "rejected" /\ status[i] = "sending" /\ Present(i)
      /\ status' = [status EXCEPT ![i] = "failed"]
      /\ attempts' = [attempts EXCEPT ![i] = attempts[i] + 1]
      /\ UNCHANGED <<event, copies>>
      /\ flight'[w][i] = "bumped"
      /\ \A j \in Ids : j # i => flight'[w][j] = flight[w][j]
  BY DEF MarkFailed, Bumped, HoldsItsRows, Present
<1>2. OnlyRow(w, i)
  BY <1>1 DEF OnlyRow, Present
<1>3. /\ RowStage(i) = "trying" /\ RowStage(i)' = "trying"
      /\ RowTries(i)' = RowTries(i)
  BY <1>1 DEF RowStage, RowTries, Terminal, Unsettled
<1>4. QED
  BY <1>1, <1>2, <1>3, OthersKept, NotSeen

\* The second statement gives the event up, or lets it be tried again.
LEMMA MarkDroppedSettles ==
    ASSUME NEW w, StepTaken(w), NEW i \in Ids, MarkDropped(w, i)
    PROVE  Delivery!Next \/ UNCHANGED Seen
<1> USE DEF StepTaken, Lone, LoneInv, QueueInv, TypeOK
<1>1. /\ flight[w][i] = "bumped" /\ status[i] = "failed" /\ Present(i)
      /\ status' = IF Exhausted(i) THEN [status EXCEPT ![i] = "dropped"] ELSE status
      /\ UNCHANGED <<event, attempts, copies>>
      /\ flight'[w][i] = "none"
      /\ \A j \in Ids : j # i => flight'[w][j] = flight[w][j]
  BY DEF MarkDropped, HoldsItsRows, Present
<1>2. OnlyRow(w, i)
  BY <1>1 DEF OnlyRow, Present
<1>3. /\ RowStage(i) = "trying" /\ RowTries(i) = attempts[i]
      /\ RowTries(i)' = RowTries(i)
      /\ RowStage(i)' = IF Exhausted(i) THEN "dropped" ELSE "waiting"
  BY <1>1 DEF RowStage, RowTries, Terminal, Unsettled
<1>4. CASE event[i] \in Events
  <2> DEFINE e == event[i]
  <2>1. /\ Stage[e] = "trying" /\ Tries[e] = attempts[i]
        /\ Stage' = [Stage EXCEPT ![e] = RowStage(i)']
        /\ Tries' = [Tries EXCEPT ![e] = Tries[e]]
        /\ Copied' = [Copied EXCEPT ![e] = Copied[e]]
    BY <1>1, <1>2, <1>3, <1>4, OneRowStep
  <2>2. UNCHANGED <<Tries, Copied>>
    BY <2>1, ViewsAreFunctions, ZenonT(30)
  <2>3. CASE Exhausted(i)
    <3>1. Tries[e] >= Spent[e]
      BY <1>4, <2>1, <2>3 DEF Exhausted, Budget, Spent
    <3>2. QED
      BY <1>3, <1>4, <2>1, <2>2, <2>3, <3>1, GivesUp
  <2>4. CASE ~ Exhausted(i)
    <3>1. \A d \in Events : Stage'[d] = IF d \in {e} THEN "waiting" ELSE Stage[d]
      BY <1>3, <1>4, <2>1, <2>4, ViewsAreFunctions
    <3>2. Stage' = [d \in Events |-> IF d \in {e} THEN "waiting" ELSE Stage[d]]
      BY <3>1, ViewsAreFunctions
    <3>3. {e} \in SUBSET Events /\ \A d \in {e} : Stage[d] = "trying"
      BY <1>4, <2>1
    <3>4. QED
      BY <2>2, <3>2, <3>3, TriesAgain
  <2>5. QED
    BY <2>3, <2>4
<1>5. CASE event[i] \notin Events
  BY <1>1, <1>2, <1>5, OneRowStep
<1>6. QED
  BY <1>4, <1>5

\* Tries end without success at the rows of R, whose attempts are already counted
\* and whose deliveries end here.
LEMMA DeliveriesEnd ==
    ASSUME NEW w, StepTaken(w), NEW R \in SUBSET Ids,
           UNCHANGED <<status, event, attempts, copies>>,
           \A i \in R : flight[w][i] = "bumped" /\ flight'[w][i] = "none",
           \A i \in Ids \ R : flight'[w][i] = "bumped" <=> flight[w][i] = "bumped"
    PROVE  Delivery!Next
<1> DEFINE S == {e \in Events : \E i \in R : event[i] = e}
<1> USE DEF StepTaken, Lone, LoneInv, QueueInv, TypeOK
<1>1. \A i \in R : Present(i) /\ status[i] = "failed"
  BY DEF HoldsItsRows, Present
<1>2. NoRowAdded
  BY DEF NoRowAdded, Present
<1>3. \A i \in Ids : RowTries(i)' = RowTries(i)
  BY DEF RowTries
<1>4. \A i \in R : RowStage(i) = "trying" /\ RowStage(i)' = "waiting"
  BY <1>1 DEF RowStage, Terminal, Unsettled
<1>5. \A i \in Ids \ R : RowStage(i)' = RowStage(i)
  BY DEF RowStage, Terminal, Unsettled
<1>6. ASSUME NEW e \in Events
      PROVE  /\ e \in S => Stage[e] = "trying" /\ Stage'[e] = "waiting"
             /\ e \notin S => Stage'[e] = Stage[e]
             /\ Tries'[e] = Tries[e] /\ Copied'[e] = Copied[e]
  <2>1. CASE ~ HasRow(e)
    <3>1. e \notin S
      BY <1>1, <2>1 DEF HasRow
    <3>2. QED
      BY <2>1, <3>1, <1>2, EventsFollowRows DEF HasRow
  <2>2. ASSUME NEW i \in Ids, Present(i), event[i] = e,
               Stage[e] = RowStage(i), Stage'[e] = RowStage(i)',
               Tries[e] = RowTries(i), Tries'[e] = RowTries(i)',
               Copied[e] = copies[i], Copied'[e] = copies'[i]
        PROVE  /\ e \in S => Stage[e] = "trying" /\ Stage'[e] = "waiting"
               /\ e \notin S => Stage'[e] = Stage[e]
               /\ Tries'[e] = Tries[e] /\ Copied'[e] = Copied[e]
    <3>1. e \in S <=> i \in R
      BY <1>1, <2>2 DEF UniqueTriples
    <3>2. QED
      BY <1>3, <1>4, <1>5, <2>2, <3>1
  <2>3. QED
    BY <1>2, <2>1, <2>2, EventsFollowRows
<1>7. \A e \in S : Stage[e] = "trying"
  BY <1>6
<1>8. S \in SUBSET Events
  OBVIOUS
<1>9. /\ Stage' = [e \in Events |-> IF e \in S THEN "waiting" ELSE Stage[e]]
      /\ UNCHANGED <<Tries, Copied>>
  <2> HIDE DEF S
  <2>1. QED
    BY <1>6, <1>8, ViewsAreFunctions
<1>10. QED
  <2> HIDE DEF S
  <2>1. QED
    BY <1>7, <1>8, <1>9, TriesAgain

----------------------------------------------------------------------------
\* A step that writes no row and sends no copy can only end deliveries.
Aside(w) ==
    /\ UNCHANGED <<status, event, attempts, copies>>
    /\ \A i \in Ids : /\ flight[w][i] = "bumped" => flight'[w][i] \in {"bumped", "none"}
                      /\ flight'[w][i] = "bumped" => flight[w][i] = "bumped"

\* Every step inserts, claims, marks or posts, or is such a step.
LEMMA StepCases ==
    ASSUME NEW w, Lone(w), LoneInv(w), [Next]_vars
    PROVE  \/ \E p \in Producers : EnqueueInsert(p)
           \/ ClaimUpdate(w)
           \/ \E i \in Ids : \/ DeliverPost(w, i) \/ MarkSent(w, i)
                             \/ MarkFailed(w, i) \/ MarkDropped(w, i)
           \/ Aside(w)
<1> USE DEF Lone, LoneInv, QueueInv, TypeOK, Aside
<1>1. ASSUME NEW p \in Producers, NEW e \in Events, EnqueueLookup(p, e) PROVE Aside(w)
  BY <1>1 DEF EnqueueLookup
<1>2. ASSUME NEW p \in Producers, EnqueueError(p) PROVE Aside(w)
  BY <1>2 DEF EnqueueError
<1>3. ASSUME ClaimPluck(w) PROVE Aside(w)
  BY <1>3 DEF ClaimPluck
<1>4. ASSUME ClaimLoad(w) PROVE Aside(w)
  BY <1>4 DEF ClaimLoad, HoldsItsRows
<1>5. ASSUME ClaimError(w) PROVE Aside(w)
  BY <1>5 DEF ClaimError
<1>6. ASSUME NEW i \in Ids, DeliverStart(w, i) PROVE Aside(w)
  BY <1>6 DEF DeliverStart
<1>7. ASSUME NEW i \in Ids, MarkError(w, i) PROVE Aside(w)
  BY <1>7 DEF MarkError
<1>8. ASSUME DrainDone(w) PROVE Aside(w)
  BY <1>8 DEF DrainDone
<1>9. ASSUME Live(w) PROVE Aside(w)
  <2>1. CASE Crash(w)
    BY <2>1 DEF Crash
  <2>2. CASE Stop(w) \/ Stopped(w) \/ Restart(w)
    BY <2>2 DEF Stop, Stopped, Restart
  <2>3. QED
    BY <1>9, <2>1, <2>2 DEF Live
<1>10. ASSUME NEW i \in Ids, Elapse(i) PROVE Aside(w)
  BY <1>10 DEF Elapse
<1>11. CASE UNCHANGED vars
  BY <1>11 DEF vars
<1>12. QED
  BY <1>1, <1>2, <1>3, <1>4, <1>5, <1>6, <1>7, <1>8, <1>9, <1>10, <1>11
     DEF Next, Enqueue, Claim, Deliver, Mark

\* Steps aside are seen as tries that end, or not at all.
LEMMA AsideRetries ==
    ASSUME NEW w, StepTaken(w), Aside(w)
    PROVE  Delivery!Next
<1> DEFINE R == {i \in Ids : flight[w][i] = "bumped" /\ flight'[w][i] # "bumped"}
<1>1. R \in SUBSET Ids
  OBVIOUS
<1>2. /\ \A i \in R : flight[w][i] = "bumped" /\ flight'[w][i] = "none"
      /\ \A i \in Ids \ R : flight'[w][i] = "bumped" <=> flight[w][i] = "bumped"
  BY DEF Aside
<1> HIDE DEF R
<1>3. QED
  BY <1>1, <1>2, DeliveriesEnd DEF Aside

\* Every step of the queue is a step of EventDelivery, or is not seen.
LEMMA StepRefines ==
    ASSUME NEW w, Lone(w), LoneInv(w), LoneInv(w)', [Next]_vars
    PROVE  Delivery!Next \/ UNCHANGED Seen
<1>1. SeenByRows /\ SeenByRows'
  <2>1. UniqueTriples /\ UniqueTriples'
    BY DEF LoneInv, QueueInv
  <2>2. UniqueTriples' => SeenByRows'
    BY RowsAreSeen, PTL
  <2>3. QED
    BY <2>1, <2>2, RowsAreSeen
<1>2. StepTaken(w)
  BY <1>1, RowsPersist DEF StepTaken, LoneInv, QueueInv
<1>3. QED
  BY <1>2, StepCases, InsertProduces, ClaimTakesUp, PostCopies, MarkSucceeds,
     MarkFailedIsNotSeen, MarkDroppedSettles, AsideRetries

\* An empty table is a world of unknown events.
LEMMA InitRefines == Init => Delivery!Init
<1> SUFFICES ASSUME Init PROVE Delivery!Init
  OBVIOUS
<1>1. \A e \in Events : RowsOf(e) = {}
  BY DEF Init, RowsOf, Present
<1>2. QED
  BY <1>1 DEF Delivery!Init

\* With one dispatcher process, claims, retries, faults and restarts are, seen
\* from outside, the life of an event that EventDelivery allows.
THEOREM ImplementsDelivery ==
    ASSUME NEW w \in Workers, \A v \in Workers : v = w
    PROVE  Spec => DeliverySpec
<1>1. LoneInv(w) /\ LoneInv(w)' /\ [Next]_vars => [Delivery!Next]_(Delivery!vars)
  <2> SUFFICES ASSUME LoneInv(w), LoneInv(w)', [Next]_vars
               PROVE  Delivery!Next \/ UNCHANGED Delivery!vars
    OBVIOUS
  <2>1. Delivery!vars = Seen
    BY DEF Delivery!vars, Seen, Stage, Tries, Copied
  <2>2. Delivery!vars' = Seen'
    BY DEF Delivery!vars, Seen, Stage, Tries, Copied
  <2>3. QED
    BY <2>1, <2>2, StepRefines DEF Lone
<1>2. QED
  BY <1>1, LoneInvInductive, InitRefines, PTL DEF Spec, DeliverySpec, Delivery!Spec
=============================================================================
