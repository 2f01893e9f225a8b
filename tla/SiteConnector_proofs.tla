------------------------ MODULE SiteConnector_proofs -----------------------
(***************************************************************************)
(* Theorems about SiteConnector, for all eight configurations of the       *)
(* output, any size of a batch and any number of events and faults.        *)
(***************************************************************************)
EXTENDS SiteConnector, TLAPS

USE OutputAssumption DEF OutputAssumption
USE DEF outputVars, Unlocked, Connected

\* The types of the variables, without the bounds of TypeOK.
Flags ==
    /\ cfg \in Config
    /\ conn \in BOOLEAN /\ wsConn \in BOOLEAN
    /\ closed \in BOOLEAN /\ cancelled \in BOOLEAN
    /\ leaked \in Nat
    /\ timers \in Nat
    /\ locked \in {None, "writer", "timer", "closer"}
    /\ writer \in {"idle", "called", "direct", "loop", "connect", "ready", "sleep"}
    /\ closing \in {"no", "called", "flagged", "cancelled", "done", "panicked"}
    /\ faults \in 0..MaxFaults
    /\ main \in {"serve", "outputs", "ended"}

Answers == {"nil", "error"}

Queues == batch \in Seq(Nat) /\ sent \in Seq(Nat) /\ results \in Seq(Answers)

Types == Flags /\ Queues

\* What each counter is paid from: an event pays for one timer and for one dial that
\* replaced a websocket, a fault for another dial. A batch is full only under a lock that
\* is never released.
Bounds ==
    /\ Taken <= MaxEvents
    /\ timers <= Len(results)
    /\ leaked <= faults + Len(results) + (IF writer = "ready" THEN 1 ELSE 0)
    /\ Len(batch) <= BatchSize
    /\ Unlocked => Len(batch) < BatchSize

\* Which configuration uses which part of the output.
Ways ==
    /\ writer \in {"loop", "connect", "ready", "sleep"} => cfg.backpressure
    /\ writer = "direct" => ~cfg.backpressure
    /\ timers > 0 => cfg.batch /\ cfg.backpressure
    /\ batch # <<>> => cfg.batch
    /\ leaked > 0 => cfg.websocket /\ cfg.backpressure
    /\ IF cfg.websocket THEN ~conn ELSE ~wsConn
    /\ closing \in {"flagged", "cancelled", "done"} => closed
    /\ closing = "done" => ~conn /\ ~wsConn

\* There is a connection for what waits to be sent, unless one was lost or closed.
Online ==
    cfg.backpressure /\ (writer = "ready" \/ batch # <<>>) => Connected \/ faults > 0 \/ closed

\* Two sequences that together are increasing and reach n at most.
Chain(s, b, n) ==
    /\ \A i, j \in 1..Len(s) : i < j => s[i] < s[j]
    /\ \A i, j \in 1..Len(b) : i < j => b[i] < b[j]
    /\ \A i \in 1..Len(s), j \in 1..Len(b) : s[i] < b[j]
    /\ \A i \in 1..Len(s) : s[i] \in 1..n
    /\ \A i \in 1..Len(b) : b[i] \in 1..n

\* What left comes before what waits, and both before what has not been answered. Only an
\* event whose Write is locked up waits in a batch before it was answered.
Bound == IF Unlocked THEN Len(results) ELSE Taken
Order == Chain(sent, batch, Bound)

OutputInv == Types /\ Bounds /\ Ways /\ Online /\ Order /\ NilIsKept /\ LockedOutByFlush
----------------------------------------------------------------------------
(* Sequences. *)

\* Where the elements of a longer sequence are.
LEMMA Appended ==
    ASSUME NEW S, NEW s \in Seq(S), NEW e \in S
    PROVE  /\ Append(s, e) \in Seq(S)
           /\ Len(Append(s, e)) = Len(s) + 1
           /\ \A i \in 1..Len(s) : Append(s, e)[i] = s[i]
           /\ Append(s, e)[Len(s) + 1] = e
OBVIOUS

\* The same for two sequences one after the other.
LEMMA Joined ==
    ASSUME NEW S, NEW s \in Seq(S), NEW t \in Seq(S)
    PROVE  /\ s \o t \in Seq(S)
           /\ Len(s \o t) = Len(s) + Len(t)
           /\ \A i \in 1..Len(s) : (s \o t)[i] = s[i]
           /\ \A i \in 1..Len(t) : (s \o t)[Len(s) + i] = t[i]
OBVIOUS

----------------------------------------------------------------------------
(* Types and bounds. *)

\* Every step keeps the counters, flags and places in their types.
LEMMA FlagsStep == Flags /\ [Next]_vars => Flags'
<1> SUFFICES ASSUME Flags, [Next]_vars PROVE Flags'
  OBVIOUS
<1> USE DEF Flags, Config
<1>1. CASE Consume
  BY <1>1 DEF Consume
<1>2. CASE Signal
  BY <1>2 DEF Signal
<1>3. CASE CloseListeners
  BY <1>3 DEF CloseListeners
<1>4. CASE Write /\ UNCHANGED main
  BY <1>4 DEF Write, Return
<1>5. CASE writeNonBlocking /\ UNCHANGED main
  BY <1>5 DEF writeNonBlocking, Return, Full, Event
<1>6. CASE writeWithBackpressure /\ UNCHANGED main
  BY <1>6 DEF writeWithBackpressure, Return
<1>7. CASE SleepEnds /\ UNCHANGED main
  BY <1>7 DEF SleepEnds
<1>8. CASE CloseBegins /\ UNCHANGED main
  BY <1>8 DEF CloseBegins
<1>9. CASE CloseCancels /\ UNCHANGED main
  BY <1>9 DEF CloseCancels
<1>10. ASSUME NEW ok \in BOOLEAN, connect(ok), UNCHANGED main PROVE Flags'
  BY <1>10 DEF connect, Fault, MayDial
<1>11. ASSUME NEW ok \in BOOLEAN, sendEvent(ok), UNCHANGED main PROVE Flags'
  BY <1>11 DEF sendEvent, Put, Fault, Return, Outcome, Event
<1>12. ASSUME NEW ok \in BOOLEAN, addToBatch(ok), UNCHANGED main PROVE Flags'
  BY <1>12 DEF addToBatch, FlushBatch, Put, Fault, Return, Outcome, Full, LocksAgain, Event
<1>13. ASSUME NEW ok \in BOOLEAN, CloseEnds(ok), UNCHANGED main PROVE Flags'
  <2>1. faults' \in 0..MaxFaults /\ locked' \in {None, "writer", "timer", "closer"}
    BY <1>13 DEF CloseEnds, Fault, LocksAgain
  <2>2. closing' \in {"no", "called", "flagged", "cancelled", "done", "panicked"} /\ conn' \in BOOLEAN /\ wsConn' \in BOOLEAN
    BY <1>13 DEF CloseEnds
  <2>3. UNCHANGED <<cfg, leaked, closed, cancelled, timers, writer>>
    BY <1>13 DEF CloseEnds
  <2>4. QED
    BY <1>13, <2>1, <2>2, <2>3
<1>14. ASSUME NEW ok \in BOOLEAN, flushBatchTimer(ok), UNCHANGED main PROVE Flags'
  BY <1>14 DEF flushBatchTimer, FlushBatch, Put, Fault, LocksAgain
<1>15. CASE UNCHANGED vars
  BY <1>15 DEF vars
<1>16. QED
  BY <1>1, <1>2, <1>3, <1>4, <1>5, <1>6, <1>7, <1>8, <1>9, <1>10, <1>11, <1>12, <1>13, <1>14, <1>15 DEF Next, OutputNext, WriterSteps, CloseSteps

\* What a step does to the sequences: Write answers one event, the batch takes the event
\* or is emptied, and the connection takes the event or the batch.
LEMMA Moves ==
    ASSUME [Next]_vars
    PROVE  /\ results' = results \/ \E r \in Answers : results' = Append(results, r)
           /\ (batch' = batch \/ batch' = <<>> \/ batch' = Append(batch, Event))
           /\ (sent' = sent \/ sent' = sent \o batch \/ sent' = sent \o Append(batch, Event)
                       \/ sent' = sent \o <<Event>>)
<1> DEFINE Goal == /\ results' = results \/ \E r \in Answers : results' = Append(results, r)
                   /\ (batch' = batch \/ batch' = <<>> \/ batch' = Append(batch, Event))
                   /\ (sent' = sent \/ sent' = sent \o batch \/ sent' = sent \o Append(batch, Event)
                       \/ sent' = sent \o <<Event>>)
<1> SUFFICES Goal
  OBVIOUS
<1> USE DEF Answers
<1>1. CASE Consume
  BY <1>1 DEF Consume
<1>2. CASE Signal
  BY <1>2 DEF Signal
<1>3. CASE CloseListeners
  BY <1>3 DEF CloseListeners
<1>4. CASE Write
  BY <1>4 DEF Write, Return
<1>5. CASE writeNonBlocking
  BY <1>5 DEF writeNonBlocking, Return, Full
<1>6. CASE writeWithBackpressure
  BY <1>6 DEF writeWithBackpressure, Return
<1>7. CASE SleepEnds
  BY <1>7 DEF SleepEnds
<1>8. CASE CloseBegins
  BY <1>8 DEF CloseBegins
<1>9. CASE CloseCancels
  BY <1>9 DEF CloseCancels
<1>10. ASSUME NEW ok \in BOOLEAN, connect(ok) PROVE Goal
  BY <1>10 DEF connect, Fault, MayDial
<1>11. ASSUME NEW ok \in BOOLEAN, sendEvent(ok) PROVE Goal
  BY <1>11 DEF sendEvent, Put, Fault, Return, Outcome
<1>12. ASSUME NEW ok \in BOOLEAN, addToBatch(ok) PROVE Goal
  BY <1>12 DEF addToBatch, FlushBatch, Put, Fault, Return, Outcome, Full, LocksAgain
<1>13. ASSUME NEW ok \in BOOLEAN, CloseEnds(ok) PROVE Goal
  BY <1>13 DEF CloseEnds, Fault, LocksAgain
<1>14. ASSUME NEW ok \in BOOLEAN, flushBatchTimer(ok) PROVE Goal
  BY <1>14 DEF flushBatchTimer, FlushBatch, Put, Fault, LocksAgain
<1>15. CASE UNCHANGED vars
  BY <1>15 DEF vars
<1>16. QED
  BY <1>1, <1>2, <1>3, <1>4, <1>5, <1>6, <1>7, <1>8, <1>9, <1>10, <1>11, <1>12, <1>13, <1>14, <1>15 DEF Next, OutputNext, WriterSteps, CloseSteps

\* Every step keeps the sequences in their types.
LEMMA QueuesStep == Queues /\ [Next]_vars => Queues'
<1> SUFFICES ASSUME Queues, [Next]_vars PROVE Queues'
  OBVIOUS
<1>1. Event \in Nat /\ Append(batch, Event) \in Seq(Nat) /\ <<Event>> \in Seq(Nat) /\ <<>> \in Seq(Nat)
  BY Appended DEF Queues, Event
<1>2. batch' \in Seq(Nat)
  <2>1. batch' = batch \/ batch' = <<>> \/ batch' = Append(batch, Event)
    BY Moves
  <2>2. QED
    BY <1>1, <2>1 DEF Queues
<1>3. sent' \in Seq(Nat)
  <2>1. \A t \in Seq(Nat) : sent \o t \in Seq(Nat)
    BY Joined DEF Queues
  <2>2. sent' = sent \/ sent' = sent \o batch \/ sent' = sent \o Append(batch, Event) \/ sent' = sent \o <<Event>>
    BY Moves
  <2>3. QED
    BY <1>1, <2>1, <2>2 DEF Queues
<1>4. results' \in Seq(Answers)
  <2>1. \A r \in Answers : Append(results, r) \in Seq(Answers)
    BY Appended DEF Queues
  <2>2. results' = results \/ \E r \in Answers : results' = Append(results, r)
    BY Moves
  <2>3. QED
    BY <2>1, <2>2 DEF Queues
<1>5. QED
  BY <1>2, <1>3, <1>4 DEF Queues

\* Every step keeps every variable in its type.
LEMMA TypesStep == Types /\ [Next]_vars => Types'
BY FlagsStep, QueuesStep DEF Types

\* Every step keeps the books of timers, dials and the size of the batch.
LEMMA BoundsStep == Types /\ Bounds /\ Ways /\ [Next]_vars => Bounds'
<1> SUFFICES ASSUME Types, Bounds, Ways, [Next]_vars PROVE Bounds'
  OBVIOUS
<1> USE DEF Types, Flags, Queues, Bounds, Taken
<1>1. CASE Consume
  BY <1>1 DEF Consume
<1>2. CASE Signal
  BY <1>2 DEF Signal
<1>3. CASE CloseListeners
  BY <1>3 DEF CloseListeners
<1>4. CASE Write
  BY <1>4 DEF Write, Return
<1>5. CASE writeNonBlocking
  BY <1>5, SMTT(30) DEF writeNonBlocking, Return, Full, Event
<1>6. CASE writeWithBackpressure
  BY <1>6 DEF writeWithBackpressure, Return
<1>7. CASE SleepEnds
  BY <1>7 DEF SleepEnds
<1>8. CASE CloseBegins
  BY <1>8 DEF CloseBegins
<1>9. CASE CloseCancels
  BY <1>9 DEF CloseCancels
<1>10. ASSUME NEW ok \in BOOLEAN, connect(ok) PROVE Bounds'
  BY <1>10 DEF connect, Fault, MayDial
<1>11. ASSUME NEW ok \in BOOLEAN, sendEvent(ok) PROVE Bounds'
  BY <1>11, SMTT(30) DEF sendEvent, Put, Fault, Return, Outcome, Event
<1>12. ASSUME NEW ok \in BOOLEAN, addToBatch(ok) PROVE Bounds'
  <2> DEFINE events == Append(batch, Event)
  <2>1. events \in Seq(Nat) /\ Len(events) = Len(batch) + 1
    BY Appended DEF Event
  <2>2. CASE ~Full(events)
    <3>1. /\ batch' = events /\ timers' = timers + 1 /\ writer' = "idle" /\ writer = "ready"
          /\ Len(results') = Len(results) + 1 /\ UNCHANGED <<leaked, locked, faults>>
      BY <1>12, <2>2 DEF addToBatch, Return
    <3>2. Len(batch') < BatchSize
      BY <2>1, <2>2, <3>1 DEF Full
    <3>3. QED
      BY <3>1, <3>2
  <2>3. CASE Full(events)
    <3>1. batch' = <<>> /\ Len(batch') = 0 /\ UNCHANGED <<timers, leaked>> /\ faults' >= faults /\ faults' \in Nat
      BY <1>12, <2>3, SMTT(30) DEF addToBatch, FlushBatch, Put, Fault
    <3> HIDE DEF events
    <3>2. CASE locked' = None
      <4>1. Len(results') = Len(results) + 1 /\ writer' = "idle" /\ writer = "ready"
        BY <1>12, <2>3, <3>2 DEF addToBatch, Return
      <4>2. QED
        BY <3>1, <3>2, <4>1
    <3>3. CASE locked' # None
      BY <1>12, <2>3, <3>1, <3>3 DEF addToBatch
    <3>4. QED
      BY <3>2, <3>3
  <2>4. QED
    BY <2>2, <2>3
<1>13. ASSUME NEW ok \in BOOLEAN, CloseEnds(ok) PROVE Bounds'
  BY <1>13, SMTT(30) DEF CloseEnds, Fault, LocksAgain
<1>14. ASSUME NEW ok \in BOOLEAN, flushBatchTimer(ok) PROVE Bounds'
  BY <1>14, SMTT(30) DEF flushBatchTimer, FlushBatch, Put, Fault, LocksAgain
<1>15. CASE UNCHANGED vars
  BY <1>15 DEF vars
<1>16. QED
  BY <1>1, <1>2, <1>3, <1>4, <1>5, <1>6, <1>7, <1>8, <1>9, <1>10, <1>11, <1>12, <1>13, <1>14, <1>15 DEF Next, OutputNext, WriterSteps, CloseSteps

\* Every step stays on the way of its configuration.
LEMMA WaysStep == Types /\ Ways /\ [Next]_vars => Ways'
<1> SUFFICES ASSUME Types, Ways, [Next]_vars PROVE Ways'
  OBVIOUS
<1> USE DEF Types, Flags, Queues, Ways, Config
<1>1. CASE Consume
  BY <1>1 DEF Consume
<1>2. CASE Signal
  BY <1>2 DEF Signal
<1>3. CASE CloseListeners
  BY <1>3 DEF CloseListeners
<1>4. CASE Write
  BY <1>4 DEF Write, Return
<1>5. CASE writeNonBlocking
  BY <1>5 DEF writeNonBlocking, Return, Full, Event
<1>6. CASE writeWithBackpressure
  BY <1>6 DEF writeWithBackpressure, Return
<1>7. CASE SleepEnds
  BY <1>7 DEF SleepEnds
<1>8. CASE CloseBegins
  BY <1>8 DEF CloseBegins
<1>9. CASE CloseCancels
  BY <1>9 DEF CloseCancels
<1>10. ASSUME NEW ok \in BOOLEAN, connect(ok) PROVE Ways'
  BY <1>10 DEF connect, Fault, MayDial
<1>11. ASSUME NEW ok \in BOOLEAN, sendEvent(ok) PROVE Ways'
  BY <1>11 DEF sendEvent, Put, Fault, Return, Outcome, Event
<1>12. ASSUME NEW ok \in BOOLEAN, addToBatch(ok) PROVE Ways'
  BY <1>12 DEF addToBatch, FlushBatch, Put, Fault, Return, Outcome, Full, LocksAgain, Event
<1>13. ASSUME NEW ok \in BOOLEAN, CloseEnds(ok) PROVE Ways'
  BY <1>13 DEF CloseEnds, Fault, LocksAgain
<1>14. ASSUME NEW ok \in BOOLEAN, flushBatchTimer(ok) PROVE Ways'
  BY <1>14 DEF flushBatchTimer, FlushBatch, Put, Fault, LocksAgain
<1>15. CASE UNCHANGED vars
  BY <1>15 DEF vars
<1>16. QED
  BY <1>1, <1>2, <1>3, <1>4, <1>5, <1>6, <1>7, <1>8, <1>9, <1>10, <1>11, <1>12, <1>13, <1>14, <1>15 DEF Next, OutputNext, WriterSteps, CloseSteps

\* What waits to be sent has a connection until one is lost.
LEMMA OnlineStep == Types /\ Ways /\ Online /\ [Next]_vars => Online'
<1> SUFFICES ASSUME Types, Ways, Online, [Next]_vars PROVE Online'
  OBVIOUS
<1> USE DEF Types, Flags, Queues, Ways, Online, Config
<1>1. CASE Consume
  BY <1>1 DEF Consume
<1>2. CASE Signal
  BY <1>2 DEF Signal
<1>3. CASE CloseListeners
  BY <1>3 DEF CloseListeners
<1>4. CASE Write
  BY <1>4 DEF Write, Return
<1>5. CASE writeNonBlocking
  BY <1>5 DEF writeNonBlocking, Return, Full, Event
<1>6. CASE writeWithBackpressure
  BY <1>6 DEF writeWithBackpressure, Return
<1>7. CASE SleepEnds
  BY <1>7 DEF SleepEnds
<1>8. CASE CloseBegins
  BY <1>8 DEF CloseBegins
<1>9. CASE CloseCancels
  BY <1>9 DEF CloseCancels
<1>10. ASSUME NEW ok \in BOOLEAN, connect(ok) PROVE Online'
  BY <1>10 DEF connect, Fault, MayDial
<1>11. ASSUME NEW ok \in BOOLEAN, sendEvent(ok) PROVE Online'
  BY <1>11 DEF sendEvent, Put, Fault, Return, Outcome, Event
<1>12. ASSUME NEW ok \in BOOLEAN, addToBatch(ok) PROVE Online'
  BY <1>12 DEF addToBatch, FlushBatch, Put, Fault, Return, Outcome, Full, LocksAgain, Event
<1>13. ASSUME NEW ok \in BOOLEAN, CloseEnds(ok) PROVE Online'
  BY <1>13 DEF CloseEnds, Fault, LocksAgain
<1>14. ASSUME NEW ok \in BOOLEAN, flushBatchTimer(ok) PROVE Online'
  BY <1>14 DEF flushBatchTimer, FlushBatch, Put, Fault, LocksAgain
<1>15. CASE UNCHANGED vars
  BY <1>15 DEF vars
<1>16. QED
  BY <1>1, <1>2, <1>3, <1>4, <1>5, <1>6, <1>7, <1>8, <1>9, <1>10, <1>11, <1>12, <1>13, <1>14, <1>15 DEF Next, OutputNext, WriterSteps, CloseSteps

\* Only a flush locks a goroutine out.
LEMMA LockStep == Types /\ Ways /\ LockedOutByFlush /\ [Next]_vars => LockedOutByFlush'
<1> SUFFICES ASSUME Types, Ways, LockedOutByFlush, [Next]_vars PROVE LockedOutByFlush'
  OBVIOUS
<1> USE DEF Types, Flags, Queues, Ways, LockedOutByFlush, Config
<1>1. CASE Consume
  BY <1>1 DEF Consume
<1>2. CASE Signal
  BY <1>2 DEF Signal
<1>3. CASE CloseListeners
  BY <1>3 DEF CloseListeners
<1>4. CASE Write
  BY <1>4 DEF Write, Return
<1>5. CASE writeNonBlocking
  BY <1>5 DEF writeNonBlocking, Return, Full, Event
<1>6. CASE writeWithBackpressure
  BY <1>6 DEF writeWithBackpressure, Return
<1>7. CASE SleepEnds
  BY <1>7 DEF SleepEnds
<1>8. CASE CloseBegins
  BY <1>8 DEF CloseBegins
<1>9. CASE CloseCancels
  BY <1>9 DEF CloseCancels
<1>10. ASSUME NEW ok \in BOOLEAN, connect(ok) PROVE LockedOutByFlush'
  BY <1>10 DEF connect, Fault, MayDial
<1>11. ASSUME NEW ok \in BOOLEAN, sendEvent(ok) PROVE LockedOutByFlush'
  BY <1>11 DEF sendEvent, Put, Fault, Return, Outcome, Event
<1>12. ASSUME NEW ok \in BOOLEAN, addToBatch(ok) PROVE LockedOutByFlush'
  BY <1>12 DEF addToBatch, FlushBatch, Put, Fault, Return, Outcome, Full, LocksAgain, Event
<1>13. ASSUME NEW ok \in BOOLEAN, CloseEnds(ok) PROVE LockedOutByFlush'
  BY <1>13 DEF CloseEnds, Fault, LocksAgain
<1>14. ASSUME NEW ok \in BOOLEAN, flushBatchTimer(ok) PROVE LockedOutByFlush'
  BY <1>14 DEF flushBatchTimer, FlushBatch, Put, Fault, LocksAgain
<1>15. CASE UNCHANGED vars
  BY <1>15 DEF vars
<1>16. QED
  BY <1>1, <1>2, <1>3, <1>4, <1>5, <1>6, <1>7, <1>8, <1>9, <1>10, <1>11, <1>12, <1>13, <1>14, <1>15 DEF Next, OutputNext, WriterSteps, CloseSteps
----------------------------------------------------------------------------
(* The order of the events. *)

\* A later bound, and without what waits.
LEMMA ChainMore ==
    ASSUME NEW s \in Seq(Nat), NEW b \in Seq(Nat), NEW n \in Nat, NEW m \in Nat, n <= m,
           Chain(s, b, n)
    PROVE  Chain(s, b, m) /\ Chain(s, <<>>, m)
BY DEF Chain

\* One more event waits.
LEMMA ChainAppend ==
    ASSUME NEW s \in Seq(Nat), NEW b \in Seq(Nat), NEW n \in Nat, Chain(s, b, n)
    PROVE  Chain(s, Append(b, n + 1), n + 1)
<1> DEFINE t == Append(b, n + 1)
<1>1. /\ Len(t) = Len(b) + 1
      /\ \A i \in 1..Len(b) : t[i] = b[i]
      /\ t[Len(b) + 1] = n + 1
  BY Appended
<1> HIDE DEF t
<1>2. \A i \in 1..Len(t) : i \notin 1..Len(b) => i = Len(b) + 1 /\ t[i] = n + 1
  BY <1>1, SMTT(30)
<1>3. ASSUME NEW i \in 1..Len(t) PROVE t[i] \in 1..(n + 1)
  <2>1. CASE i \in 1..Len(b)
    <3>1. t[i] = b[i] /\ b[i] \in 1..n
      BY <1>1, <2>1 DEF Chain
    <3>2. QED
      BY <3>1
  <2>2. QED
    BY <1>2, <2>1
<1>4. ASSUME NEW i \in 1..Len(t), NEW j \in 1..Len(t), i < j PROVE t[i] < t[j]
  <2>1. i \in 1..Len(b) /\ t[i] = b[i] /\ b[i] \in 1..n
    BY <1>1, <1>4 DEF Chain
  <2>2. CASE j \in 1..Len(b)
    BY <1>1, <1>4, <2>1, <2>2 DEF Chain
  <2>3. QED
    BY <1>2, <2>1, <2>2
<1>5. ASSUME NEW i \in 1..Len(s), NEW j \in 1..Len(t) PROVE s[i] < t[j]
  <2>1. s[i] \in 1..n
    BY DEF Chain
  <2>2. CASE j \in 1..Len(b)
    BY <1>1, <2>2 DEF Chain
  <2>3. QED
    BY <1>2, <2>1, <2>2
<1>6. \A i \in 1..Len(s) : s[i] \in 1..n + 1
  BY DEF Chain
<1>7. QED
  BY <1>3, <1>4, <1>5, <1>6 DEF Chain, t

\* What waits leaves.
LEMMA ChainJoin ==
    ASSUME NEW s \in Seq(Nat), NEW b \in Seq(Nat), NEW n \in Nat, Chain(s, b, n)
    PROVE  Chain(s \o b, <<>>, n)
<1> DEFINE t == s \o b
<1>1. /\ Len(t) = Len(s) + Len(b)
      /\ \A i \in 1..Len(s) : t[i] = s[i]
      /\ \A i \in 1..Len(b) : t[Len(s) + i] = b[i]
  BY Joined
<1> HIDE DEF t
<1>2. \A i \in 1..Len(t) : \/ i \in 1..Len(s) /\ t[i] = s[i]
                           \/ i - Len(s) \in 1..Len(b) /\ t[i] = b[i - Len(s)]
  <2> TAKE i \in 1..Len(t)
  <2>1. CASE i <= Len(s)
    BY <1>1, <2>1
  <2>2. CASE i > Len(s)
    <3>1. i - Len(s) \in 1..Len(b) /\ i = Len(s) + (i - Len(s))
      BY <1>1, <2>2
    <3>2. QED
      BY <1>1, <3>1
  <2>3. QED
    BY <2>1, <2>2
<1>3. \A i \in 1..Len(t) : t[i] \in 1..n
  BY <1>2 DEF Chain
<1>4. \A i, j \in 1..Len(t) : i < j => t[i] < t[j]
  <2> SUFFICES ASSUME NEW i \in 1..Len(t), NEW j \in 1..Len(t), i < j PROVE t[i] < t[j]
    OBVIOUS
  <2>1. CASE i \in 1..Len(s) /\ j \in 1..Len(s)
    BY <1>1, <2>1 DEF Chain
  <2>2. CASE i \in 1..Len(s) /\ j \notin 1..Len(s)
    <3>1. t[i] = s[i]
      BY <1>1, <2>2
    <3>2. j - Len(s) \in 1..Len(b) /\ t[j] = b[j - Len(s)]
      BY <1>2, <2>2
    <3>3. QED
      BY <2>2, <3>1, <3>2 DEF Chain
  <2>3. CASE i \notin 1..Len(s)
    <3>1. i - Len(s) \in 1..Len(b) /\ t[i] = b[i - Len(s)]
      BY <1>2, <2>3
    <3>2. j \notin 1..Len(s)
      BY <2>3
    <3>3. j - Len(s) \in 1..Len(b) /\ t[j] = b[j - Len(s)]
      BY <1>2, <3>2
    <3>4. i - Len(s) < j - Len(s)
      OBVIOUS
    <3>5. QED
      BY <3>1, <3>3, <3>4 DEF Chain
  <2>4. QED
    BY <2>1, <2>2, <2>3
<1>5. QED
  BY <1>3, <1>4, SMTT(30) DEF Chain, t

\* Write answers one event at a time, and a lock that was taken twice is never released.
LEMMA Grows ==
    ASSUME Types, [Next]_vars
    PROVE  /\ Len(results) \in Nat /\ Len(results') \in Nat /\ Len(results) <= Len(results')
           /\ Bound \in Nat /\ Bound' \in Nat /\ Bound <= Bound'
           /\ Unlocked => Bound = Len(results)
<1>1. /\ Len(results) \in Nat /\ Len(results') \in Nat /\ Len(results) <= Len(results')
      /\ Len(results') = Len(results) \/ Len(results') = Len(results) + 1
  <2>1. \A r \in Answers : Len(Append(results, r)) = Len(results) + 1
    BY Appended DEF Types, Queues
  <2>2. Len(results) \in Nat
    BY DEF Types, Queues
  <2>3. QED
    BY <2>1, <2>2, Moves
<1>2. Len(results') = Len(results) + 1 => writer' = "idle" /\ writer # "idle"
  <2>1. results' = results \/ (writer' = "idle" /\ writer # "idle")
    BY DEF Next, OutputNext, WriterSteps, CloseSteps, vars, Consume, Signal, CloseListeners, Write,
           writeNonBlocking, writeWithBackpressure, SleepEnds, CloseBegins, CloseCancels, connect,
           sendEvent, addToBatch, CloseEnds, flushBatchTimer, Return
  <2>2. QED
    BY <1>1, <2>1
<1>3. writer' # "idle" \/ writer = "idle" \/ results' # results
  BY DEF Next, OutputNext, WriterSteps, CloseSteps, vars, Consume, Signal, CloseListeners, Write,
         writeNonBlocking, writeWithBackpressure, SleepEnds, CloseBegins, CloseCancels, connect,
         sendEvent, addToBatch, CloseEnds, flushBatchTimer, Return
<1>4. ~Unlocked => ~Unlocked'
  BY DEF Next, OutputNext, WriterSteps, CloseSteps, vars, Consume, Signal, CloseListeners, Write,
         writeNonBlocking, writeWithBackpressure, SleepEnds, CloseBegins, CloseCancels, connect,
         sendEvent, addToBatch, CloseEnds, flushBatchTimer
<1>5. results' # results => Len(results') = Len(results) + 1
  <2>1. \A r \in Answers : Len(Append(results, r)) = Len(results) + 1
    BY Appended DEF Types, Queues
  <2>2. QED
    BY <2>1, Moves
<1>6. QED
  BY <1>1, <1>2, <1>3, <1>4, <1>5 DEF Bound, Taken

\* Every step keeps the order.
LEMMA OrderStep == Types /\ Ways /\ Order /\ [Next]_vars => Order'
<1> SUFFICES ASSUME Types, Ways, Order, [Next]_vars PROVE Order'
  OBVIOUS
<1> DEFINE n == Len(results)
<1>1. /\ batch \in Seq(Nat) /\ sent \in Seq(Nat) /\ Append(batch, Event) \in Seq(Nat) /\ Event = n + 1
      /\ batch' \in Seq(Nat) /\ sent' \in Seq(Nat)
  BY TypesStep, Appended DEF Types, Queues, Event
<1>2. /\ n \in Nat /\ Bound \in Nat /\ Bound' \in Nat /\ Bound <= Bound'
      /\ Unlocked => Bound = n
  BY Grows
<1>3. ASSUME sent' = sent, batch' = batch \/ batch' = <<>> PROVE Order'
  BY <1>1, <1>2, <1>3, ChainMore DEF Order
<1>4. ASSUME sent' = sent \o batch, batch' = <<>> PROVE Order'
  <2>1. Chain(sent', <<>>, Bound)
    BY <1>1, <1>2, <1>4, ChainJoin DEF Order
  <2>2. QED
    BY <1>1, <1>2, <1>4, <2>1, ChainMore DEF Order
<1>5. ASSUME Unlocked, n + 1 <= Bound', sent' = sent, batch' = Append(batch, Event) PROVE Order'
  <2> Chain(sent, batch, n)
    BY <1>2, <1>5 DEF Order
  <2>0. Chain(sent, Append(batch, n + 1), n + 1)
    BY <1>1, <1>2, ChainAppend
  <2>1. Chain(sent, batch', n + 1)
    BY <2>0, <1>1, <1>5
  <2> n + 1 \in Nat
    BY <1>2
  <2>2. Chain(sent, batch', Bound')
    BY <1>1, <1>2, <1>5, <2>1, ChainMore
  <2>3. QED
    BY <1>5, <2>2 DEF Order
<1>6. ASSUME Unlocked, n + 1 <= Bound', sent' = sent \o Append(batch, Event), batch' = <<>> PROVE Order'
  <2> Chain(sent, batch, n)
    BY <1>2, <1>6 DEF Order
  <2>0. Chain(sent, Append(batch, n + 1), n + 1)
    BY <1>1, <1>2, ChainAppend
  <2>1. Chain(sent, Append(batch, Event), n + 1)
    BY <2>0, <1>1
  <2> n + 1 \in Nat
    BY <1>2
  <2>2. Chain(sent \o Append(batch, Event), <<>>, n + 1)
    BY <1>1, <2>1, ChainJoin
  <2>3. Chain(sent', <<>>, n + 1)
    BY <1>6, <2>2
  <2>4. QED
    BY <1>1, <1>2, <1>6, <2>3, ChainMore DEF Order
<1>7. \A r : results' = Append(results, r) /\ r \in Answers => Len(results') = n + 1
  BY Appended DEF Types, Queues
<1>8. CASE Consume \/ Signal \/ CloseListeners \/ Write \/ writeWithBackpressure \/ SleepEnds
           \/ CloseBegins \/ CloseCancels \/ UNCHANGED vars
  BY <1>3, <1>8 DEF Consume, Signal, CloseListeners, Write, writeWithBackpressure, SleepEnds,
                    CloseBegins, CloseCancels, vars
<1>9. ASSUME NEW ok \in BOOLEAN, connect(ok) PROVE Order'
  BY <1>3, <1>9 DEF connect
<1>10. CASE writeNonBlocking
  <2>1. CASE batch' = batch
    BY <1>3, <1>10, <2>1 DEF writeNonBlocking
  <2>2. CASE batch' = Append(batch, Event)
    <3>1. Unlocked /\ sent' = sent
      BY <1>10 DEF writeNonBlocking
    <3>2. CASE locked' = "writer" /\ UNCHANGED <<writer, results>>
      <4>1. Bound' = n + 1
        BY <1>2, <1>10, <3>2 DEF writeNonBlocking, Bound, Taken
      <4>2. QED
        BY <1>2, <1>5, <2>2, <3>1, <4>1
    <3>3. CASE Return("nil") /\ UNCHANGED locked
      <4>1. Bound' = n + 1
        BY <1>7, <3>1, <3>3 DEF Return, Bound, Answers
      <4>2. QED
        BY <1>2, <1>5, <2>2, <3>1, <4>1
    <3>4. QED
      BY <1>10, <2>2, <3>2, <3>3, <1>3 DEF writeNonBlocking
  <2>3. QED
    BY <1>10, <2>1, <2>2 DEF writeNonBlocking
<1>11. ASSUME NEW ok \in BOOLEAN, sendEvent(ok) PROVE Order'
  <2>1. CASE sent' = sent
    BY <1>3, <1>11, <2>1 DEF sendEvent
  <2>2. CASE sent' = sent \o <<Event>> /\ sent' # sent
    <3>1. Unlocked /\ locked' = locked /\ batch = <<>> /\ batch' = <<>>
      BY <1>11 DEF sendEvent, Ways
    <3>2. Append(batch, Event) = <<Event>>
      BY <3>1
    <3>3. Bound' = n + 1
      BY <1>7, <1>11, <3>1 DEF sendEvent, Return, Outcome, Answers, Bound
    <3>4. QED
      BY <1>2, <1>6, <2>2, <3>1, <3>2, <3>3
  <2>3. QED
    BY <1>11, <2>1, <2>2 DEF sendEvent, Put
<1>12. ASSUME NEW ok \in BOOLEAN, addToBatch(ok) PROVE Order'
  <2> DEFINE events == Append(batch, Event)
  <2>1. Unlocked
    BY <1>12 DEF addToBatch
  <2>2. CASE ~Full(events)
    <3>1. sent' = sent /\ batch' = events /\ locked' = locked /\ results' = Append(results, "nil")
      BY <1>12, <2>2 DEF addToBatch, Return
    <3>2. Bound' = n + 1
      BY <1>7, <2>1, <3>1 DEF Bound, Answers
    <3>3. QED
      BY <1>2, <1>5, <2>1, <3>1, <3>2
  <2>3. CASE Full(events)
    <3>1. batch' = <<>>
      BY <1>12, <2>3 DEF addToBatch, FlushBatch
    <3>2. CASE sent' = sent
      BY <1>3, <3>1, <3>2
    <3>3. CASE sent' # sent
      <4>1. sent' = sent \o events /\ locked' = None
        BY <1>12, <2>3, <3>3 DEF addToBatch, FlushBatch, Put, LocksAgain
      <4>2. Bound' = n + 1
        BY <1>7, <1>12, <2>3, <4>1 DEF addToBatch, Return, Outcome, Answers, Bound
      <4>3. QED
        BY <1>2, <1>6, <2>1, <3>1, <4>1, <4>2
    <3>4. QED
      BY <3>2, <3>3
  <2>4. QED
    BY <2>2, <2>3
<1>13. ASSUME NEW ok \in BOOLEAN, flushBatchTimer(ok) PROVE Order'
  <2>1. batch' = <<>> /\ (sent' = sent \/ sent' = sent \o batch)
    BY <1>13 DEF flushBatchTimer, FlushBatch, Put
  <2>2. QED
    BY <1>3, <1>4, <2>1
<1>14. ASSUME NEW ok \in BOOLEAN, CloseEnds(ok) PROVE Order'
  <2>1. \/ sent' = sent /\ (batch' = batch \/ batch' = <<>>)
        \/ sent' = sent \o batch /\ batch' = <<>>
    BY <1>14 DEF CloseEnds
  <2>2. QED
    BY <1>3, <1>4, <2>1
<1>15. QED
  BY <1>8, <1>9, <1>10, <1>11, <1>12, <1>13, <1>14 DEF Next, OutputNext, WriterSteps, CloseSteps
----------------------------------------------------------------------------
(* What becomes of an event for which Write returned no error. *)

\* The elements of a longer sequence.
LEMMA RangeAppend ==
    ASSUME NEW S, NEW s \in Seq(S), NEW e \in S
    PROVE  Range(Append(s, e)) = Range(s) \cup {e}
<1>1. /\ DOMAIN Append(s, e) = 1..(Len(s) + 1) /\ DOMAIN s = 1..Len(s)
      /\ \A i \in 1..Len(s) : Append(s, e)[i] = s[i]
      /\ Append(s, e)[Len(s) + 1] = e
      /\ Len(s) \in Nat
  BY Appended
<1>2. ASSUME NEW x \in Range(Append(s, e)) PROVE x \in Range(s) \cup {e}
  <2>1. PICK i \in 1..(Len(s) + 1) : x = Append(s, e)[i]
    BY <1>1 DEF Range
  <2>2. i \in 1..Len(s) \/ i = Len(s) + 1
    BY <1>1
  <2>3. QED
    BY <1>1, <2>1, <2>2 DEF Range
<1>3. ASSUME NEW x \in Range(s) PROVE x \in Range(Append(s, e))
  <2>1. PICK i \in 1..Len(s) : x = s[i]
    BY <1>1 DEF Range
  <2>2. i \in 1..(Len(s) + 1) /\ x = Append(s, e)[i]
    BY <1>1, <2>1
  <2>3. QED
    BY <1>1, <2>2 DEF Range
<1>4. e \in Range(Append(s, e))
  <2>1. Len(s) + 1 \in 1..(Len(s) + 1)
    BY <1>1
  <2>2. QED
    BY <1>1, <2>1 DEF Range
<1>5. QED
  BY <1>2, <1>3, <1>4

\* The elements of two sequences one after the other.
LEMMA RangeJoin ==
    ASSUME NEW S, NEW s \in Seq(S), NEW t \in Seq(S)
    PROVE  Range(s) \subseteq Range(s \o t) /\ Range(t) \subseteq Range(s \o t)
<1>1. /\ DOMAIN (s \o t) = 1..(Len(s) + Len(t)) /\ DOMAIN s = 1..Len(s) /\ DOMAIN t = 1..Len(t)
      /\ \A i \in 1..Len(s) : (s \o t)[i] = s[i]
      /\ \A i \in 1..Len(t) : (s \o t)[Len(s) + i] = t[i]
      /\ Len(s) \in Nat /\ Len(t) \in Nat
  BY Joined
<1>2. ASSUME NEW x \in Range(s) PROVE x \in Range(s \o t)
  <2>1. PICK i \in 1..Len(s) : x = s[i]
    BY <1>1 DEF Range
  <2>2. i \in 1..(Len(s) + Len(t)) /\ x = (s \o t)[i]
    BY <1>1, <2>1
  <2>3. QED
    BY <1>1, <2>2 DEF Range
<1>3. ASSUME NEW x \in Range(t) PROVE x \in Range(s \o t)
  <2>1. PICK i \in 1..Len(t) : x = t[i]
    BY <1>1 DEF Range
  <2>2. Len(s) + i \in 1..(Len(s) + Len(t)) /\ x = (s \o t)[Len(s) + i]
    BY <1>1, <2>1
  <2>3. QED
    BY <1>1, <2>2 DEF Range
<1>4. QED
  BY <1>2, <1>3

\* What is somewhere, and what excuses an event for being nowhere.
Held == Range(sent) \cup Range(batch)
Excused == cfg.batch /\ (faults > 0 \/ closed)

\* An excuse stays one.
LEMMA StaysExcused == Types /\ [Next]_vars => (Excused => Excused')
<1> SUFFICES ASSUME Types, [Next]_vars, Excused PROVE Excused'
  OBVIOUS
<1> USE DEF Types, Flags, Excused
<1>1. CASE Consume
  BY <1>1 DEF Consume
<1>2. CASE Signal
  BY <1>2 DEF Signal
<1>3. CASE CloseListeners
  BY <1>3 DEF CloseListeners
<1>4. CASE Write
  BY <1>4 DEF Write, Return
<1>5. CASE writeNonBlocking
  BY <1>5 DEF writeNonBlocking, Return, Full, Event
<1>6. CASE writeWithBackpressure
  BY <1>6 DEF writeWithBackpressure, Return
<1>7. CASE SleepEnds
  BY <1>7 DEF SleepEnds
<1>8. CASE CloseBegins
  BY <1>8 DEF CloseBegins
<1>9. CASE CloseCancels
  BY <1>9 DEF CloseCancels
<1>10. ASSUME NEW ok \in BOOLEAN, connect(ok) PROVE Excused'
  BY <1>10 DEF connect, Fault, MayDial
<1>11. ASSUME NEW ok \in BOOLEAN, sendEvent(ok) PROVE Excused'
  BY <1>11 DEF sendEvent, Put, Fault, Return, Outcome, Event
<1>12. ASSUME NEW ok \in BOOLEAN, addToBatch(ok) PROVE Excused'
  BY <1>12 DEF addToBatch, FlushBatch, Put, Fault, Return, Outcome, Full, LocksAgain, Event
<1>13. ASSUME NEW ok \in BOOLEAN, CloseEnds(ok) PROVE Excused'
  BY <1>13 DEF CloseEnds, Fault, LocksAgain
<1>14. ASSUME NEW ok \in BOOLEAN, flushBatchTimer(ok) PROVE Excused'
  BY <1>14 DEF flushBatchTimer, FlushBatch, Put, Fault, LocksAgain
<1>15. CASE UNCHANGED vars
  BY <1>15 DEF vars
<1>16. QED
  BY <1>1, <1>2, <1>3, <1>4, <1>5, <1>6, <1>7, <1>8, <1>9, <1>10, <1>11, <1>12, <1>13, <1>14, <1>15 DEF Next, OutputNext, WriterSteps, CloseSteps

\* A step that answers no event without having it, and loses none without an excuse.
LEMMA KeepsNil ==
    ASSUME Types, [Next]_vars, NilIsKept,
           results' = results \/ results' = Append(results, "error")
             \/ (results' = Append(results, "nil") /\ (Event \in Held' \/ Excused')),
           Held \subseteq Held' \/ Excused'
    PROVE  NilIsKept'
<1> SUFFICES ASSUME NEW i \in DOMAIN results', results'[i] = "nil", i \notin Held'
             PROVE  Excused'
  BY DEF NilIsKept, Held, Excused
<1>1. Excused => Excused'
  BY StaysExcused
<1>2. CASE results' = results
  BY <1>1, <1>2 DEF NilIsKept, Held, Excused
<1>3. ASSUME NEW r \in Answers, results' = Append(results, r), r = "nil" => Event \in Held' \/ Excused'
      PROVE  Excused'
  <2>1. /\ DOMAIN results' = 1..(Len(results) + 1) /\ DOMAIN results = 1..Len(results)
        /\ \A k \in 1..Len(results) : results'[k] = results[k]
        /\ results'[Len(results) + 1] = r
        /\ Len(results) \in Nat
    BY <1>3, Appended DEF Types, Queues
  <2>2. CASE i \in 1..Len(results)
    BY <1>1, <2>1, <2>2 DEF NilIsKept, Held, Excused
  <2>3. CASE i = Len(results) + 1
    BY <1>3, <2>1, <2>3 DEF Event
  <2>4. QED
    BY <2>1, <2>2, <2>3
<1>4. QED
  BY <1>2, <1>3 DEF Answers

\* Every step.
LEMMA NilStep == Types /\ Ways /\ Online /\ NilIsKept /\ [Next]_vars => NilIsKept'
<1> SUFFICES ASSUME Types, Ways, Online, NilIsKept, [Next]_vars PROVE NilIsKept'
  OBVIOUS
<1>1. /\ batch \in Seq(Nat) /\ sent \in Seq(Nat) /\ Event \in Nat /\ Append(batch, Event) \in Seq(Nat)
      /\ <<Event>> \in Seq(Nat)
  BY Appended DEF Types, Queues, Event
<1>2. Range(Append(batch, Event)) = Range(batch) \cup {Event}
  BY <1>1, RangeAppend
<1>3. Range(<<Event>>) = {Event}
  BY DEF Range
<1>4. \A t \in Seq(Nat) : Range(sent) \subseteq Range(sent \o t) /\ Range(t) \subseteq Range(sent \o t)
  BY <1>1, RangeJoin
<1>5. CASE Consume \/ Signal \/ CloseListeners \/ Write \/ writeWithBackpressure \/ SleepEnds
           \/ CloseBegins \/ CloseCancels \/ UNCHANGED vars
  BY <1>5, KeepsNil DEF Consume, Signal, CloseListeners, Write, writeWithBackpressure, SleepEnds,
                        CloseBegins, CloseCancels, vars, Return, Held
<1>6. ASSUME NEW ok \in BOOLEAN, connect(ok) PROVE NilIsKept'
  BY <1>6, KeepsNil DEF connect, Held
<1>7. CASE writeNonBlocking
  BY <1>2, <1>7, KeepsNil DEF writeNonBlocking, Return, Held
<1>8. ASSUME NEW ok \in BOOLEAN, sendEvent(ok) PROVE NilIsKept'
  <2>1. CASE sent' = sent \o <<Event>> /\ batch' = batch
    BY <1>1, <1>3, <1>4, <1>8, <2>1, KeepsNil DEF sendEvent, Return, Outcome, Held
  <2>2. CASE sent' = sent /\ batch' = batch /\ (~ok \/ ~Connected)
    BY <1>8, <2>2, KeepsNil DEF sendEvent, Return, Outcome, Held
  <2>3. QED
    BY <1>8, <2>1, <2>2 DEF sendEvent, Put
<1>9. ASSUME NEW ok \in BOOLEAN, addToBatch(ok) PROVE NilIsKept'
  <2> DEFINE events == Append(batch, Event)
  <2>1. CASE ~Full(events)
    <3>1. sent' = sent /\ batch' = events /\ results' = Append(results, "nil")
      BY <1>9, <2>1 DEF addToBatch, Return
    <3>2. Held \subseteq Held' /\ Event \in Held'
      BY <1>2, <3>1 DEF Held
    <3>3. QED
      BY <3>1, <3>2, KeepsNil
  <2>2. CASE Full(events) /\ ok /\ Connected
    <3>a. Len(events) = Len(batch) + 1 /\ events # <<>>
      BY <1>1, Appended
    <3>1. sent' = sent \o events /\ batch' = <<>>
      BY <1>9, <2>2, <3>a DEF addToBatch, FlushBatch, Put
    <3>2. Range(sent) \subseteq Held' /\ Range(batch) \subseteq Held' /\ Event \in Held'
      BY <1>1, <1>2, <1>4, <3>1 DEF Held
    <3>3. QED
      BY <1>9, <2>2, <3>2, KeepsNil DEF addToBatch, Return, Outcome, Held
  <2>3. CASE Full(events) /\ ~(ok /\ Connected)
    <3>1. cfg.batch /\ cfg' = cfg /\ (faults' > 0 \/ (closed /\ closed' = closed))
      BY <1>9, <2>3 DEF addToBatch, FlushBatch, Put, Fault, Online, Ways, Types, Flags
    <3>2. Excused'
      BY <3>1 DEF Excused
    <3>3. QED
      BY <1>9, <2>3, <3>2, KeepsNil DEF addToBatch, Return, Outcome
  <2>4. QED
    BY <2>1, <2>2, <2>3
<1>10. ASSUME NEW ok \in BOOLEAN, flushBatchTimer(ok) PROVE NilIsKept'
  <2>0. results' = results /\ batch' = <<>> /\ cfg' = cfg /\ closed' = closed
    BY <1>10 DEF flushBatchTimer, FlushBatch
  <2>1. CASE batch = <<>>
    BY <1>10, <2>0, <2>1, KeepsNil DEF flushBatchTimer, FlushBatch, Held
  <2>2. CASE batch # <<>> /\ ok /\ Connected
    <3>1. sent' = sent \o batch
      BY <1>10, <2>2 DEF flushBatchTimer, FlushBatch, Put
    <3>2. QED
      BY <1>1, <1>4, <2>0, <3>1, KeepsNil DEF Held
  <2>3. CASE batch # <<>> /\ ~(ok /\ Connected)
    <3>1. cfg.batch /\ (faults' > 0 \/ closed)
      BY <1>10, <2>3 DEF flushBatchTimer, FlushBatch, Put, Fault, Online, Ways, Types, Flags
    <3>2. QED
      BY <2>0, <3>1, KeepsNil DEF Excused
  <2>4. QED
    BY <2>1, <2>2, <2>3
<1>11. ASSUME NEW ok \in BOOLEAN, CloseEnds(ok) PROVE NilIsKept'
  <2>0. results' = results /\ cfg' = cfg /\ closed' = closed /\ closed
    BY <1>11 DEF CloseEnds, Ways
  <2>1. CASE sent' = sent /\ batch' = batch
    BY <2>0, <2>1, KeepsNil DEF Held
  <2>2. CASE batch # <<>>
    BY <2>0, <2>2, KeepsNil DEF Ways, Excused
  <2>3. QED
    BY <1>11, <2>1, <2>2 DEF CloseEnds
<1>12. QED
  BY <1>5, <1>6, <1>7, <1>8, <1>9, <1>10, <1>11 DEF Next, OutputNext, WriterSteps, CloseSteps

----------------------------------------------------------------------------
\* All of it holds initially and is kept by every step.
LEMMA OutputInvariant == Spec => []OutputInv
<1>1. Init => OutputInv
  <2> SUFFICES ASSUME Init PROVE OutputInv
    OBVIOUS
  <2> USE DEF Init, OutputInit
  <2>1. Flags /\ Queues
    <3>1. <<>> \in Seq(Nat) /\ <<>> \in Seq(Answers)
      OBVIOUS
    <3>2. Queues
      BY <3>1 DEF Queues
    <3>3. faults \in 0..MaxFaults /\ leaked \in Nat /\ timers \in Nat
      OBVIOUS
    <3>4. QED
      BY <3>2, <3>3 DEF Flags
  <2>2. Order /\ NilIsKept
    BY DEF Order, Chain, NilIsKept
  <2>3. Bounds /\ Ways /\ Online /\ LockedOutByFlush
    BY DEF Bounds, Taken, Ways, Online, LockedOutByFlush, Config
  <2>4. QED
    BY <2>1, <2>2, <2>3 DEF OutputInv, Types
<1>2. OutputInv /\ [Next]_vars => OutputInv'
  BY TypesStep, BoundsStep, WaysStep, OnlineStep, OrderStep, NilStep, LockStep DEF OutputInv
<1>3. QED
  BY <1>1, <1>2, PTL DEF Spec

\* The types of all variables, in every reachable state: no batch grows beyond its size, no
\* event starts more than one timer, and a websocket leaks only with an event or a fault.
THEOREM TypeCorrect == Spec => []TypeOK
<1>1. OutputInv => TypeOK
  <2> SUFFICES ASSUME OutputInv PROVE TypeOK
    OBVIOUS
  <2> USE DEF OutputInv, Types, Flags
  <2>1. Len(results) \in Nat /\ Taken \in Nat /\ Bound <= Taken /\ Len(results) <= Taken
    BY DEF Queues, Bound, Taken
  <2>2. Range(sent) \subseteq 1..Taken /\ Range(batch) \subseteq 1..Taken
    <3>1. \A i \in 1..Len(sent) : sent[i] \in 1..Taken
      BY <2>1 DEF Order, Chain, Bound
    <3>2. \A i \in 1..Len(batch) : batch[i] \in 1..Taken
      BY <2>1 DEF Order, Chain, Bound
    <3>3. DOMAIN sent = 1..Len(sent) /\ DOMAIN batch = 1..Len(batch)
      BY DEF Queues
    <3>4. QED
      BY <3>1, <3>2, <3>3 DEF Range
  <2>3. Range(results) \subseteq {"nil", "error"}
    BY DEF Range, Queues, Answers
  <2>4. {conn, wsConn, closed, cancelled} \subseteq BOOLEAN
    OBVIOUS
  <2>5. leaked \in 0..MaxEvents + MaxFaults /\ timers \in 0..MaxEvents /\ Len(batch) <= BatchSize
    BY <2>1 DEF Bounds, Taken
  <2>6. QED
    BY <2>2, <2>3, <2>4, <2>5 DEF TypeOK
<1>2. QED
  BY <1>1, OutputInvariant, PTL

\* Events leave in the order in which they came and each at most once, whoever flushes them:
\* a Write, a timer or Close.
THEOREM LeavesInOrder == Spec => []InOrder
<1>1. OutputInv => InOrder
  <2>1. sent \in Seq(Nat) => DOMAIN sent = 1..Len(sent)
    OBVIOUS
  <2>2. QED
    BY <2>1 DEF OutputInv, Order, Chain, InOrder, Types, Queues
<1>2. QED
  BY <1>1, OutputInvariant, PTL

\* An event for which Write returned no error has left or waits, unless it was in a batch and
\* the connection failed or the output was closed.
THEOREM NilKept == Spec => []NilIsKept
<1>1. OutputInv => NilIsKept
  BY DEF OutputInv
<1>2. QED
  BY <1>1, OutputInvariant, PTL

\* Only a flush locks a goroutine out: of a full batch without backpressure, or after an error
\* of a TCP connection.
THEOREM OnlyFlushLocksOut == Spec => []LockedOutByFlush
<1>1. OutputInv => LockedOutByFlush
  BY DEF OutputInv
<1>2. QED
  BY <1>1, OutputInvariant, PTL

\* When Close has returned, nothing leaves, nothing is dialled and nothing is open but what
\* a reconnect had replaced.
THEOREM ClosedQuiet == Spec => ClosedIsQuiet
<1>1. Types /\ Ways /\ [Next]_vars =>
        [closing = "done" => /\ sent' = sent
                             /\ ~conn' /\ ~wsConn'
                             /\ leaked' = leaked
                             /\ leaked > 0 => cfg.websocket /\ cfg.backpressure]_vars
  <2> SUFFICES ASSUME Types, Ways, [Next]_vars, closing = "done"
               PROVE  /\ sent' = sent
                      /\ ~conn' /\ ~wsConn'
                      /\ leaked' = leaked
                      /\ leaked > 0 => cfg.websocket /\ cfg.backpressure
    OBVIOUS
  <2>1. ~conn /\ ~wsConn /\ closed /\ (leaked > 0 => cfg.websocket /\ cfg.backpressure)
    BY DEF Ways
  <2> DEFINE Still == sent' = sent /\ ~conn' /\ ~wsConn' /\ leaked' = leaked
  <2>2. Still
    <3>1. CASE Consume
      BY <2>1, <3>1 DEF Consume
    <3>2. CASE Signal
      BY <2>1, <3>2 DEF Signal
    <3>3. CASE CloseListeners
      BY <2>1, <3>3 DEF CloseListeners
    <3>4. CASE Write
      BY <2>1, <3>4 DEF Write, Return
    <3>5. CASE writeNonBlocking
      BY <2>1, <3>5 DEF writeNonBlocking, Return, Full, Event
    <3>6. CASE writeWithBackpressure
      BY <2>1, <3>6 DEF writeWithBackpressure, Return
    <3>7. CASE SleepEnds
      BY <2>1, <3>7 DEF SleepEnds
    <3>8. CASE CloseBegins
      BY <2>1, <3>8 DEF CloseBegins
    <3>9. CASE CloseCancels
      BY <2>1, <3>9 DEF CloseCancels
    <3>10. ASSUME NEW ok \in BOOLEAN, connect(ok) PROVE Still
      BY <2>1, <3>10 DEF connect, Fault, MayDial
    <3>11. ASSUME NEW ok \in BOOLEAN, sendEvent(ok) PROVE Still
      BY <2>1, <3>11 DEF sendEvent, Put, Fault, Return, Outcome, Event
    <3>12. ASSUME NEW ok \in BOOLEAN, addToBatch(ok) PROVE Still
      BY <2>1, <3>12 DEF addToBatch, FlushBatch, Put, Fault, Return, Outcome, Full, LocksAgain, Event
    <3>13. ASSUME NEW ok \in BOOLEAN, CloseEnds(ok) PROVE Still
      BY <2>1, <3>13 DEF CloseEnds, Fault, LocksAgain
    <3>14. ASSUME NEW ok \in BOOLEAN, flushBatchTimer(ok) PROVE Still
      BY <2>1, <3>14 DEF flushBatchTimer, FlushBatch, Put, Fault, LocksAgain
    <3>15. CASE UNCHANGED vars
      BY <2>1, <3>15 DEF vars
    <3>16. QED
      BY <3>1, <3>2, <3>3, <3>4, <3>5, <3>6, <3>7, <3>8, <3>9, <3>10, <3>11, <3>12, <3>13, <3>14, <3>15 DEF Next, OutputNext, WriterSteps, CloseSteps
  <2>3. QED
    BY <2>1, <2>2
<1>2. OutputInv => Types /\ Ways
  BY DEF OutputInv
<1>3. QED
  BY <1>1, <1>2, OutputInvariant, PTL DEF Spec, ClosedIsQuiet

============================================================================
