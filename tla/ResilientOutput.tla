-------------------------- MODULE ResilientOutput --------------------------
(***************************************************************************)
(* internal/output/resilient.go: the connection of a site connector to its *)
(* server. Its users are the consumer that calls Write, the timers that    *)
(* flush a batch, and main, which calls Close. Every critical section of   *)
(* `mu` is one step, except that a goroutine which locks it again inside   *)
(* one stays there for ever.                                               *)
(*                                                                         *)
(* The spool is not here: NewResilientOutput makes one and drops it, so    *)
(* that every branch with a buffer is dead, Replay among them.             *)
(***************************************************************************)
EXTENDS Naturals, Sequences, SequencesExt

CONSTANTS
    None,
    BatchSize,
    MaxEvents,      \* bound: events of a behaviour
    MaxFaults       \* bound: dials and writes that fail

ASSUME OutputAssumption ==
    /\ BatchSize \in Nat \ {0}
    /\ MaxEvents \in Nat
    /\ MaxFaults \in Nat
    /\ None \notin {"writer", "timer", "closer"}

VARIABLES
    cfg,        \* which of websocket, batch and backpressure are on
    conn,       \* the TCP connection
    wsConn,     \* the websocket
    leaked,     \* websockets that were replaced and are open
    closed,
    cancelled,  \* the context
    batch,      \* events that wait for a flush
    timers,     \* goroutines that flush when their time is over
    locked,     \* who locked `mu` a second time
    writer,     \* the consumer: where it is in Write
    closing,    \* where main is in Close
    sent,       \* events the connection took, in that order
    results,    \* what Write returned, event by event
    faults

outputVars == <<cfg, conn, wsConn, leaked, closed, cancelled, batch, timers, locked, writer,
                closing, sent, results, faults>>

Config == [websocket : BOOLEAN, batch : BOOLEAN, backpressure : BOOLEAN]

OutputInit ==
    /\ cfg \in Config
    /\ conn = FALSE
    /\ wsConn = FALSE
    /\ leaked = 0
    /\ closed = FALSE
    /\ cancelled = FALSE
    /\ batch = <<>>
    /\ timers = 0
    /\ locked = None
    /\ writer = "idle"
    /\ closing = "no"
    /\ sent = <<>>
    /\ results = <<>>
    /\ faults = 0

Unlocked == locked = None

Fault(ok) ==
    /\ ok \/ faults < MaxFaults
    /\ faults' = IF ok THEN faults ELSE faults + 1

\* The event Write is at.
Event == Len(results) + 1

Return(result) ==
    /\ writer' = "idle"
    /\ results' = Append(results, result)

\* Mutant: Write returns no error whatever the connection did.
OutcomeNil(ok) == "nil"

Outcome(ok) == IF ok THEN "nil" ELSE "error"

Connected == IF cfg.websocket THEN wsConn ELSE conn

\* Whatever the connection takes, it takes whole. After an error a websocket is given up.
Put(events, ok) ==
    /\ Fault(ok)
    /\ sent' = IF ok THEN sent \o events ELSE sent
    /\ wsConn' = (wsConn /\ (ok \/ ~cfg.websocket))

\* Mutant: the lock is taken after an error of a websocket, too.
LocksAgainAlways(ok) == ~ok

\* After an error on TCP a flush locks `mu`, which its caller holds.
LocksAgain(ok) == ~ok /\ ~cfg.websocket

\* Mutant: the batch is not emptied.
FlushKeeps(who, events, ok) ==
    /\ batch' = events
    /\ IF events # <<>> /\ Connected
       THEN /\ Put(events, ok)
            /\ locked' = IF LocksAgain(ok) THEN who ELSE None
       ELSE /\ ok
            /\ UNCHANGED <<sent, wsConn, locked, faults>>

\* flushBatchLocked empties the batch before it knows whether it can send it.
FlushBatch(who, events, ok) ==
    /\ batch' = <<>>
    /\ IF events # <<>> /\ Connected
       THEN /\ Put(events, ok)
            /\ locked' = IF LocksAgain(ok) THEN who ELSE None
       ELSE /\ ok
            /\ UNCHANGED <<sent, wsConn, locked, faults>>

-----------------------------------------------------------------------------
(* Write *)

Write ==
    /\ writer = "called"
    /\ Unlocked
    /\ IF closed THEN Return("error")
       ELSE /\ writer' = IF cfg.backpressure THEN "loop" ELSE "direct"
            /\ UNCHANGED results
    /\ UNCHANGED <<cfg, conn, wsConn, leaked, closed, cancelled, batch, timers, locked, closing,
                   sent, faults>>

\* Mutant: a batch is full when it has one event more.
FullLate(events) == Len(events) > BatchSize

Full(events) == Len(events) >= BatchSize

\* Without backpressure nothing ever connects, and a full batch is flushed by a function that
\* locks `mu` again.
writeNonBlocking ==
    /\ writer = "direct"
    /\ Unlocked
    /\ IF ~cfg.batch
       THEN Return("error") /\ UNCHANGED <<batch, locked>>
       ELSE /\ batch' = Append(batch, Event)
            /\ IF Full(batch')
               THEN locked' = "writer" /\ UNCHANGED <<writer, results>>
               ELSE Return("nil") /\ UNCHANGED locked
    /\ UNCHANGED <<cfg, conn, wsConn, leaked, closed, cancelled, timers, closing, sent, faults>>

\* Only the TCP connection counts.
writeWithBackpressure ==
    /\ writer = "loop"
    /\ IF cancelled THEN Return("error")
       ELSE /\ Unlocked
            /\ writer' = IF conn THEN "ready" ELSE "connect"
            /\ UNCHANGED results
    /\ UNCHANGED <<cfg, conn, wsConn, leaked, closed, cancelled, batch, timers, locked, closing,
                   sent, faults>>

\* Mutant: connect does not look whether the output is closed.
MayDialAnyway == TRUE

MayDial == ~closed

\* A dial that fails clears the field, too; what was there is not closed.
connect(ok) ==
    /\ writer = "connect"
    /\ Unlocked
    /\ IF ~MayDial
       THEN ok /\ writer' = "sleep" /\ UNCHANGED <<conn, wsConn, leaked, faults>>
       ELSE /\ Fault(ok)
            /\ writer' = IF ok THEN "ready" ELSE "sleep"
            /\ IF cfg.websocket
               THEN /\ wsConn' = ok
                    /\ leaked' = IF wsConn THEN leaked + 1 ELSE leaked
                    /\ UNCHANGED conn
               ELSE conn' = ok /\ UNCHANGED <<wsConn, leaked>>
    /\ UNCHANGED <<cfg, closed, cancelled, batch, timers, locked, closing, sent, results>>

\* The five seconds are over.
SleepEnds ==
    /\ writer = "sleep"
    /\ writer' = "loop"
    /\ UNCHANGED <<cfg, conn, wsConn, leaked, closed, cancelled, batch, timers, locked, closing,
                   sent, results, faults>>

sendEvent(ok) ==
    /\ writer = "ready"
    /\ ~cfg.batch
    /\ Unlocked
    /\ IF Connected
       THEN /\ Put(<<Event>>, ok)
            /\ Return(Outcome(ok))
            /\ conn' = (conn /\ ok)
       ELSE /\ ok
            /\ Return("error")
            /\ UNCHANGED <<conn, wsConn, sent, faults>>
    /\ UNCHANGED <<cfg, leaked, closed, cancelled, batch, timers, locked, closing>>

addToBatch(ok) ==
    LET events == Append(batch, Event) IN
    /\ writer = "ready"
    /\ cfg.batch
    /\ Unlocked
    /\ IF ~Full(events)
       THEN /\ ok
            /\ batch' = events
            /\ timers' = timers + 1
            /\ Return("nil")
            /\ UNCHANGED <<sent, wsConn, locked, faults>>
       ELSE /\ FlushBatch("writer", events, ok)
            /\ IF locked' = None
               THEN Return(Outcome(ok /\ Connected))
               ELSE UNCHANGED <<writer, results>>
            /\ UNCHANGED timers
    /\ UNCHANGED <<cfg, conn, leaked, closed, cancelled, closing>>

flushBatchTimer(ok) ==
    /\ timers > 0
    /\ Unlocked
    /\ timers' = timers - 1
    /\ FlushBatch("timer", batch, ok)
    /\ UNCHANGED <<cfg, conn, leaked, closed, cancelled, writer, closing, results>>

-----------------------------------------------------------------------------
(* Close *)

CloseBegins ==
    /\ closing = "called"
    /\ Unlocked
    /\ closed' = TRUE
    /\ closing' = "flagged"
    /\ UNCHANGED <<cfg, conn, wsConn, leaked, cancelled, batch, timers, locked, writer, sent,
                   results, faults>>

CloseCancels ==
    /\ closing = "flagged"
    /\ cancelled' = TRUE
    /\ closing' = "cancelled"
    /\ UNCHANGED <<cfg, conn, wsConn, leaked, closed, batch, timers, locked, writer, sent,
                   results, faults>>

\* What is in the batch is sent if there is a connection. If this fails on TCP, Close stays. If
\* it fails on a websocket, the flush clears the field, which Close uses next: a nil pointer.
CloseEnds(ok) ==
    /\ closing = "cancelled"
    /\ Unlocked
    /\ IF Connected /\ batch # <<>>
       THEN /\ Fault(ok)
            /\ sent' = IF ok THEN sent \o batch ELSE sent
            /\ batch' = <<>>
            /\ locked' = IF LocksAgain(ok) THEN "closer" ELSE None
       ELSE ok /\ UNCHANGED <<sent, batch, locked, faults>>
    /\ IF locked' = None
       THEN closing' = (IF ok THEN "done" ELSE "panicked") /\ conn' = FALSE /\ wsConn' = FALSE
       ELSE UNCHANGED <<closing, conn, wsConn>>
    /\ UNCHANGED <<cfg, leaked, closed, cancelled, timers, writer, results>>

WriterSteps ==
    \/ Write \/ writeNonBlocking \/ writeWithBackpressure \/ SleepEnds
    \/ \E ok \in BOOLEAN : connect(ok) \/ sendEvent(ok) \/ addToBatch(ok)


CloseSteps == CloseBegins \/ CloseCancels \/ \E ok \in BOOLEAN : CloseEnds(ok)

OutputNext == WriterSteps \/ CloseSteps \/ \E ok \in BOOLEAN : flushBatchTimer(ok)

=============================================================================
