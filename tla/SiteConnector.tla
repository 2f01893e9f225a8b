--------------------------- MODULE SiteConnector ---------------------------
(***************************************************************************)
(* cmd/site-connector/main.go for one connector: the goroutine that takes  *)
(* events from the listener's channel and writes them to the output, and   *)
(* main, which at the end closes the output first and then the listener.   *)
(***************************************************************************)
EXTENDS ResilientOutput

VARIABLE main   \* how far main is

vars == <<outputVars, main>>

Init == OutputInit /\ main = "serve"

\* The consumer goes on until the process ends: the context it looks at is cancelled last.
Consume ==
    /\ writer = "idle"
    /\ Len(results) < MaxEvents
    /\ writer' = "called"
    /\ UNCHANGED <<cfg, conn, wsConn, leaked, closed, cancelled, batch, timers, locked, closing,
                   sent, results, faults, main>>

Signal ==
    /\ main = "serve"
    /\ main' = "outputs"
    /\ closing' = "called"
    /\ UNCHANGED <<cfg, conn, wsConn, leaked, closed, cancelled, batch, timers, locked, writer,
                   sent, results, faults>>

CloseListeners ==
    /\ main = "outputs"
    /\ closing = "done"
    /\ main' = "ended"
    /\ UNCHANGED outputVars

\* The process ends with main, or with a panic in its Close.
Running == main # "ended" /\ closing # "panicked"

Next ==
    /\ Running
    /\ \/ Consume \/ Signal \/ CloseListeners
       \/ OutputNext /\ UNCHANGED main

Spec == Init /\ [][Next]_vars

\* Goroutines run, sleeps and time-outs end. No event has to come.
Fairness ==
    /\ WF_vars(CloseListeners)
    /\ WF_vars(Running /\ CloseSteps /\ UNCHANGED main)
    /\ WF_vars(Running /\ WriterSteps /\ UNCHANGED main)

FairSpec == Spec /\ Fairness

-----------------------------------------------------------------------------
(* Properties *)

Taken == Len(results) + (IF writer = "idle" THEN 0 ELSE 1)

\* Every variable has its type.
TypeOK ==
    /\ cfg \in Config
    /\ {conn, wsConn, closed, cancelled} \subseteq BOOLEAN
    /\ leaked \in 0..MaxEvents + MaxFaults
    /\ Len(batch) <= BatchSize /\ Range(batch) \subseteq 1..Taken
    /\ timers \in 0..MaxEvents
    /\ locked \in {None, "writer", "timer", "closer"}
    /\ writer \in {"idle", "called", "direct", "loop", "connect", "ready", "sleep"}
    /\ closing \in {"no", "called", "flagged", "cancelled", "done", "panicked"}
    /\ Range(sent) \subseteq 1..Taken
    /\ Range(results) \subseteq {"nil", "error"}
    /\ faults \in 0..MaxFaults
    /\ main \in {"serve", "outputs", "ended"}

\* Events leave in the order in which they came, each at most once, through batches, timers,
\* new connections and Close.
InOrder == \A i, j \in DOMAIN sent : i < j => sent[i] < sent[j]

\* An event for which Write returned no error has left or waits in the batch, unless it was in
\* a batch: then a flush that failed, a full batch that locked up, or Close took it.
NilIsKept ==
    \A i \in DOMAIN results :
        results[i] = "nil" /\ i \notin Range(sent) \cup Range(batch) =>
            cfg.batch /\ (faults > 0 \/ closed)

\* When Close has returned, nothing more leaves, and no connection is open but the websockets
\* that a reconnect replaced.
ClosedIsQuiet ==
    [][closing = "done" => /\ sent' = sent
                           /\ ~conn' /\ ~wsConn'
                           /\ leaked' = leaked
                           /\ leaked > 0 => cfg.websocket /\ cfg.backpressure]_vars

\* A goroutine locks itself out only in a flush: of a full batch without backpressure, or
\* after an error of a TCP connection.
LockedOutByFlush ==
    Unlocked \/ (cfg.batch /\ (cfg.backpressure => ~cfg.websocket /\ faults > 0))

\* A panic of Close takes a batch that a websocket did not take.
DiedInClose == closing = "panicked" /\ cfg.websocket /\ cfg.batch /\ faults > 0


=============================================================================
