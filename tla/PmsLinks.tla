----------------------------- MODULE PmsLinks ------------------------------
(***************************************************************************)
(* The four implementations of a link to a property system, each with the  *)
(* property system at one end and its owner at the other. `kind` is chosen *)
(* at the start. What matters is how a link ends: whether Close returns,   *)
(* what it interrupts, and what becomes of a message that was answered.    *)
(***************************************************************************)
EXTENDS FiasAdapter, MitelAdapter, PmsListener

\* A panic in a goroutine ends the process.
Next ==
    /\ ~panicked
    /\ \/ FiasNext \/ MitelNext \/ ListenerNext
       \/ Take \/ Stop
       \/ \E c \in Conns : PmsConnects(c) \/ PmsSends(c) \/ PmsHangsUp(c)

Spec == Init /\ [][Next]_vars

Alive(A) == ~panicked /\ A

ReaderSteps(c) ==
    \/ Register(c) \/ Unregister(c) \/ ReadLoop(c) \/ ReadLine(c) \/ ReadFails(c)
    \/ ReadTimesOut(c) \/ StoreLinkRecord(c) \/ EmitEvent(c) \/ LinkEnds(c)
    \/ MitelReadLoop(c) \/ ReadMessage(c) \/ ReadCutMessage(c) \/ MitelReadFails(c)
    \/ MitelReadTimesOut(c) \/ Respond(c) \/ MitelEmit(c)
    \/ ListenerLoop(c) \/ FiasListenerReads(c) \/ FiasListenerTimesOut(c)
    \/ MitelListenerReads(c) \/ ListenerReadEnds(c) \/ ListenerEmit(c)

AcceptorSteps ==
    \/ AcceptLoopTop \/ SetDeadline \/ CallsAccept \/ AcceptFails
    \/ Listen \/ ListenLoopTop \/ ListenerAcceptFails
    \/ \E c \in Conns : Accept(c) \/ ListenerAccepts(c) \/ HandleConnection(c)

OwnerSteps ==
    \/ OwnerCloses \/ CloseEnds
    \/ MitelCloseBegins \/ MitelCloseEnds
    \/ ListenerCloseBegins \/ ListenerCloseEnds

\* Goroutines are scheduled and deadlines pass. The property system need do nothing.
FairSpec ==
    /\ Spec
    /\ \A c \in Conns : WF_vars(Alive(ReaderSteps(c)))
    /\ WF_vars(Alive(AcceptorSteps))
    /\ WF_vars(Alive(OwnerSteps))

-----------------------------------------------------------------------------

TypeOK ==
    /\ kind \in Kinds
    /\ socket \in [Conns -> {"none", "allowed", "stranger", "open", "eof", "reset", "closed"}]
    /\ wire \in [Conns -> FiasRecords \cup MitelRecords \cup {None}]
    /\ sent \in 0..MaxRecords
    /\ reader \in [Conns -> {"none", "register", "check", "read", "send", "link", "respond",
                             "end", "waiting", "leave", "done"}]
    /\ acceptor \in {"none", "check", "deadline", "call", "accept", "done"} \cup Conns
    /\ mu \in {None, "owner"} \cup Conns
    /\ owner \in {"new", "up", "closing", "waiting", "closed"}
    /\ {listening, cancelled, connected, pending, chanClosed, overflowed, panicked} \subseteq BOOLEAN
    /\ chan \in 0..Capacity
    /\ owed \in 0..MaxRecords

\* The channel is closed once and nobody sends on it afterwards, and no loop uses a
\* socket that Close took away: the FIAS dialler and both listeners never panic. (The
\* Mitel adapter closes the channel before its loop has ended, and the accept loop of
\* the FIAS adapter reads the field Close clears.)
NoPanic == panicked => kind \in {"mitel", "fias_listen"}

\* A message a listener acknowledged is with the owner, in the channel or on its way
\* into it, unless the channel was full or the site connector was shutting down: the
\* acknowledgement is sent first (mitel_server.go:267-289), so only these two lose it.
AckedIsKept ==
    (kind = "mitel_listener" /\ ~overflowed /\ ~cancelled) =>
        owed = chan + Cardinality({c \in Conns : reader[c] = "send"})

\* The connected flag of an adapter whose loop is over is wrong in one case only, after
\* the property system closed the connection in good order: an error keeps the loop alive.
StaleOnlyAfterHangUp ==
    (kind \in Adapters /\ connected /\ reader[Client] = "done") =>
        socket[Client] = "eof" \/ cancelled

\* A loop that is blocked on the mutex somebody holds while waiting for that loop.
Deadlocked ==
    /\ mu # None
    /\ \/ \E c \in Conns : reader[c] \in {"register", "link", "respond", "end", "waiting", "leave"}
       \/ kind = "fias_listen" /\ acceptor = "accept"

\* A Close that has begun returns, unless it waits for a loop that needs its mutex (or a
\* panic ends the process): every other loop sees the context after its read deadline at
\* the latest, and no loop of a listener ever needs the mutex.
CloseReturns ==
    owner \in {"closing", "waiting"} ~>
        (owner = "closed" \/ panicked \/ (Deadlocked /\ kind \notin Listeners))

\* "Close terminates the connection or stops the server" (fias.go:406) and "Close
\* terminates the connection" (mitel.go:133): a Close that is called returns.
CloseTerminates == owner = "closing" ~> owner = "closed"
=============================================================================
