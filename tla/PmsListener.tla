---------------------------- MODULE PmsListener ----------------------------
(***************************************************************************)
(* internal/pms/listener: the TCP servers of the site connector, for FIAS  *)
(* (fias_server.go) and Mitel (mitel_server.go). They differ in what a     *)
(* reader does with a record and with a read that times out.               *)
(***************************************************************************)
EXTENDS PmsLink

\* The goroutine of the site connector calls Listen, main may already have called Close.
Listen ==
    /\ kind \in Listeners
    /\ acceptor = "none"
    /\ mu = None
    /\ \/ /\ owner \in {"new", "closing"}
          /\ listening' = TRUE
          /\ acceptor' = "check"
       \/ /\ acceptor' = "done"        \* the port is taken, or the listener is closed
          /\ UNCHANGED listening
    /\ UNCHANGED <<kind, peerVars, reader, mu, owner, cancelled, connected, pending, chanVars>>

ListenLoopTop ==
    /\ kind \in Listeners
    /\ acceptor = "check"
    /\ acceptor' = IF cancelled THEN "done" ELSE "accept"
    /\ UNCHANGED <<kind, peerVars, reader, pending, chanVars, ownerVars>>

\* The connection is accepted; the goroutine that handles it is started afterwards.
ListenerAccepts(c) ==
    /\ kind \in Listeners
    /\ acceptor = "accept"
    /\ listening
    /\ socket[c] \in {"allowed", "stranger"}
    /\ acceptor' = c
    /\ UNCHANGED <<kind, peerVars, reader, pending, chanVars, ownerVars>>

HandleConnection(c) ==
    /\ kind \in Listeners
    /\ acceptor = c
    /\ acceptor' = "check"
    /\ IF socket[c] = "allowed"
       THEN socket' = [socket EXCEPT ![c] = "open"] /\ Goto(c, "check")
       ELSE socket' = [socket EXCEPT ![c] = "closed"] /\ Goto(c, "done")
    /\ UNCHANGED <<kind, wire, sent, pending, chanVars, ownerVars>>

ListenerAcceptFails ==
    /\ kind \in Listeners
    /\ acceptor = "accept"
    /\ acceptor' = IF listening THEN "check" ELSE "done"
    /\ UNCHANGED <<kind, peerVars, reader, pending, chanVars, ownerVars>>

-----------------------------------------------------------------------------
(* handleConnection. *)

\* Mutant: the loop does not look at the context.
ListenerLoopBlind(c) ==
    /\ kind \in Listeners
    /\ reader[c] = "check"
    /\ Goto(c, "read")
    /\ UNCHANGED <<kind, peerVars, acceptor, pending, chanVars, ownerVars>>

ListenerLoop(c) == kind \in Listeners /\ LoopTop(c, "done")

FiasListenerReads(c) ==
    /\ kind = "fias_listener"
    /\ Readable(c)
    /\ wire[c] # "cut"
    /\ Consume(c)
    /\ Goto(c, IF wire[c] = "event" THEN "send" ELSE "check")
    /\ UNCHANGED <<kind, socket, sent, acceptor, pending, chanVars, ownerVars>>

\* Without the rooms that wait for a name every payload is refused.
ListenerParses(record) == record \in {"event", "name"}

\* Mutant: every message is acknowledged before it is parsed.
MitelListenerAcksAll(c) ==
    /\ kind = "mitel_listener"
    /\ Readable(c)
    /\ wire[c] # "cut"
    /\ Consume(c)
    /\ owed' = owed + 1
    /\ Goto(c, IF ListenerParses(wire[c]) THEN "send" ELSE "check")
    /\ UNCHANGED <<kind, socket, sent, acceptor, pending, chan, chanClosed, overflowed,
                   panicked, ownerVars>>

\* A message that parses is acknowledged first. A response that cannot be written ends
\* the loop after a message, and does not after what is not a message.
MitelListenerReads(c) ==
    /\ kind = "mitel_listener"
    /\ Readable(c)
    /\ wire[c] # "cut"
    /\ Consume(c)
    /\ \/ /\ ListenerParses(wire[c])
          /\ owed' = owed + 1
          /\ Goto(c, "send")
       \/ /\ ListenerParses(wire[c]) \/ wire[c] = "enquiry"
          /\ socket[c] # "open"
          /\ Goto(c, "done")
          /\ UNCHANGED owed
       \/ /\ ~ListenerParses(wire[c])
          /\ Goto(c, "check")
          /\ UNCHANGED owed
    /\ UNCHANGED <<kind, socket, sent, acceptor, pending, chan, chanClosed, overflowed,
                   panicked, ownerVars>>

\* The FIAS listener writes a keepalive when a read times out and goes on.
FiasListenerTimesOut(c) ==
    /\ kind = "fias_listener"
    /\ reader[c] = "read"
    /\ Stalled(c)
    /\ Consume(c)
    /\ Goto(c, "check")
    /\ UNCHANGED <<kind, socket, sent, acceptor, pending, chanVars, ownerVars>>

\* The Mitel listener ends an idle connection, and one whose message goes on for too long or
\* for too many bytes. Both end one that fails or is closed within a record.
ListenerReadEnds(c) ==
    /\ kind \in Listeners
    /\ reader[c] = "read"
    /\ \/ Ended(c)
       \/ socket[c] = "eof" /\ wire[c] = "cut"
       \/ kind = "mitel_listener" /\ Stalled(c)
    /\ socket' = [socket EXCEPT ![c] = "closed"]
    /\ Goto(c, "done")
    /\ UNCHANGED <<kind, wire, sent, acceptor, pending, chanVars, ownerVars>>

ListenerEmit(c) == kind \in Listeners /\ Emit(c, "done")

-----------------------------------------------------------------------------

\* Close: the connections stay open, it waits until their loops see the context.
ListenerCloseBegins ==
    /\ kind \in Listeners
    /\ owner = "closing"
    /\ mu = None
    /\ mu' = "owner"
    /\ owner' = "waiting"
    /\ cancelled' = (acceptor # "none")
    /\ listening' = FALSE
    /\ UNCHANGED <<kind, peerVars, reader, acceptor, connected, pending, chanVars>>

ListenerCloseEnds ==
    /\ kind \in Listeners
    /\ owner = "waiting"
    /\ ReadersFinished
    /\ CloseChannel
    /\ mu' = None
    /\ owner' = "closed"
    /\ UNCHANGED <<kind, peerVars, reader, acceptor, listening, cancelled, connected, pending,
                   chan, overflowed, owed>>

ListenerNext ==
    \/ Listen \/ ListenLoopTop \/ ListenerAcceptFails
    \/ ListenerCloseBegins \/ ListenerCloseEnds
    \/ \E c \in Conns :
        \/ ListenerAccepts(c) \/ HandleConnection(c) \/ ListenerLoop(c)
        \/ FiasListenerReads(c) \/ FiasListenerTimesOut(c) \/ MitelListenerReads(c)
        \/ ListenerReadEnds(c) \/ ListenerEmit(c)
=============================================================================
