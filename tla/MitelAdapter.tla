---------------------------- MODULE MitelAdapter ----------------------------
(***************************************************************************)
(* internal/pms/mitel/mitel.go: the Mitel SX-200 adapter of a tenant.      *)
(***************************************************************************)
EXTENDS PmsLink

\* parseMessage: whether a message is an event, and whether a room waits for its name
\* afterwards. Names come in a payload of their own after a NAM message.
ParseMessage(record, waits) ==
    [event |-> record \in {"event", "name"} \/ (record = "payload" /\ waits),
     waits |-> record = "name" \/ (waits /\ record # "payload")]

MitelConnect ==
    /\ kind = "mitel"
    /\ owner = "new"
    /\ owner' = "up"
    /\ \/ /\ socket' = [socket EXCEPT ![Client] = "open"]
          /\ connected' = TRUE
          /\ Goto(Client, "check")
       \/ UNCHANGED <<socket, connected, reader>>
    /\ UNCHANGED <<kind, wire, sent, acceptor, listening, mu, cancelled, pending, chanVars>>

MitelReadLoop(c) == kind = "mitel" /\ LoopTop(c, "done")

\* SendAck, for an enquiry, and SendNak, for what cannot be parsed, take the mutex.
ReadMessage(c) ==
    /\ kind = "mitel"
    /\ Readable(c)
    /\ wire[c] # "cut"
    /\ Consume(c)
    /\ IF wire[c] = "enquiry"
       THEN Goto(c, "respond") /\ UNCHANGED pending
       ELSE LET parsed == ParseMessage(wire[c], pending) IN
            /\ pending' = parsed.waits
            /\ Goto(c, IF parsed.event THEN "send" ELSE "respond")
    /\ UNCHANGED <<kind, socket, sent, acceptor, chanVars, ownerVars>>

\* A body without its end is handled as if it were complete: nothing, an error of
\* parseMessage, or an event.
ReadCutMessage(c) ==
    /\ kind = "mitel"
    /\ Readable(c)
    /\ wire[c] = "cut"
    /\ Consume(c)
    /\ \E pc \in {"check", "respond", "send"} : Goto(c, pc)
    /\ UNCHANGED <<kind, socket, sent, acceptor, pending, chanVars, ownerVars>>

\* Mutant: every error ends the loop.
MitelGivesUp(c) ==
    /\ kind = "mitel"
    /\ reader[c] = "read"
    /\ Ended(c)
    /\ Goto(c, "done")
    /\ UNCHANGED <<kind, peerVars, acceptor, pending, chanVars, ownerVars>>

MitelReadFails(c) ==
    /\ kind = "mitel"
    /\ reader[c] = "read"
    /\ Ended(c)
    /\ Goto(c, IF socket[c] = "eof" \/ cancelled THEN "done" ELSE "check")
    /\ UNCHANGED <<kind, peerVars, acceptor, pending, chanVars, ownerVars>>

MitelReadTimesOut(c) ==
    /\ kind = "mitel"
    /\ reader[c] = "read"
    /\ Idle(c)
    /\ Goto(c, "check")
    /\ UNCHANGED <<kind, peerVars, acceptor, pending, chanVars, ownerVars>>

Respond(c) ==
    /\ kind = "mitel"
    /\ reader[c] = "respond"
    /\ mu = None
    /\ Goto(c, "check")
    /\ UNCHANGED <<kind, peerVars, acceptor, pending, chanVars, ownerVars>>

MitelEmit(c) == kind = "mitel" /\ Emit(c, "done")

\* Close closes the channel first and waits for the read loop after that.
MitelCloseBegins ==
    /\ kind = "mitel"
    /\ owner = "closing"
    /\ mu = None
    /\ mu' = "owner"
    /\ owner' = "waiting"
    /\ cancelled' = TRUE
    /\ connected' = FALSE
    /\ socket' = [c \in Conns |-> IF socket[c] = "none" THEN "none" ELSE "closed"]
    /\ CloseChannel
    /\ UNCHANGED <<kind, wire, sent, reader, acceptor, listening, pending, chan, overflowed, owed>>

MitelCloseEnds ==
    /\ kind = "mitel"
    /\ owner = "waiting"
    /\ ReadersFinished
    /\ mu' = None
    /\ owner' = "closed"
    /\ UNCHANGED <<kind, peerVars, reader, acceptor, listening, cancelled, connected, pending,
                   chanVars>>

MitelNext ==
    \/ MitelConnect \/ MitelCloseBegins \/ MitelCloseEnds
    \/ \E c \in Conns :
        \/ MitelReadLoop(c) \/ ReadMessage(c) \/ ReadCutMessage(c) \/ MitelReadFails(c)
        \/ MitelReadTimesOut(c) \/ Respond(c) \/ MitelEmit(c)
=============================================================================
