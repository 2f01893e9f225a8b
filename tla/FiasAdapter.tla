---------------------------- MODULE FiasAdapter ----------------------------
(***************************************************************************)
(* internal/pms/fias/fias.go: the FIAS adapter of a tenant, which dials    *)
(* the property system ("fias") or waits for it to dial ("fias_listen").   *)
(***************************************************************************)
EXTENDS PmsLink

Modes == {"fias", "fias_listen"}

\* connect: dial, then start the read loop. A failure leaves the context to cancel.
Dial ==
    /\ kind = "fias"
    /\ \/ /\ socket' = [socket EXCEPT ![Client] = "open"]
          /\ connected' = TRUE
          /\ Goto(Client, "check")
       \/ UNCHANGED <<socket, connected, reader>>
    /\ UNCHANGED <<acceptor, listening>>

\* listen: bind, which may fail, then start the accept loop. Nothing sets the connected flag.
Bind ==
    /\ kind = "fias_listen"
    /\ \/ listening' = TRUE /\ acceptor' = "check"
       \/ UNCHANGED <<listening, acceptor>>
    /\ UNCHANGED <<socket, connected, reader>>

Connect ==
    /\ kind \in Modes
    /\ owner = "new"
    /\ owner' = "up"
    /\ Dial \/ Bind
    /\ UNCHANGED <<kind, wire, sent, mu, cancelled, pending, chanVars>>

-----------------------------------------------------------------------------
(* The accept loop. *)

AcceptLoopTop ==
    /\ kind = "fias_listen"
    /\ acceptor = "check"
    /\ acceptor' = IF cancelled THEN "done" ELSE "deadline"
    /\ UNCHANGED <<kind, peerVars, reader, pending, chanVars, ownerVars>>

\* SetDeadline and Accept are each called on the field, which Close sets to nil.
CallsListener(at, next) ==
    /\ kind = "fias_listen"
    /\ acceptor = at
    /\ IF listening THEN acceptor' = next /\ UNCHANGED panicked
                    ELSE panicked' = TRUE /\ UNCHANGED acceptor
    /\ UNCHANGED <<kind, peerVars, reader, pending, chan, chanClosed, overflowed, owed,
                   ownerVars>>

SetDeadline == CallsListener("deadline", "call")

CallsAccept == CallsListener("call", "accept")

Accept(c) ==
    /\ kind = "fias_listen"
    /\ acceptor = "accept"
    /\ listening
    /\ acceptor' = "check"
    /\ \/ /\ socket[c] = "allowed"
          /\ socket' = [socket EXCEPT ![c] = "open"]
          /\ Goto(c, "register")
       \/ /\ socket[c] = "stranger"
          /\ socket' = [socket EXCEPT ![c] = "closed"]
          /\ UNCHANGED reader
    /\ UNCHANGED <<kind, wire, sent, pending, chanVars, ownerVars>>

\* A deadline of one second or a closed socket: isClosed waits for the mutex.
AcceptFails ==
    /\ kind = "fias_listen"
    /\ acceptor = "accept"
    /\ mu = None
    /\ acceptor' = IF listening THEN "check" ELSE "done"
    /\ UNCHANGED <<kind, peerVars, reader, pending, chanVars, ownerVars>>

-----------------------------------------------------------------------------
(* The loops of a connection: readLoop and handleConnection. *)

\* handleConnection files its connection under the mutex, and takes it out at its end.
Register(c) ==
    /\ kind = "fias_listen"
    /\ reader[c] = "register"
    /\ mu = None
    /\ Goto(c, "check")
    /\ UNCHANGED <<kind, peerVars, acceptor, pending, chanVars, ownerVars>>

Unregister(c) ==
    /\ kind = "fias_listen"
    /\ reader[c] = "leave"
    /\ mu = None
    /\ socket' = [socket EXCEPT ![c] = "closed"]
    /\ Goto(c, "done")
    /\ UNCHANGED <<kind, wire, sent, acceptor, pending, chanVars, ownerVars>>

Leave == IF kind = "fias" THEN "done" ELSE "leave"

ReadLoop(c) == kind \in Modes /\ LoopTop(c, Leave)

EmitEvent(c) == kind \in Modes /\ Emit(c, Leave)

\* parseRecord tells events from link records, which are no events, and from noise.
ParseRecord(record) ==
    CASE record = "event" -> "event"
      [] record \in {"link", "alive", "end"} -> "link record"
      [] OTHER -> "error"

\* What readLoop does next: it keeps a link record, answers a keepalive, and closes the
\* adapter when the link ends.
HandleLinkRecord(record) == IF record \in {"link", "end"} THEN record ELSE "check"

\* handleConnection keeps link records to itself, and goes on after a link end.
HandleLinkRecordForConn(record) == "check"

ReadLine(c) ==
    /\ kind \in Modes
    /\ Readable(c)
    /\ wire[c] # "cut"
    /\ Consume(c)
    /\ Goto(c, CASE ParseRecord(wire[c]) = "event" -> "send"
                 [] ParseRecord(wire[c]) = "error" -> "check"
                 [] kind = "fias" -> HandleLinkRecord(wire[c])
                 [] OTHER -> HandleLinkRecordForConn(wire[c]))
    /\ UNCHANGED <<kind, socket, sent, acceptor, pending, chanVars, ownerVars>>

\* End of file, also within a line, ends the loop. So does an error, but readLoop
\* tries again until the context is done.
ReadFails(c) ==
    /\ kind \in Modes
    /\ reader[c] = "read"
    /\ Ended(c) \/ (socket[c] = "eof" /\ wire[c] = "cut")
    /\ Goto(c, IF socket[c] = "eof" \/ cancelled \/ kind = "fias_listen" THEN Leave ELSE "check")
    /\ UNCHANGED <<kind, peerVars, acceptor, pending, chanVars, ownerVars>>

\* The deadline passes: what was read of a line is lost, a keepalive is written and the
\* loop goes on.
ReadTimesOut(c) ==
    /\ kind \in Modes
    /\ reader[c] = "read"
    /\ Stalled(c)
    /\ Consume(c)
    /\ Goto(c, "check")
    /\ UNCHANGED <<kind, socket, sent, acceptor, pending, chanVars, ownerVars>>

\* handleLinkRecord of readLoop keeps the list of a link record under the mutex.
StoreLinkRecord(c) ==
    /\ kind = "fias"
    /\ reader[c] = "link"
    /\ mu = None
    /\ Goto(c, "check")
    /\ UNCHANGED <<kind, peerVars, acceptor, pending, chanVars, ownerVars>>

-----------------------------------------------------------------------------
(* Close, called by the owner, or by readLoop on a link end. *)

CloseBegins(who) ==
    /\ mu = None
    /\ mu' = who
    /\ cancelled' = TRUE
    /\ connected' = FALSE
    /\ listening' = FALSE
    /\ socket' = [c \in Conns |->
                    IF socket[c] = "none" \/ reader[c] \in {"register", "done"}
                    THEN socket[c] ELSE "closed"]
    /\ UNCHANGED <<kind, wire, sent, acceptor, pending, chanVars>>

OwnerCloses ==
    /\ kind \in Modes
    /\ owner = "closing"
    /\ CloseBegins("owner")
    /\ owner' = "waiting"
    /\ UNCHANGED reader

LinkEnds(c) ==
    /\ kind = "fias"
    /\ reader[c] = "end"
    /\ CloseBegins(c)
    /\ Goto(c, "waiting")
    /\ UNCHANGED owner

\* Mutant: the channel is closed before the loops have ended.
CloseEndsEarly ==
    /\ kind \in Modes
    /\ owner = "waiting"
    /\ mu = "owner"
    /\ CloseChannel
    /\ mu' = None
    /\ owner' = "closed"
    /\ UNCHANGED <<kind, peerVars, reader, acceptor, listening, cancelled, connected, pending,
                   chan, overflowed, owed>>

\* wg.Wait, close(events), and the mutex is free again. A read loop that closes the
\* adapter waits for itself and never gets here.
CloseEnds ==
    /\ kind \in Modes
    /\ owner = "waiting"
    /\ mu = "owner"
    /\ ReadersFinished
    /\ Finished({acceptor})
    /\ CloseChannel
    /\ mu' = None
    /\ owner' = "closed"
    /\ UNCHANGED <<kind, peerVars, reader, acceptor, listening, cancelled, connected, pending,
                   chan, overflowed, owed>>

FiasNext ==
    \/ Connect \/ AcceptLoopTop \/ SetDeadline \/ CallsAccept \/ AcceptFails
    \/ OwnerCloses \/ CloseEnds
    \/ \E c \in Conns :
        \/ Accept(c) \/ Register(c) \/ Unregister(c)
        \/ ReadLoop(c) \/ ReadLine(c) \/ ReadFails(c) \/ ReadTimesOut(c)
        \/ StoreLinkRecord(c) \/ EmitEvent(c) \/ LinkEnds(c)
=============================================================================
