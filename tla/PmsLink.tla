------------------------------ MODULE PmsLink ------------------------------
(***************************************************************************)
(* What the property-system links have in common: a TCP connection with a  *)
(* read loop, a mutex, a context, a wait group, and the bounded channel    *)
(* the owner of the link reads (a tenant for the adapters under            *)
(* internal/pms/fias and internal/pms/mitel, the site connector for the    *)
(* listeners of internal/pms/listener). FiasAdapter, MitelAdapter and      *)
(* PmsListener add the steps of each link, PmsLinks puts them together.    *)
(***************************************************************************)
EXTENDS Naturals, FiniteSets

CONSTANTS
    Conns,          \* connections the property system may open
    Client,         \* the connection an adapter dials
    Capacity,       \* slots of the event channel
    MaxRecords,     \* bound: records the property system sends
    None            \* no record, no holder of the mutex

\* Records by what a reader does with them. The end of a "cut" one does not arrive in time, or
\* not within the size that a message may have.
FiasRecords == {"event", "noise", "link", "alive", "end", "cut"}
MitelRecords == {"event", "noise", "enquiry", "name", "payload", "cut"}

ASSUME LinkAssumption ==
    /\ Client \in Conns
    /\ Capacity \in Nat \ {0}
    /\ MaxRecords \in Nat
    /\ None \notin Conns \cup {"owner"} \cup FiasRecords \cup MitelRecords
    /\ Conns \cap {"none", "check", "deadline", "call", "accept", "done"} = {}

Adapters == {"fias", "mitel"}
Listeners == {"fias_listener", "mitel_listener"}
Kinds == Adapters \cup Listeners \cup {"fias_listen"}

VARIABLES
    kind,           \* which link this is
    socket,         \* of each connection
    wire,           \* the next record on each connection, or None
    sent,           \* records sent so far
    reader,         \* where the read loop of each connection is
    acceptor,       \* where the accept loop is
    listening,      \* the server socket is open
    mu,             \* who holds the mutex across a wait
    owner,          \* how far the owner is with this link
    cancelled,      \* the context of the loops is done
    connected,      \* the flag of an adapter
    pending,        \* a Mitel room waits for its guest name
    chan,           \* events in the channel
    chanClosed,
    overflowed,     \* an event was dropped because the channel was full
    owed,           \* messages a listener acknowledged and its owner did not get
    panicked        \* the process died

vars == <<kind, socket, wire, sent, reader, acceptor, listening, mu, owner, cancelled,
          connected, pending, chan, chanClosed, overflowed, owed, panicked>>

peerVars == <<socket, wire, sent>>
chanVars == <<chan, chanClosed, overflowed, owed, panicked>>
ownerVars == <<listening, mu, owner, cancelled, connected>>

Init ==
    /\ kind \in Kinds
    /\ socket = [c \in Conns |-> "none"]
    /\ wire = [c \in Conns |-> None]
    /\ sent = 0
    /\ reader = [c \in Conns |-> "none"]
    /\ acceptor = "none"
    /\ listening = FALSE
    /\ mu = None
    /\ owner = "new"
    /\ cancelled = FALSE
    /\ connected = FALSE
    /\ pending = FALSE
    /\ chan = 0
    /\ chanClosed = FALSE
    /\ overflowed = FALSE
    /\ owed = 0
    /\ panicked = FALSE

-----------------------------------------------------------------------------
(* The property system at the other end, and the network. *)

Speaks == IF kind \in {"mitel", "mitel_listener"} THEN MitelRecords ELSE FiasRecords

\* It dials a link that listens, from an address on the allowlist or not.
PmsConnects(c) ==
    /\ kind \notin Adapters
    /\ listening
    /\ socket[c] = "none"
    /\ \E from \in {"allowed", "stranger"} : socket' = [socket EXCEPT ![c] = from]
    /\ UNCHANGED <<kind, wire, sent, reader, acceptor, pending, chanVars, ownerVars>>

PmsSends(c) ==
    /\ socket[c] = "open"
    /\ wire[c] = None
    /\ sent < MaxRecords
    /\ \E r \in Speaks : wire' = [wire EXCEPT ![c] = r]
    /\ sent' = sent + 1
    /\ UNCHANGED <<kind, socket, reader, acceptor, pending, chanVars, ownerVars>>

\* The far end closes, with or without a reset, also in the middle of a record.
PmsHangsUp(c) ==
    /\ socket[c] = "open"
    /\ \E how \in {"eof", "reset"} : socket' = [socket EXCEPT ![c] = how]
    /\ UNCHANGED <<kind, wire, sent, reader, acceptor, pending, chanVars, ownerVars>>

-----------------------------------------------------------------------------
(* Steps the read loops share. *)

Goto(c, pc) == reader' = [reader EXCEPT ![c] = pc]

\* The top of the loop looks at the context; a loop that is over goes to `out`.
LoopTop(c, out) ==
    /\ reader[c] = "check"
    /\ Goto(c, IF cancelled THEN out ELSE "read")
    /\ UNCHANGED <<kind, peerVars, acceptor, pending, chanVars, ownerVars>>

\* Buffered bytes can be read after the connection has ended.
Readable(c) ==
    /\ reader[c] = "read"
    /\ wire[c] # None
    /\ socket[c] # "reset"

Consume(c) == wire' = [wire EXCEPT ![c] = None]

Ended(c) == socket[c] \in {"reset", "closed"} \/ (socket[c] = "eof" /\ wire[c] = None)

Idle(c) == socket[c] = "open" /\ wire[c] = None
Stalled(c) == socket[c] = "open" /\ wire[c] \in {None, "cut"}

\* Mutant: the channel takes any number of events.
EmitUnbounded(c, out) ==
    /\ reader[c] = "send"
    /\ chan' = chan + 1
    /\ Goto(c, "check")
    /\ UNCHANGED <<kind, peerVars, acceptor, pending, chanClosed, overflowed, owed, panicked,
                   ownerVars>>

\* select: send, or stop when the context is done, or drop when the channel is full.
\* A send on a closed channel is ready, and panics.
Emit(c, out) ==
    /\ reader[c] = "send"
    /\ \/ /\ ~chanClosed
          /\ chan < Capacity
          /\ chan' = chan + 1
          /\ Goto(c, "check")
          /\ UNCHANGED <<overflowed, panicked>>
       \/ /\ chanClosed
          /\ panicked' = TRUE
          /\ UNCHANGED <<chan, reader, overflowed>>
       \/ /\ cancelled
          /\ Goto(c, out)
          /\ UNCHANGED <<chan, overflowed, panicked>>
       \/ /\ ~chanClosed
          /\ chan = Capacity
          /\ ~cancelled
          /\ overflowed' = TRUE
          /\ Goto(c, "check")
          /\ UNCHANGED <<chan, panicked>>
    /\ UNCHANGED <<kind, peerVars, acceptor, pending, chanClosed, owed, ownerVars>>

\* close(events): closing a closed channel panics.
CloseChannel ==
    IF chanClosed THEN panicked' = TRUE /\ UNCHANGED chanClosed
                  ELSE chanClosed' = TRUE /\ UNCHANGED panicked

Finished(loops) == loops \subseteq {"none", "done"}
ReadersFinished == Finished({reader[c] : c \in Conns})

-----------------------------------------------------------------------------
(* The owner: tenant.processEvents or the goroutine of the site connector. *)

\* It takes an event. What it does with it is in TenantEvents and in SiteConnector.
Take ==
    /\ chan > 0
    /\ chan' = chan - 1
    /\ owed' = IF kind = "mitel_listener" THEN owed - 1 ELSE owed
    /\ UNCHANGED <<kind, peerVars, reader, acceptor, pending, chanClosed, overflowed, panicked,
                   ownerVars>>

\* It decides to stop. A tenant cancels its context first, which may be the one of the loops.
Stop ==
    /\ owner = "up" \/ (kind \in Listeners /\ owner = "new")
    /\ owner' = "closing"
    /\ cancelled' \in IF kind \in Listeners THEN {cancelled} ELSE {cancelled, TRUE}
    /\ UNCHANGED <<kind, peerVars, reader, acceptor, listening, mu, connected, pending, chanVars>>
=============================================================================
