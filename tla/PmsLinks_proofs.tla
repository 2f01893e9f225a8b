-------------------------- MODULE PmsLinks_proofs --------------------------
(***************************************************************************)
(* Theorems about PmsLinks, for each of the five links, any number of      *)
(* connections and records, and any capacity of the event channel.         *)
(***************************************************************************)
EXTENDS PmsLinks, TLAPS, FiniteSetTheorems

USE LinkAssumption DEF LinkAssumption
USE DEF Adapters, Listeners, Kinds, Modes, peerVars, chanVars, ownerVars,
        Goto, Consume, Leave

\* The loops with an event in hand, and the connections with a record to read.
Sending == {c \in Conns : reader[c] = "send"}
Unread == {c \in Conns : wire[c] # None}

\* What a listener owes its owner is never less than what is on its way to him, and not
\* more as long as nothing was dropped. Every message that was acknowledged was sent.
Ledger ==
    /\ kind # "mitel_listener" => owed = 0
    /\ kind = "mitel_listener" =>
        /\ IsFiniteSet(Sending)
        /\ IsFiniteSet(Unread)
        /\ chan + Cardinality(Sending) <= owed
        /\ owed + Cardinality(Unread) <= sent
        /\ ~overflowed /\ ~cancelled => owed = chan + Cardinality(Sending)

\* How a link ends. The channel is closed last, when no loop is left. A listener that is
\* being closed accepts nobody new; if nothing cancelled its context nobody was there.
Quiet(c) == reader[c] \in {"none", "done"}

Shutdown ==
    /\ kind # "mitel" /\ chanClosed => owner = "closed"
    /\ kind = "fias" => acceptor = "none"
    /\ kind = "fias" /\ chanClosed => \A c \in Conns : Quiet(c)
    /\ kind \in Listeners =>
        /\ owner # "up"
        /\ cancelled => owner \in {"waiting", "closed"}
        /\ acceptor = "none" => \A c \in Conns : reader[c] = "none"
        /\ owner \in {"waiting", "closed"} =>
            /\ ~listening
            /\ cancelled \/ (acceptor \in {"none", "done"} /\ \A c \in Conns : Quiet(c))
        /\ chanClosed => \A c \in Conns : Quiet(c) \/ (cancelled /\ reader[c] = "check")

\* A listener starts one loop for each connection: one that was not handed over has none.
Waiting == {"none", "allowed", "stranger"}

OneLoop ==
    kind \in Listeners =>
        \A c \in Conns : /\ socket[c] \in Waiting => reader[c] = "none"
                         /\ acceptor = c => socket[c] \in Waiting

\* A loop that is over although its flag says connected saw the end of the stream.
HungUp ==
    (kind \in Adapters /\ reader[Client] = "done") => socket[Client] = "eof" \/ cancelled

LinkInv == TypeOK /\ Ledger /\ Shutdown /\ OneLoop /\ NoPanic /\ HungUp
----------------------------------------------------------------------------
(* Sets that gain or lose one element. *)

\* Putting an element in or taking one out moves the count by one.
LEMMA OneMore ==
    ASSUME NEW S, IsFiniteSet(S), NEW c, c \notin S
    PROVE  IsFiniteSet(S \cup {c}) /\ Cardinality(S \cup {c}) = Cardinality(S) + 1
BY FS_AddElement

\* The same in the other direction.
LEMMA OneLess ==
    ASSUME NEW S, IsFiniteSet(S), NEW c \in S
    PROVE  /\ IsFiniteSet(S \ {c})
           /\ Cardinality(S \ {c}) = Cardinality(S) - 1
           /\ Cardinality(S) \in Nat \ {0}
BY FS_RemoveElement, FS_CardinalityType, FS_EmptySet

\* What the ledger says about its bounds: an event in the channel of a Mitel listener is
\* owed, and a record that has not been read leaves room for one more acknowledgement.
LEMMA Room ==
    ASSUME TypeOK, Ledger, kind = "mitel_listener"
    PROVE  /\ chan > 0 => owed > 0
           /\ \A c \in Conns : wire[c] # None => owed < MaxRecords
<1>1. Cardinality(Sending) \in Nat
  BY FS_CardinalityType DEF Ledger
<1>2. chan > 0 => owed > 0
  BY <1>1 DEF TypeOK, Ledger
<1>3. ASSUME NEW c \in Conns, wire[c] # None PROVE owed < MaxRecords
  <2>1. c \in Unread
    BY <1>3 DEF Unread
  <2>2. Cardinality(Unread) \in Nat \ {0}
    BY <2>1, OneLess DEF Ledger
  <2>3. QED
    BY <2>2 DEF TypeOK, Ledger
<1>4. QED
  BY <1>2, <1>3

----------------------------------------------------------------------------
(* Types. *)

\* A select that hands over, gives up or drops an event keeps every variable in its range.
LEMMA EmitTypes ==
    ASSUME TypeOK, NEW c \in Conns, NEW out \in {"done", "leave"}, Emit(c, out)
    PROVE  TypeOK'
<1> USE DEF TypeOK
<1>1. chan' \in 0..Capacity
  BY DEF Emit
<1>2. reader' = reader \/ reader' = [reader EXCEPT ![c] = "check"] \/ reader' = [reader EXCEPT ![c] = out]
  BY DEF Emit
<1>3. reader' \in [Conns -> {"none", "register", "check", "read", "send", "link", "respond",
                             "end", "waiting", "leave", "done"}]
  BY <1>2
<1>4. overflowed' \in BOOLEAN /\ panicked' \in BOOLEAN
  BY DEF Emit
<1>5. UNCHANGED <<kind, socket, wire, sent, acceptor, mu, owner, listening, cancelled, connected,
                  pending, chanClosed, owed>>
  BY DEF Emit
<1>6. QED
  BY <1>1, <1>3, <1>4, <1>5

\* The steps of the FIAS adapter keep every variable in its range.
LEMMA FiasTypes == TypeOK /\ Ledger /\ FiasNext => TypeOK'
<1> SUFFICES ASSUME TypeOK, Ledger, FiasNext PROVE TypeOK'
  OBVIOUS
<1> USE DEF TypeOK, FiasRecords, MitelRecords
<1>1. CASE Connect
  BY <1>1 DEF Connect, Dial, Bind
<1>2. CASE AcceptLoopTop
  BY <1>2 DEF AcceptLoopTop
<1>3. CASE SetDeadline \/ CallsAccept
  BY <1>3 DEF SetDeadline, CallsAccept, CallsListener
<1>4. CASE AcceptFails
  BY <1>4 DEF AcceptFails
<1>5. CASE OwnerCloses
  BY <1>5 DEF OwnerCloses, CloseBegins
<1>6. CASE CloseEnds
  BY <1>6 DEF CloseEnds, CloseChannel
<1>7. ASSUME NEW c \in Conns, Accept(c) PROVE TypeOK'
  BY <1>7 DEF Accept
<1>8. ASSUME NEW c \in Conns, Register(c) PROVE TypeOK'
  BY <1>8 DEF Register
<1>9. ASSUME NEW c \in Conns, Unregister(c) PROVE TypeOK'
  BY <1>9 DEF Unregister
<1>10. ASSUME NEW c \in Conns, ReadLoop(c) PROVE TypeOK'
  BY <1>10 DEF ReadLoop, LoopTop
<1>11. ASSUME NEW c \in Conns, ReadLine(c) PROVE TypeOK'
  BY <1>11 DEF ReadLine, HandleLinkRecord, HandleLinkRecordForConn
<1>12. ASSUME NEW c \in Conns, ReadFails(c) PROVE TypeOK'
  BY <1>12 DEF ReadFails
<1>13. ASSUME NEW c \in Conns, ReadTimesOut(c) PROVE TypeOK'
  BY <1>13 DEF ReadTimesOut
<1>14. ASSUME NEW c \in Conns, StoreLinkRecord(c) PROVE TypeOK'
  BY <1>14 DEF StoreLinkRecord
<1>15. ASSUME NEW c \in Conns, EmitEvent(c) PROVE TypeOK'
  BY <1>15, EmitTypes DEF EmitEvent
<1>16. ASSUME NEW c \in Conns, LinkEnds(c) PROVE TypeOK'
  BY <1>16 DEF LinkEnds, CloseBegins
<1>17. QED
  BY <1>1, <1>2, <1>3, <1>4, <1>5, <1>6, <1>7, <1>8, <1>9, <1>10, <1>11, <1>12, <1>13, <1>14, <1>15, <1>16 DEF FiasNext

\* The steps of the Mitel adapter keep every variable in its range.
LEMMA MitelTypes == TypeOK /\ Ledger /\ MitelNext => TypeOK'
<1> SUFFICES ASSUME TypeOK, Ledger, MitelNext PROVE TypeOK'
  OBVIOUS
<1> USE DEF TypeOK, FiasRecords, MitelRecords
<1>1. CASE MitelConnect
  BY <1>1 DEF MitelConnect
<1>2. CASE MitelCloseBegins
  BY <1>2 DEF MitelCloseBegins, CloseChannel
<1>3. CASE MitelCloseEnds
  BY <1>3 DEF MitelCloseEnds
<1>4. ASSUME NEW c \in Conns, MitelReadLoop(c) PROVE TypeOK'
  BY <1>4 DEF MitelReadLoop, LoopTop
<1>5. ASSUME NEW c \in Conns, ReadMessage(c) PROVE TypeOK'
  BY <1>5 DEF ReadMessage, ParseMessage
<1>6. ASSUME NEW c \in Conns, ReadCutMessage(c) PROVE TypeOK'
  BY <1>6 DEF ReadCutMessage
<1>7. ASSUME NEW c \in Conns, MitelReadFails(c) PROVE TypeOK'
  BY <1>7 DEF MitelReadFails
<1>8. ASSUME NEW c \in Conns, MitelReadTimesOut(c) PROVE TypeOK'
  BY <1>8 DEF MitelReadTimesOut
<1>9. ASSUME NEW c \in Conns, Respond(c) PROVE TypeOK'
  BY <1>9 DEF Respond
<1>10. ASSUME NEW c \in Conns, MitelEmit(c) PROVE TypeOK'
  BY <1>10, EmitTypes DEF MitelEmit
<1>11. QED
  BY <1>1, <1>2, <1>3, <1>4, <1>5, <1>6, <1>7, <1>8, <1>9, <1>10 DEF MitelNext

\* The steps of the listeners keep every variable in its range.
LEMMA ListenerTypes == TypeOK /\ Ledger /\ ListenerNext => TypeOK'
<1> SUFFICES ASSUME TypeOK, Ledger, ListenerNext PROVE TypeOK'
  OBVIOUS
<1> USE DEF TypeOK, FiasRecords, MitelRecords
<1>1. CASE Listen
  BY <1>1 DEF Listen
<1>2. CASE ListenLoopTop
  BY <1>2 DEF ListenLoopTop
<1>3. CASE ListenerAcceptFails
  BY <1>3 DEF ListenerAcceptFails
<1>4. CASE ListenerCloseBegins
  BY <1>4 DEF ListenerCloseBegins
<1>5. CASE ListenerCloseEnds
  BY <1>5 DEF ListenerCloseEnds, CloseChannel
<1>6. ASSUME NEW c \in Conns, ListenerAccepts(c) PROVE TypeOK'
  BY <1>6 DEF ListenerAccepts
<1>7. ASSUME NEW c \in Conns, HandleConnection(c) PROVE TypeOK'
  BY <1>7 DEF HandleConnection
<1>8. ASSUME NEW c \in Conns, ListenerLoop(c) PROVE TypeOK'
  BY <1>8 DEF ListenerLoop, LoopTop
<1>9. ASSUME NEW c \in Conns, FiasListenerReads(c) PROVE TypeOK'
  BY <1>9 DEF FiasListenerReads
<1>10. ASSUME NEW c \in Conns, FiasListenerTimesOut(c) PROVE TypeOK'
  BY <1>10 DEF FiasListenerTimesOut
<1>11. ASSUME NEW c \in Conns, MitelListenerReads(c) PROVE TypeOK'
  <2>1. owed' \in 0..MaxRecords
    BY <1>11, Room DEF MitelListenerReads, Readable
  <2>2. QED
    BY <1>11, <2>1 DEF MitelListenerReads
<1>12. ASSUME NEW c \in Conns, ListenerReadEnds(c) PROVE TypeOK'
  BY <1>12 DEF ListenerReadEnds
<1>13. ASSUME NEW c \in Conns, ListenerEmit(c) PROVE TypeOK'
  BY <1>13, EmitTypes DEF ListenerEmit
<1>14. QED
  BY <1>1, <1>2, <1>3, <1>4, <1>5, <1>6, <1>7, <1>8, <1>9, <1>10, <1>11, <1>12, <1>13 DEF ListenerNext
\* The steps of the property system and of the owner keep every variable in its range.
LEMMA PeerTypes ==
    ASSUME TypeOK, Ledger,
           Take \/ Stop \/ \E c \in Conns : PmsConnects(c) \/ PmsSends(c) \/ PmsHangsUp(c)
    PROVE  TypeOK'
<1> USE DEF TypeOK, FiasRecords, MitelRecords
<1>1. CASE Take
  <2>1. owed' \in 0..MaxRecords
    BY <1>1, Room DEF Take
  <2>2. QED
    BY <1>1, <2>1 DEF Take
<1>2. CASE Stop
  BY <1>2 DEF Stop
<1>3. ASSUME NEW c \in Conns, PmsConnects(c) PROVE TypeOK'
  BY <1>3 DEF PmsConnects
<1>4. ASSUME NEW c \in Conns, PmsSends(c) PROVE TypeOK'
  BY <1>4 DEF PmsSends, Speaks
<1>5. ASSUME NEW c \in Conns, PmsHangsUp(c) PROVE TypeOK'
  BY <1>5 DEF PmsHangsUp
<1>6. QED
  BY <1>1, <1>2, <1>3, <1>4, <1>5

\* Every step does, as long as the ledger holds.
LEMMA TypeStep == TypeOK /\ Ledger /\ [Next]_vars => TypeOK'
<1> SUFFICES ASSUME TypeOK, Ledger, [Next]_vars PROVE TypeOK'
  OBVIOUS
<1>1. CASE UNCHANGED vars
  BY <1>1 DEF TypeOK, vars
<1>2. QED
  BY <1>1, FiasTypes, MitelTypes, ListenerTypes, PeerTypes DEF Next

----------------------------------------------------------------------------
(* Which steps there are, by link, and which of them change what. *)

\* The steps of each link are guarded by its kind, and the kind never changes.
LEMMA ByKind ==
    /\ FiasNext => kind \in Modes
    /\ MitelNext => kind = "mitel"
    /\ ListenerNext => kind \in Listeners
<1>1. FiasNext => kind \in Modes
  BY DEF FiasNext, Connect, AcceptLoopTop, SetDeadline, CallsAccept, CallsListener, AcceptFails, OwnerCloses, CloseEnds, Accept, Register, Unregister, ReadLoop, ReadLine, ReadFails, ReadTimesOut, StoreLinkRecord, EmitEvent, LinkEnds, Dial, Bind
<1>2. MitelNext => kind = "mitel"
  BY DEF MitelNext, MitelConnect, MitelCloseBegins, MitelCloseEnds, MitelReadLoop, ReadMessage, ReadCutMessage, MitelReadFails, MitelReadTimesOut, Respond, MitelEmit
<1>3. ListenerNext => kind \in Listeners
  BY DEF ListenerNext, Listen, ListenLoopTop, ListenerAcceptFails, ListenerCloseBegins, ListenerCloseEnds, ListenerAccepts, HandleConnection, ListenerLoop, FiasListenerReads, FiasListenerTimesOut, MitelListenerReads, ListenerReadEnds, ListenerEmit
<1>4. QED
  BY <1>1, <1>2, <1>3

\* Nothing turns one link into another.
LEMMA KindKept == [Next]_vars => kind' = kind
<1>1. FiasNext => kind' = kind
  BY DEF FiasNext, Connect, AcceptLoopTop, SetDeadline, CallsAccept, CallsListener, AcceptFails, OwnerCloses, CloseEnds, Accept, Register, Unregister, ReadLoop, ReadLine, ReadFails, ReadTimesOut, StoreLinkRecord, EmitEvent, LinkEnds, LoopTop, Emit, CloseBegins
<1>2. MitelNext => kind' = kind
  BY DEF MitelNext, MitelConnect, MitelCloseBegins, MitelCloseEnds, MitelReadLoop, ReadMessage, ReadCutMessage, MitelReadFails, MitelReadTimesOut, Respond, MitelEmit, LoopTop, Emit
<1>3. ListenerNext => kind' = kind
  BY DEF ListenerNext, Listen, ListenLoopTop, ListenerAcceptFails, ListenerCloseBegins, ListenerCloseEnds, ListenerAccepts, HandleConnection, ListenerLoop, FiasListenerReads, FiasListenerTimesOut, MitelListenerReads, ListenerReadEnds, ListenerEmit, LoopTop, Emit
<1>4. QED
  BY <1>1, <1>2, <1>3 DEF Next, vars, Take, Stop, PmsConnects, PmsSends, PmsHangsUp

\* A context that is done stays done.
LEMMA CancelIsFinal == TypeOK /\ Shutdown /\ [Next]_vars => (cancelled => cancelled')
<1> SUFFICES ASSUME TypeOK, Shutdown, [Next]_vars, cancelled PROVE cancelled'
  OBVIOUS
<1>1. FiasNext => cancelled'
  BY DEF FiasNext, Connect, AcceptLoopTop, SetDeadline, CallsAccept, CallsListener, AcceptFails, OwnerCloses, CloseEnds, Accept, Register, Unregister, ReadLoop, ReadLine, ReadFails, ReadTimesOut, StoreLinkRecord, EmitEvent, LinkEnds, LoopTop, Emit, CloseBegins
<1>2. MitelNext => cancelled'
  BY DEF MitelNext, MitelConnect, MitelCloseBegins, MitelCloseEnds, MitelReadLoop, ReadMessage, ReadCutMessage, MitelReadFails, MitelReadTimesOut, Respond, MitelEmit, LoopTop, Emit
<1>3. CASE ListenerCloseBegins
  BY <1>3, ByKind DEF ListenerCloseBegins, Shutdown
<1>4. ListenerNext => cancelled' \/ ListenerCloseBegins
  BY DEF ListenerNext, Listen, ListenLoopTop, ListenerAcceptFails, ListenerCloseEnds, ListenerAccepts, HandleConnection, ListenerLoop, FiasListenerReads, FiasListenerTimesOut, MitelListenerReads, ListenerReadEnds, ListenerEmit, LoopTop, Emit
<1>5. QED
  BY <1>1, <1>2, <1>3, <1>4 DEF Next, vars, Take, Stop, PmsConnects, PmsSends, PmsHangsUp

----------------------------------------------------------------------------
(* How a link ends. *)

\* The steps of the FIAS adapter: the channel is closed when no loop is left.
LEMMA FiasShutdown == TypeOK /\ Shutdown /\ FiasNext => Shutdown'
<1> SUFFICES ASSUME TypeOK, Shutdown, FiasNext PROVE Shutdown'
  OBVIOUS
<1> USE DEF TypeOK, Shutdown, Quiet, Finished, ReadersFinished, Readable
<1>1. CASE Connect
  BY <1>1 DEF Connect, Dial, Bind
<1>2. CASE AcceptLoopTop
  BY <1>2 DEF AcceptLoopTop
<1>3. CASE SetDeadline \/ CallsAccept
  BY <1>3 DEF SetDeadline, CallsAccept, CallsListener
<1>4. CASE AcceptFails
  BY <1>4 DEF AcceptFails
<1>5. CASE OwnerCloses
  BY <1>5 DEF OwnerCloses, CloseBegins
<1>6. CASE CloseEnds
  BY <1>6 DEF CloseEnds, CloseChannel
<1>7. ASSUME NEW c \in Conns, Accept(c) PROVE Shutdown'
  BY <1>7 DEF Accept
<1>8. ASSUME NEW c \in Conns, Register(c) PROVE Shutdown'
  BY <1>8 DEF Register
<1>9. ASSUME NEW c \in Conns, Unregister(c) PROVE Shutdown'
  BY <1>9 DEF Unregister
<1>10. ASSUME NEW c \in Conns, ReadLoop(c) PROVE Shutdown'
  BY <1>10 DEF ReadLoop, LoopTop
<1>11. ASSUME NEW c \in Conns, ReadLine(c) PROVE Shutdown'
  BY <1>11 DEF ReadLine, HandleLinkRecord, HandleLinkRecordForConn
<1>12. ASSUME NEW c \in Conns, ReadFails(c) PROVE Shutdown'
  BY <1>12 DEF ReadFails
<1>13. ASSUME NEW c \in Conns, ReadTimesOut(c) PROVE Shutdown'
  BY <1>13 DEF ReadTimesOut
<1>14. ASSUME NEW c \in Conns, StoreLinkRecord(c) PROVE Shutdown'
  BY <1>14 DEF StoreLinkRecord
<1>15. ASSUME NEW c \in Conns, EmitEvent(c) PROVE Shutdown'
  BY <1>15 DEF EmitEvent, Emit
<1>16. ASSUME NEW c \in Conns, LinkEnds(c) PROVE Shutdown'
  BY <1>16 DEF LinkEnds, CloseBegins
<1>17. QED
  BY <1>1, <1>2, <1>3, <1>4, <1>5, <1>6, <1>7, <1>8, <1>9, <1>10, <1>11, <1>12, <1>13, <1>14, <1>15, <1>16 DEF FiasNext

\* The steps of the listeners: nobody comes in once Close has begun, and the loops that
\* are left when it ends see the context first.
LEMMA ListenerShutdown == TypeOK /\ Shutdown /\ ListenerNext => Shutdown'
<1> SUFFICES ASSUME TypeOK, Shutdown, ListenerNext PROVE Shutdown'
  OBVIOUS
<1> USE DEF TypeOK, Shutdown, Quiet, Finished, ReadersFinished, Readable
<1>1. CASE Listen
  BY <1>1 DEF Listen
<1>2. CASE ListenLoopTop
  BY <1>2 DEF ListenLoopTop
<1>3. CASE ListenerAcceptFails
  BY <1>3 DEF ListenerAcceptFails
<1>4. CASE ListenerCloseBegins
  BY <1>4 DEF ListenerCloseBegins
<1>5. CASE ListenerCloseEnds
  BY <1>5 DEF ListenerCloseEnds, CloseChannel
<1>6. ASSUME NEW c \in Conns, ListenerAccepts(c) PROVE Shutdown'
  BY <1>6 DEF ListenerAccepts
<1>7. ASSUME NEW c \in Conns, HandleConnection(c) PROVE Shutdown'
  BY <1>7 DEF HandleConnection
<1>8. ASSUME NEW c \in Conns, ListenerLoop(c) PROVE Shutdown'
  BY <1>8 DEF ListenerLoop, LoopTop
<1>9. ASSUME NEW c \in Conns, FiasListenerReads(c) PROVE Shutdown'
  BY <1>9 DEF FiasListenerReads
<1>10. ASSUME NEW c \in Conns, FiasListenerTimesOut(c) PROVE Shutdown'
  BY <1>10 DEF FiasListenerTimesOut
<1>11. ASSUME NEW c \in Conns, MitelListenerReads(c) PROVE Shutdown'
  BY <1>11 DEF MitelListenerReads
<1>12. ASSUME NEW c \in Conns, ListenerReadEnds(c) PROVE Shutdown'
  BY <1>12 DEF ListenerReadEnds
<1>13. ASSUME NEW c \in Conns, ListenerEmit(c) PROVE Shutdown'
  BY <1>13 DEF ListenerEmit, Emit
<1>14. QED
  BY <1>1, <1>2, <1>3, <1>4, <1>5, <1>6, <1>7, <1>8, <1>9, <1>10, <1>11, <1>12, <1>13 DEF ListenerNext

\* Every step.
LEMMA ShutdownStep == TypeOK /\ Shutdown /\ [Next]_vars => Shutdown'
<1> SUFFICES ASSUME TypeOK, Shutdown, [Next]_vars PROVE Shutdown'
  OBVIOUS
<1>1. CASE MitelNext
  BY <1>1, ByKind, KindKept DEF Shutdown
<1> USE DEF TypeOK, Shutdown, Quiet
<1>2. CASE Take
  BY <1>2 DEF Take
<1>3. CASE Stop
  BY <1>3 DEF Stop
<1>4. ASSUME NEW c \in Conns, PmsConnects(c) \/ PmsSends(c) \/ PmsHangsUp(c) PROVE Shutdown'
  BY <1>4 DEF PmsConnects, PmsSends, PmsHangsUp
<1>5. CASE UNCHANGED vars
  BY <1>5 DEF vars
<1>6. QED
  BY <1>1, <1>2, <1>3, <1>4, <1>5, FiasShutdown, ListenerShutdown DEF Next

----------------------------------------------------------------------------
(* One loop for each connection. *)

\* The steps of the listeners.
LEMMA ListenerOneLoop == TypeOK /\ OneLoop /\ ListenerNext => OneLoop'
<1> SUFFICES ASSUME TypeOK, OneLoop, ListenerNext PROVE OneLoop'
  OBVIOUS
<1> USE DEF TypeOK, OneLoop, Waiting, Readable
<1>1. CASE Listen
  BY <1>1 DEF Listen
<1>2. CASE ListenLoopTop
  BY <1>2 DEF ListenLoopTop
<1>3. CASE ListenerAcceptFails
  BY <1>3 DEF ListenerAcceptFails
<1>4. CASE ListenerCloseBegins
  BY <1>4 DEF ListenerCloseBegins
<1>5. CASE ListenerCloseEnds
  BY <1>5 DEF ListenerCloseEnds, CloseChannel
<1>6. ASSUME NEW c \in Conns, ListenerAccepts(c) PROVE OneLoop'
  BY <1>6 DEF ListenerAccepts
<1>7. ASSUME NEW c \in Conns, HandleConnection(c) PROVE OneLoop'
  BY <1>7 DEF HandleConnection
<1>8. ASSUME NEW c \in Conns, ListenerLoop(c) PROVE OneLoop'
  BY <1>8 DEF ListenerLoop, LoopTop
<1>9. ASSUME NEW c \in Conns, FiasListenerReads(c) PROVE OneLoop'
  BY <1>9 DEF FiasListenerReads
<1>10. ASSUME NEW c \in Conns, FiasListenerTimesOut(c) PROVE OneLoop'
  BY <1>10 DEF FiasListenerTimesOut
<1>11. ASSUME NEW c \in Conns, MitelListenerReads(c) PROVE OneLoop'
  BY <1>11 DEF MitelListenerReads
<1>12. ASSUME NEW c \in Conns, ListenerReadEnds(c) PROVE OneLoop'
  BY <1>12 DEF ListenerReadEnds
<1>13. ASSUME NEW c \in Conns, ListenerEmit(c) PROVE OneLoop'
  BY <1>13 DEF ListenerEmit, Emit
<1>14. QED
  BY <1>1, <1>2, <1>3, <1>4, <1>5, <1>6, <1>7, <1>8, <1>9, <1>10, <1>11, <1>12, <1>13 DEF ListenerNext

\* Every step.
LEMMA OneLoopStep == TypeOK /\ OneLoop /\ [Next]_vars => OneLoop'
<1> SUFFICES ASSUME TypeOK, OneLoop, [Next]_vars PROVE OneLoop'
  OBVIOUS
<1>1. CASE FiasNext \/ MitelNext
  BY <1>1, ByKind, KindKept DEF OneLoop
<1> USE DEF TypeOK, OneLoop, Waiting
<1>2. CASE Take \/ Stop
  BY <1>2 DEF Take, Stop
<1>3. ASSUME NEW c \in Conns, PmsConnects(c) \/ PmsSends(c) \/ PmsHangsUp(c) PROVE OneLoop'
  BY <1>3 DEF PmsConnects, PmsSends, PmsHangsUp
<1>4. CASE UNCHANGED vars
  BY <1>4 DEF vars
<1>5. QED
  BY <1>1, <1>2, <1>3, <1>4, ListenerOneLoop DEF Next

----------------------------------------------------------------------------
(* Acknowledged messages. *)

\* A loop that takes an event in hand, one that puts it down, and one that does neither.
LEMMA SendingMoves ==
    ASSUME TypeOK, NEW c \in Conns, NEW pc, Goto(c, pc)
    PROVE  /\ reader[c] # "send" /\ pc = "send" => c \notin Sending /\ Sending' = Sending \cup {c}
           /\ reader[c] = "send" /\ pc # "send" => c \in Sending /\ Sending' = Sending \ {c}
           /\ reader[c] # "send" /\ pc # "send" => Sending' = Sending
BY DEF TypeOK, Sending

\* A record that arrives, and one that is read or whose beginning is thrown away.
LEMMA UnreadMoves ==
    ASSUME TypeOK, NEW c \in Conns
    PROVE  /\ \A r : wire[c] = None /\ r # None /\ wire' = [wire EXCEPT ![c] = r]
                        => c \notin Unread /\ Unread' = Unread \cup {c}
           /\ wire[c] # None /\ Consume(c) => c \in Unread /\ Unread' = Unread \ {c}
BY DEF TypeOK, Unread

\* What leaves the books alone keeps the ledger.
LEMMA LedgerFrame ==
    ASSUME Ledger, UNCHANGED <<kind, chan, owed, sent, overflowed>>,
           Sending' = Sending, Unread' = Unread, cancelled => cancelled'
    PROVE  Ledger'
BY DEF Ledger

\* The outcomes of a select with an event in hand.
LEMMA LedgerEmit ==
    ASSUME TypeOK, Ledger, kind = "mitel_listener", NEW c \in Conns, Emit(c, "done")
    PROVE  Ledger'
<1> USE DEF TypeOK
<1>1. kind' = kind /\ UNCHANGED <<sent, owed, wire, cancelled>> /\ Unread' = Unread
  BY DEF Emit, Unread
<1>2. c \in Sending
  BY DEF Emit, Sending
<1>3. /\ IsFiniteSet(Sending \ {c})
      /\ Cardinality(Sending \ {c}) = Cardinality(Sending) - 1
      /\ Cardinality(Sending) \in Nat \ {0}
  BY <1>2, OneLess DEF Ledger
<1>4. CASE chan' = chan + 1 /\ Goto(c, "check") /\ overflowed' = overflowed
  <2>1. Sending' = Sending \ {c}
    BY <1>2, <1>4, SendingMoves DEF Sending
  <2>2. QED
    BY <1>1, <1>3, <1>4, <2>1 DEF Ledger
<1>5. CASE UNCHANGED <<chan, reader, overflowed>>
  BY <1>1, <1>5, LedgerFrame DEF Sending
<1>6. CASE cancelled /\ Goto(c, "done") /\ UNCHANGED <<chan, overflowed>>
  <2>1. Sending' = Sending \ {c}
    BY <1>2, <1>6, SendingMoves DEF Sending
  <2>2. QED
    BY <1>1, <1>3, <1>6, <2>1 DEF Ledger
<1>7. CASE overflowed' = TRUE /\ Goto(c, "check") /\ chan' = chan
  <2>1. Sending' = Sending \ {c}
    BY <1>2, <1>7, SendingMoves DEF Sending
  <2>2. QED
    BY <1>1, <1>3, <1>7, <2>1 DEF Ledger
<1>8. QED
  BY <1>4, <1>5, <1>6, <1>7 DEF Emit

\* A message that is read, acknowledged or not.
LEMMA LedgerReads ==
    ASSUME TypeOK, Ledger, NEW c \in Conns, MitelListenerReads(c)
    PROVE  Ledger'
<1> USE DEF TypeOK
<1>1. /\ kind = "mitel_listener" /\ kind' = kind /\ UNCHANGED <<sent, chan, overflowed, cancelled>>
      /\ wire[c] # None /\ reader[c] = "read" /\ Consume(c)
  BY DEF MitelListenerReads, Readable
<1>2. c \in Unread /\ Unread' = Unread \ {c}
  BY <1>1, UnreadMoves
<1>3. /\ IsFiniteSet(Unread')
      /\ Cardinality(Unread') = Cardinality(Unread) - 1
      /\ Cardinality(Unread) \in Nat \ {0}
  BY <1>1, <1>2, OneLess DEF Ledger
<1>4. Cardinality(Sending) \in Nat
  BY <1>1, FS_CardinalityType DEF Ledger
<1>5. CASE owed' = owed + 1 /\ Goto(c, "send")
  <2>1. c \notin Sending /\ Sending' = Sending \cup {c}
    BY <1>1, <1>5, SendingMoves
  <2>2. IsFiniteSet(Sending') /\ Cardinality(Sending') = Cardinality(Sending) + 1
    BY <1>1, <2>1, OneMore DEF Ledger
  <2>3. QED
    BY <1>1, <1>3, <1>4, <1>5, <2>2 DEF Ledger
<1>6. CASE owed' = owed /\ \E pc \in {"done", "check"} : Goto(c, pc)
  <2>1. Sending' = Sending
    BY <1>1, <1>6, SendingMoves
  <2>2. QED
    BY <1>1, <1>3, <1>4, <1>6, <2>1 DEF Ledger
<1>7. QED
  BY <1>5, <1>6 DEF MitelListenerReads

\* The other steps of a Mitel listener neither acknowledge nor deliver anything.
LEMMA LedgerListener ==
    ASSUME TypeOK, Ledger, OneLoop, kind = "mitel_listener", ListenerNext, cancelled => cancelled'
    PROVE  Ledger'
<1> USE DEF TypeOK
<1>1. ASSUME NEW c \in Conns, MitelListenerReads(c) PROVE Ledger'
  BY <1>1, LedgerReads
<1>2. ASSUME NEW c \in Conns, ListenerEmit(c) PROVE Ledger'
  BY <1>2, LedgerEmit DEF ListenerEmit
<1>3. ASSUME NEW c \in Conns, HandleConnection(c) PROVE Ledger'
  <2>1. Sending' = Sending
    BY <1>3, SendingMoves DEF HandleConnection, OneLoop
  <2>2. QED
    BY <1>3, <2>1, LedgerFrame DEF HandleConnection, Unread
<1>4. ASSUME NEW c \in Conns, ListenerLoop(c) \/ ListenerReadEnds(c) PROVE Ledger'
  <2>1. Sending' = Sending
    BY <1>4, SendingMoves DEF ListenerLoop, LoopTop, ListenerReadEnds
  <2>2. QED
    BY <1>4, <2>1, LedgerFrame DEF ListenerLoop, LoopTop, ListenerReadEnds, Unread
<1>5. CASE Listen \/ ListenLoopTop \/ ListenerAcceptFails \/ ListenerCloseBegins \/ ListenerCloseEnds
  BY <1>5, LedgerFrame
     DEF Listen, ListenLoopTop, ListenerAcceptFails, ListenerCloseBegins, ListenerCloseEnds,
         Sending, Unread
<1>6. ASSUME NEW c \in Conns, ListenerAccepts(c) PROVE Ledger'
  BY <1>6, LedgerFrame DEF ListenerAccepts, Sending, Unread
<1>7. ~ \E c \in Conns : FiasListenerReads(c) \/ FiasListenerTimesOut(c)
  BY DEF FiasListenerReads, FiasListenerTimesOut
<1>8. QED
  BY <1>1, <1>2, <1>3, <1>4, <1>5, <1>6, <1>7 DEF ListenerNext

\* The ledger, in every step.
LEMMA LedgerStep == TypeOK /\ Ledger /\ Shutdown /\ OneLoop /\ [Next]_vars => Ledger'
<1> SUFFICES ASSUME TypeOK, Ledger, Shutdown, OneLoop, [Next]_vars PROVE Ledger'
  OBVIOUS
<1>1. CASE kind # "mitel_listener"
  <2>1. owed' = owed
    <3>1. CASE FiasNext
      BY <3>1 DEF FiasNext, Connect, AcceptLoopTop, SetDeadline, CallsAccept, CallsListener, AcceptFails, OwnerCloses, CloseEnds, Accept, Register, Unregister, ReadLoop, ReadLine, ReadFails, ReadTimesOut, StoreLinkRecord, EmitEvent, LinkEnds, LoopTop, Emit, CloseBegins
    <3>2. CASE MitelNext
      BY <3>2 DEF MitelNext, MitelConnect, MitelCloseBegins, MitelCloseEnds, MitelReadLoop, ReadMessage, ReadCutMessage, MitelReadFails, MitelReadTimesOut, Respond, MitelEmit, LoopTop, Emit
    <3>3. CASE ListenerNext
      BY <1>1, <3>3 DEF ListenerNext, Listen, ListenLoopTop, ListenerAcceptFails, ListenerCloseBegins, ListenerCloseEnds, ListenerAccepts, HandleConnection, ListenerLoop, FiasListenerReads, FiasListenerTimesOut, MitelListenerReads, ListenerReadEnds, ListenerEmit, LoopTop, Emit
    <3>4. QED
      BY <1>1, <3>1, <3>2, <3>3 DEF Next, vars, Take, Stop, PmsConnects, PmsSends, PmsHangsUp
  <2>2. QED
    BY <1>1, <2>1, KindKept DEF Ledger
<1>2. CASE kind = "mitel_listener"
  <2> USE DEF TypeOK
  <2>1. cancelled => cancelled'
    BY CancelIsFinal
  <2>2. CASE ListenerNext
    BY <1>2, <2>1, <2>2, LedgerListener
  <2>3. CASE Take
    <3>1. Cardinality(Sending) \in Nat
      BY <1>2, FS_CardinalityType DEF Ledger
    <3>2. Sending' = Sending /\ Unread' = Unread
      BY <2>3 DEF Take, Sending, Unread
    <3>3. Cardinality(Unread) \in Nat
      BY <1>2, FS_CardinalityType DEF Ledger
    <3>4. QED
      BY <1>2, <2>3, <3>1, <3>2, <3>3 DEF Ledger, Take
  <2>4. CASE Stop
    BY <2>1, <2>4, LedgerFrame DEF Stop, Sending, Unread
  <2>5. ASSUME NEW c \in Conns, PmsConnects(c) \/ PmsHangsUp(c) PROVE Ledger'
    BY <2>1, <2>5, LedgerFrame DEF PmsConnects, PmsHangsUp, Sending, Unread
  <2>6. ASSUME NEW c \in Conns, PmsSends(c) PROVE Ledger'
    <3>1. PICK r \in Speaks : wire' = [wire EXCEPT ![c] = r]
      BY <2>6 DEF PmsSends
    <3>2. r # None
      BY <1>2 DEF Speaks, FiasRecords, MitelRecords
    <3>3. c \notin Unread /\ Unread' = Unread \cup {c}
      BY <2>6, <3>1, <3>2, UnreadMoves DEF PmsSends
    <3>4. IsFiniteSet(Unread') /\ Cardinality(Unread') = Cardinality(Unread) + 1
      BY <1>2, <3>3, OneMore DEF Ledger
    <3>5. Cardinality(Unread) \in Nat /\ Cardinality(Sending) \in Nat
      BY <1>2, FS_CardinalityType DEF Ledger
    <3>6. Sending' = Sending
      BY <2>6 DEF PmsSends, Sending
    <3>7. QED
      BY <1>2, <2>6, <3>4, <3>5, <3>6 DEF Ledger, PmsSends
  <2>7. CASE UNCHANGED vars
    BY <2>7, LedgerFrame DEF vars, Sending, Unread
  <2>8. QED
    BY <1>2, <2>2, <2>3, <2>4, <2>5, <2>6, <2>7, ByKind DEF Next
<1>3. QED
  BY <1>1, <1>2

----------------------------------------------------------------------------
(* The sends and closes that can panic, and how a loop of an adapter ends. *)

\* A send on the closed channel and a second close do not happen where the loops end first.
LEMMA NoPanicStep == TypeOK /\ Shutdown /\ NoPanic /\ [Next]_vars => NoPanic'
<1> SUFFICES ASSUME TypeOK, Shutdown, NoPanic, [Next]_vars, kind \notin {"mitel", "fias_listen"}
             PROVE  ~panicked'
  BY KindKept DEF NoPanic
<1> ~panicked
  BY DEF NoPanic
<1> USE DEF TypeOK
<1>1. CASE FiasNext
  <2>1. CASE CloseEnds
    BY <2>1 DEF CloseEnds, CloseChannel, Shutdown
  <2>2. ASSUME NEW c \in Conns, EmitEvent(c) PROVE ~panicked'
    BY <2>2 DEF EmitEvent, Emit, Shutdown, Quiet
  <2>3. ~SetDeadline /\ ~CallsAccept
    BY DEF SetDeadline, CallsAccept, CallsListener
  <2>4. QED
    BY <1>1, <2>1, <2>2, <2>3
       DEF FiasNext, Connect, AcceptLoopTop, AcceptFails, OwnerCloses, Accept, Register, Unregister, ReadLoop, ReadLine, ReadFails, ReadTimesOut, StoreLinkRecord, LinkEnds, LoopTop, CloseBegins
<1>2. CASE ListenerNext
  <2>1. CASE ListenerCloseEnds
    BY <2>1 DEF ListenerCloseEnds, CloseChannel, Shutdown
  <2>2. ASSUME NEW c \in Conns, ListenerEmit(c) PROVE ~panicked'
    BY <2>2 DEF ListenerEmit, Emit, Shutdown, Quiet
  <2>3. QED
    BY <1>2, <2>1, <2>2
       DEF ListenerNext, Listen, ListenLoopTop, ListenerAcceptFails, ListenerCloseBegins, ListenerAccepts, HandleConnection, ListenerLoop, FiasListenerReads, FiasListenerTimesOut, MitelListenerReads, ListenerReadEnds, LoopTop
<1>3. QED
  BY <1>1, <1>2, ByKind
     DEF Next, vars, Take, Stop, PmsConnects, PmsSends, PmsHangsUp

\* The loop of an adapter ends at the end of the stream, or when its context is done.
LEMMA HungUpStep == TypeOK /\ Shutdown /\ HungUp /\ [Next]_vars => HungUp'
<1> SUFFICES ASSUME TypeOK, HungUp, [Next]_vars, kind \in Adapters, ~cancelled',
                    cancelled => cancelled', reader'[Client] = "done"
             PROVE  socket'[Client] = "eof"
  BY KindKept, CancelIsFinal DEF HungUp
<1> USE DEF TypeOK, HungUp, Readable, Ended
<1>1. CASE FiasNext
  <2>1. CASE Connect
    BY <2>1 DEF Connect, Dial, Bind
  <2>2. CASE AcceptLoopTop
    BY <2>2 DEF AcceptLoopTop
  <2>3. CASE SetDeadline \/ CallsAccept
    BY <2>3 DEF SetDeadline, CallsAccept, CallsListener
  <2>4. CASE AcceptFails
    BY <2>4 DEF AcceptFails
  <2>5. CASE OwnerCloses
    BY <2>5 DEF OwnerCloses, CloseBegins
  <2>6. CASE CloseEnds
    BY <2>6 DEF CloseEnds, CloseChannel
  <2>7. ASSUME NEW c \in Conns, Accept(c) PROVE socket'[Client] = "eof"
    BY <2>7 DEF Accept
  <2>8. ASSUME NEW c \in Conns, Register(c) PROVE socket'[Client] = "eof"
    BY <2>8 DEF Register
  <2>9. ASSUME NEW c \in Conns, Unregister(c) PROVE socket'[Client] = "eof"
    BY <2>9 DEF Unregister
  <2>10. ASSUME NEW c \in Conns, ReadLoop(c) PROVE socket'[Client] = "eof"
    BY <2>10 DEF ReadLoop, LoopTop
  <2>11. ASSUME NEW c \in Conns, ReadLine(c) PROVE socket'[Client] = "eof"
    BY <2>11 DEF ReadLine, HandleLinkRecord, HandleLinkRecordForConn
  <2>12. ASSUME NEW c \in Conns, ReadFails(c) PROVE socket'[Client] = "eof"
    BY <2>12 DEF ReadFails
  <2>13. ASSUME NEW c \in Conns, ReadTimesOut(c) PROVE socket'[Client] = "eof"
    BY <2>13 DEF ReadTimesOut
  <2>14. ASSUME NEW c \in Conns, StoreLinkRecord(c) PROVE socket'[Client] = "eof"
    BY <2>14 DEF StoreLinkRecord
  <2>15. ASSUME NEW c \in Conns, EmitEvent(c) PROVE socket'[Client] = "eof"
    BY <2>15 DEF EmitEvent, Emit
  <2>16. ASSUME NEW c \in Conns, LinkEnds(c) PROVE socket'[Client] = "eof"
    BY <2>16 DEF LinkEnds, CloseBegins
  <2>17. QED
    BY <1>1, <2>1, <2>2, <2>3, <2>4, <2>5, <2>6, <2>7, <2>8, <2>9, <2>10, <2>11, <2>12, <2>13, <2>14, <2>15, <2>16 DEF FiasNext
<1>2. CASE MitelNext
  <2>1. CASE MitelConnect
    BY <2>1 DEF MitelConnect
  <2>2. CASE MitelCloseBegins
    BY <2>2 DEF MitelCloseBegins, CloseChannel
  <2>3. CASE MitelCloseEnds
    BY <2>3 DEF MitelCloseEnds
  <2>4. ASSUME NEW c \in Conns, MitelReadLoop(c) PROVE socket'[Client] = "eof"
    BY <2>4 DEF MitelReadLoop, LoopTop
  <2>5. ASSUME NEW c \in Conns, ReadMessage(c) PROVE socket'[Client] = "eof"
    BY <2>5 DEF ReadMessage, ParseMessage
  <2>6. ASSUME NEW c \in Conns, ReadCutMessage(c) PROVE socket'[Client] = "eof"
    BY <2>6 DEF ReadCutMessage
  <2>7. ASSUME NEW c \in Conns, MitelReadFails(c) PROVE socket'[Client] = "eof"
    BY <2>7 DEF MitelReadFails
  <2>8. ASSUME NEW c \in Conns, MitelReadTimesOut(c) PROVE socket'[Client] = "eof"
    BY <2>8 DEF MitelReadTimesOut
  <2>9. ASSUME NEW c \in Conns, Respond(c) PROVE socket'[Client] = "eof"
    BY <2>9 DEF Respond
  <2>10. ASSUME NEW c \in Conns, MitelEmit(c) PROVE socket'[Client] = "eof"
    BY <2>10 DEF MitelEmit, Emit
  <2>11. QED
    BY <1>2, <2>1, <2>2, <2>3, <2>4, <2>5, <2>6, <2>7, <2>8, <2>9, <2>10 DEF MitelNext
<1>3. CASE Take \/ Stop \/ UNCHANGED vars
  BY <1>3 DEF Take, Stop, vars
<1>4. ASSUME NEW c \in Conns, PmsConnects(c) \/ PmsSends(c) \/ PmsHangsUp(c)
      PROVE  socket'[Client] = "eof"
  BY <1>4 DEF PmsConnects, PmsSends, PmsHangsUp
<1>5. QED
  BY <1>1, <1>2, <1>3, <1>4, ByKind DEF Next

----------------------------------------------------------------------------
\* All of it holds initially and is kept by every step.
LEMMA LinkInvariant == Spec => []LinkInv
<1>1. Init => LinkInv
  <2> SUFFICES ASSUME Init PROVE LinkInv
    OBVIOUS
  <2>1. Sending = {} /\ Unread = {}
    BY DEF Init, Sending, Unread
  <2>2. Ledger
    BY <2>1, FS_EmptySet DEF Init, Ledger
  <2>3. TypeOK
    <3>1. {listening, cancelled, connected, pending, chanClosed, overflowed, panicked} \subseteq BOOLEAN
      BY DEF Init
    <3>2. chan \in 0..Capacity /\ owed \in 0..MaxRecords /\ sent \in 0..MaxRecords
      BY DEF Init
    <3>3. QED
      BY <3>1, <3>2 DEF Init, TypeOK
  <2>4. QED
    BY <2>2, <2>3 DEF Init, LinkInv, Shutdown, OneLoop, NoPanic, HungUp, Waiting
<1>2. LinkInv /\ [Next]_vars => LinkInv'
  BY TypeStep, LedgerStep, ShutdownStep, OneLoopStep, NoPanicStep, HungUpStep DEF LinkInv
<1>3. QED
  BY <1>1, <1>2, PTL DEF Spec

\* The types of all variables, in every reachable state. That a listener never owes less
\* than nothing nor more than was sent needs the ledger.
THEOREM TypeCorrect == Spec => []TypeOK
<1>1. LinkInv => TypeOK
  BY DEF LinkInv
<1>2. QED
  BY <1>1, LinkInvariant, PTL

\* The dialling FIAS adapter and both listeners never send on a closed channel, never
\* close it twice and never use the socket Close took away: whatever is going on when
\* Close is called, by the owner or by a link end.
THEOREM NeverPanics == Spec => []NoPanic
<1>1. LinkInv => NoPanic
  BY DEF LinkInv
<1>2. QED
  BY <1>1, LinkInvariant, PTL

\* A message the Mitel listener acknowledged is with its owner, in the channel or in the
\* hands of a loop, unless the channel was full or the site connector was shutting down.
THEOREM AckedKept == Spec => []AckedIsKept
<1>1. LinkInv => AckedIsKept
  BY DEF LinkInv, Ledger, AckedIsKept, Sending
<1>2. QED
  BY <1>1, LinkInvariant, PTL

\* An adapter that says it is connected and has no loop any more saw the property system
\* close the connection in good order.
THEOREM StaleAfterHangUp == Spec => []StaleOnlyAfterHangUp
<1>1. LinkInv => StaleOnlyAfterHangUp
  BY DEF LinkInv, HungUp, StaleOnlyAfterHangUp
<1>2. QED
  BY <1>1, LinkInvariant, PTL

============================================================================
