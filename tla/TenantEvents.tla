---------------------------- MODULE TenantEvents ----------------------------
(***************************************************************************)
(* Tenant.processEvents and Tenant.handleEvent of internal/tenant/         *)
(* manager.go: PMS events taken one at a time and carried out as a series  *)
(* of calls to the PBX, the database and the PMS, any of which may fail.   *)
(*                                                                         *)
(* The calls an event still has to make are a sequence of their names, so  *)
(* that one action is one call.                                            *)
(***************************************************************************)
EXTENDS WakeUpCalls

CONSTANTS
    Rooms,          \* room numbers, as the PMS knows them
    Extension,      \* RoomMapper.GetExtension
    Handlers,       \* goroutines running processEvents
    Inputs,         \* bound: the events the PMS may send
    MaxEvents       \* bound: events of a behaviour

VARIABLES
    seen,       \* the events taken so far, in the order they were taken
    doing,      \* per goroutine: the event it handles, 0 for none
    todo,       \* per goroutine: the calls it still has to make
    found,      \* per goroutine: the wake-up row it has looked up
    pbx,        \* what the PBX knows of each extension
    sessions,   \* active guest sessions of each room
    audit,      \* the row of each event in pms_events
    acked,      \* events acknowledged to the PMS
    botched,    \* events of which a call to the PBX or the database failed
    finished,   \* events whose handler ran to its end
    retried     \* events whose row an administrator has reset

handling == <<seen, doing, todo, found>>
tenancy == <<pbx, sessions, audit, acked, botched, finished, retried>>

\* The time of a wake-up event: a time, none, or one that does not parse.
NoTime == -1
BadTime == -2
EventTimes == Times \cup {NoTime, BadTime}

TimedKinds == {"wake_set", "wake_clear"}
PlainKinds == {"check_in", "check_out", "mwi_on", "mwi_off", "rename",
               "dnd_on", "dnd_off", "wake_clearall", "room_status"}

Events ==
    [kind : PlainKinds, room : Rooms, at : {NoTime}] \cup
    [kind : TimedKinds, room : Rooms, at : EventTimes]

EventIds == 1..MaxEvents

ASSUME TenantAssumption ==
    /\ Extension \in [Rooms -> Extensions]
    /\ MaxEvents \in Nat \ {0}
    /\ Inputs \subseteq Events

Lines == [name : {"", "guest", "renamed"}, mwi : BOOLEAN, dnd : BOOLEAN,
          mail : BOOLEAN, alarm : BOOLEAN]

\* The event a goroutine handles, and its extension.
Event(h) == seen[doing[h]]
Ext(h) == Extension[Event(h).room]

----------------------------------------------------------------------------
\* Mutant of handleCheckOut: it forgets the lamp.
CheckOutKeepsLamp == <<"unname", "purge_mail", "alarm_off", "find", "cancel", "end_session">>

CheckOutCalls == <<"unname", "purge_mail", "alarm_off", "find", "cancel", "mwi_off", "end_session">>

\* handleWakeUp. A time that does not parse ends it before its first call.
WakeUpCallsOf(e) ==
    CASE e.at = BadTime                             -> <<>>
      [] e.kind = "wake_set" /\ e.at # BadTime      -> <<"alarm_on", "create">>
      [] e.kind = "wake_clear" /\ e.at = NoTime     -> <<"alarm_off">>
      [] e.kind = "wake_clear" /\ e.at \in Times    -> <<"alarm_off", "find", "cancel">>
      [] e.kind = "wake_clearall"                   -> <<"alarm_off", "cancel_all">>

\* The events whose call handleEvent makes itself: it marks them as failed when the call fails.
\* The handlers of the others, of one call or more, log an error and go on.
ReportedKinds == {"mwi_on", "mwi_off", "rename", "dnd_on", "dnd_off"}

\* The switch of handleEvent.
Calls(e) ==
    CASE e.kind = "check_in"        -> <<"name", "begin_session">>
      [] e.kind = "check_out"       -> CheckOutCalls
      [] e.kind \in ReportedKinds       -> <<e.kind>>
      [] e.kind = "room_status"     -> <<>>
      [] OTHER                      -> WakeUpCallsOf(e)

Script(e) == <<"log">> \o Calls(e) \o <<"ack", "processed">>

\* Bound: no more wake-up calls are asked for than the table has room for.
CallsAskedFor == Cardinality({n \in 1..Len(seen) : seen[n].kind = "wake_set"})

\* processEvents receives the next event of the adapter's channel. It may do so when its
\* context is done, too, for select takes either. Bound: only the last event comes so late.
Take(h) ==
    /\ life # "down" /\ tenant # "gone" /\ doing[h] = 0
    /\ tenant = "leaving" => Len(seen) + 1 = MaxEvents
    /\ Len(seen) < MaxEvents
    /\ \E e \in Inputs :
        /\ e.kind = "wake_set" => CallsAskedFor < MaxCalls
        /\ seen' = Append(seen, e)
        /\ todo' = [todo EXCEPT ![h] = Script(e)]
    /\ doing' = [doing EXCEPT ![h] = Len(seen) + 1]
    /\ UNCHANGED <<wake, rings, world, faults, found, tenancy>>

\* Stop cancels the context of its tenant: no statement runs after that. Any other call may
\* fail then, and every call may fail as a fault at any time.
StatementRuns == tenant # "leaving"
CallMayFail == IF tenant = "leaving" THEN UNCHANGED faults ELSE Fault

Calling(h, call) == todo[h] # <<>> /\ Head(todo[h]) = call
Continue(h) == todo' = [todo EXCEPT ![h] = Tail(@)] /\ UNCHANGED <<seen, doing>>
GoOn(h, calls) == todo' = [todo EXCEPT ![h] = calls] /\ UNCHANGED <<seen, doing>>

\* LogPMSEvent; without a row the event goes on, and is never marked.
Log(h) ==
    /\ Calling(h, "log") /\ Continue(h)
    /\ \/ StatementRuns /\ audit' = [audit EXCEPT ![doing[h]] = "open"] /\ UNCHANGED faults
       \/ CallMayFail /\ UNCHANGED audit
    /\ UNCHANGED <<wake, rings, world, found, pbx, sessions, acked, botched, finished, retried>>

----------------------------------------------------------------------------
\* Calls to the PBX provider.

PbxCalls == {"name", "unname", "rename", "mwi_on", "mwi_off", "dnd_on", "dnd_off",
             "purge_mail", "alarm_on", "alarm_off"}

After(call, line) ==
    CASE call = "name"          -> [line EXCEPT !.name = "guest"]
      [] call = "unname"        -> [line EXCEPT !.name = ""]
      [] call = "rename"        -> [line EXCEPT !.name = "renamed"]
      [] call = "mwi_on"        -> [line EXCEPT !.mwi = TRUE]
      [] call = "mwi_off"       -> [line EXCEPT !.mwi = FALSE]
      [] call = "dnd_on"        -> [line EXCEPT !.dnd = TRUE]
      [] call = "dnd_off"       -> [line EXCEPT !.dnd = FALSE]
      [] call = "purge_mail"    -> [line EXCEPT !.mail = FALSE]
      [] call = "alarm_on"      -> [line EXCEPT !.alarm = TRUE]
      [] call = "alarm_off"     -> [line EXCEPT !.alarm = FALSE]

Pbx(h) ==
    /\ \E call \in PbxCalls :
        Calling(h, call) /\ pbx' = [pbx EXCEPT ![Ext(h)] = After(call, @)]
    /\ Continue(h)
    /\ UNCHANGED <<wake, rings, world, faults, found, sessions, audit, acked, botched, finished, retried>>

\* Mutant: an error of the PBX is logged, and the event goes on.
LogAndContinue(h) == Tail(todo[h])

\* What is left to do when a call to the PBX returns an error.
AfterError(h) ==
    CASE Event(h).kind \in ReportedKinds    -> <<"failed">>
      [] Head(todo[h]) = "alarm_on"     -> <<"ack", "processed">>
      [] OTHER                          -> Tail(todo[h])

\* An error may come back although the PBX has done what it was asked.
PbxError(h) ==
    /\ CallMayFail
    /\ \E call \in PbxCalls :
        Calling(h, call) /\ \E line \in {pbx[Ext(h)], After(call, pbx[Ext(h)])} :
            pbx' = [pbx EXCEPT ![Ext(h)] = line]
    /\ GoOn(h, AfterError(h))
    /\ botched' = botched \cup {doing[h]}
    /\ UNCHANGED <<wake, rings, world, found, sessions, audit, acked, finished, retried>>

----------------------------------------------------------------------------
\* Calls to the database.

\* Mutants: only the latest session is ended, if there is one; without looking.
EndLatestSession(r) == IF sessions[r] = 0 THEN 0 ELSE sessions[r] - 1
EndOneSession(r) == sessions[r] - 1

EndGuestSession(r) == 0

Session(h) ==
    /\ StatementRuns
    /\ LET r == Event(h).room IN
       \/ Calling(h, "begin_session") /\ sessions' = [sessions EXCEPT ![r] = @ + 1]
       \/ Calling(h, "end_session") /\ sessions' = [sessions EXCEPT ![r] = EndGuestSession(r)]
    /\ Continue(h)
    /\ UNCHANGED <<wake, rings, world, faults, found, pbx, audit, acked, botched, finished, retried>>

Create(h) ==
    /\ Calling(h, "create") /\ StatementRuns
    /\ CreateWakeUpCall(Ext(h), IF Event(h).at = NoTime THEN 0 ELSE Event(h).at)
    /\ Continue(h)
    /\ UNCHANGED <<rings, world, faults, found, tenancy>>

\* handleCheckOut looks for the number of the room, handleWakeUp for the extension.
SearchedNumber(h) == IF Event(h).kind = "check_out" THEN Event(h).room ELSE Ext(h)

\* Without a row to cancel, the call that would cancel it is skipped.
Find(h) ==
    /\ Calling(h, "find") /\ StatementRuns
    /\ LET rows == FindPendingWakeUpCall(SearchedNumber(h)) IN
       \/ /\ \E i \in rows : found' = [found EXCEPT ![h] = i]
          /\ Continue(h)
       \/ rows = {} /\ GoOn(h, Tail(Tail(todo[h]))) /\ UNCHANGED found
    /\ UNCHANGED <<wake, rings, world, faults, tenancy>>

Cancel(h) ==
    /\ StatementRuns
    /\ \/ Calling(h, "cancel") /\ CancelWakeUpCall(found[h])
       \/ Calling(h, "cancel_all") /\ CancelAllPendingWakeUpCallsForExtension(Ext(h))
    /\ found' = [found EXCEPT ![h] = 0]
    /\ Continue(h)
    /\ UNCHANGED <<rings, world, faults, tenancy>>

DbCalls == {"begin_session", "end_session", "create", "find", "cancel", "cancel_all"}

\* Whatever a goroutine may still have to do for its event.
CallNames == PbxCalls \cup DbCalls \cup {"log", "ack", "processed", "failed"}

\* Every handler logs the error of the database and goes on.
DbError(h) ==
    /\ CallMayFail
    /\ \E call \in DbCalls : Calling(h, call)
    /\ GoOn(h, IF Calling(h, "find") THEN Tail(Tail(todo[h])) ELSE Tail(todo[h]))
    /\ found' = [found EXCEPT ![h] = 0]
    /\ botched' = botched \cup {doing[h]}
    /\ UNCHANGED <<wake, rings, world, pbx, sessions, audit, acked, finished, retried>>

----------------------------------------------------------------------------
\* The end of handleEvent.

Ack(h) ==
    /\ Calling(h, "ack") /\ Continue(h)
    /\ \/ acked' = acked \cup {doing[h]} /\ UNCHANGED faults
       \/ CallMayFail /\ UNCHANGED acked
    /\ UNCHANGED <<wake, rings, world, found, pbx, sessions, audit, botched, finished, retried>>

\* markEventProcessed or markEventFailed; an event without a row has none to mark.
Finish(h) ==
    /\ \E mark \in {"processed", "failed"} :
        /\ Calling(h, mark)
        /\ \/ audit' = [audit EXCEPT ![doing[h]] = IF @ = "none" THEN @ ELSE mark]
              /\ StatementRuns /\ UNCHANGED faults
           \/ CallMayFail /\ UNCHANGED audit
    /\ doing' = [doing EXCEPT ![h] = 0]
    /\ todo' = [todo EXCEPT ![h] = <<>>]
    /\ finished' = finished \cup {doing[h]}
    /\ UNCHANGED <<wake, rings, world, seen, found, pbx, sessions, acked, botched, retried>>

\* The admin API's retry of an event: ResetPMSEvent, and nothing else. Bounded
\* with the faults.
RetryEvent(n) ==
    /\ audit[n] # "none" /\ Fault
    /\ audit' = [audit EXCEPT ![n] = "open"]
    /\ retried' = retried \cup {n}
    /\ UNCHANGED <<wake, rings, world, handling, pbx, sessions, acked, botched, finished>>

HandlerStep(h) ==
    \/ Log(h) \/ Pbx(h) \/ PbxError(h) \/ Session(h) \/ Create(h) \/ Find(h)
    \/ Cancel(h) \/ DbError(h) \/ Ack(h) \/ Finish(h)

TenantInit ==
    /\ seen = <<>>
    /\ doing = [h \in Handlers |-> 0]
    /\ todo = [h \in Handlers |-> <<>>]
    /\ found = [h \in Handlers |-> 0]
    /\ pbx = [x \in Extensions |->
                [name |-> "", mwi |-> FALSE, dnd |-> FALSE, mail |-> TRUE, alarm |-> FALSE]]
    /\ sessions = [r \in Rooms |-> 0]
    /\ audit = [n \in EventIds |-> "none"]
    /\ acked = {} /\ botched = {} /\ finished = {} /\ retried = {}
=============================================================================
