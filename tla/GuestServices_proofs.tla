------------------------ MODULE GuestServices_proofs ------------------------
(***************************************************************************)
(* Theorems about GuestServices, for any number of rows, events, batches,  *)
(* rooms and faults, and for any number of goroutines that handle events   *)
(* unless one is assumed to be the only one.                               *)
(***************************************************************************)
EXTENDS GuestServices, SequenceTheorems, FiniteSetTheorems, TLAPS

USE DEF world, scheduling, handling, tenancy, Fault, MayFail, CallMayFail, StatementRuns, Continue, GoOn, NextRow,
        Record, MarkWakeUp

----------------------------------------------------------------------------
(***************************************************************************)
(* The scripts: what handleEvent calls for each kind of event.             *)
(***************************************************************************)

\* The switch, case by case.
LEMMA CallsOfPlain ==
    ASSUME NEW e
    PROVE  /\ e.kind = "check_in" => Calls(e) = <<"name", "begin_session">>
           /\ e.kind = "check_out" => Calls(e) = CheckOutCalls
           /\ e.kind \in ReportedKinds => Calls(e) = <<e.kind>>
           /\ e.kind = "room_status" => Calls(e) = <<>>
<1>1. ASSUME e.kind = "check_in" PROVE Calls(e) = <<"name", "begin_session">>
  <2>1. e.kind # "check_out" /\ e.kind \notin ReportedKinds /\ e.kind # "room_status"
    BY <1>1 DEF ReportedKinds
  <2>2. QED
    BY <1>1, <2>1, Zenon DEF Calls
<1>2. ASSUME e.kind = "check_out" PROVE Calls(e) = CheckOutCalls
  <2>1. e.kind # "check_in" /\ e.kind \notin ReportedKinds /\ e.kind # "room_status"
    BY <1>2 DEF ReportedKinds
  <2>2. QED
    BY <1>2, <2>1, Zenon DEF Calls
<1>3. ASSUME e.kind \in ReportedKinds PROVE Calls(e) = <<e.kind>>
  <2>1. e.kind # "check_in" /\ e.kind # "check_out" /\ e.kind # "room_status"
    BY <1>3 DEF ReportedKinds
  <2>2. QED
    BY <1>3, <2>1, Zenon DEF Calls
<1>4. ASSUME e.kind = "room_status" PROVE Calls(e) = <<>>
  <2>1. e.kind # "check_in" /\ e.kind # "check_out" /\ e.kind \notin ReportedKinds
    BY <1>4 DEF ReportedKinds
  <2>2. QED
    BY <1>4, <2>1, Zenon DEF Calls
<1>5. QED
  BY <1>1, <1>2, <1>3, <1>4

\* The wake-up events, whose time matters.
LEMMA CallsOfWakeUp ==
    ASSUME NEW e \in Events
    PROVE  /\ e.kind \in TimedKinds /\ e.at = BadTime => Calls(e) = <<>>
           /\ e.kind = "wake_set" /\ e.at # BadTime => Calls(e) = <<"alarm_on", "create">>
           /\ e.kind = "wake_clear" /\ e.at = NoTime => Calls(e) = <<"alarm_off">>
           /\ e.kind = "wake_clear" /\ e.at \in Times
                => Calls(e) = <<"alarm_off", "find", "cancel">>
           /\ e.kind = "wake_clearall" => Calls(e) = <<"alarm_off", "cancel_all">>
<1>1. /\ NoTime # BadTime /\ NoTime \notin Times /\ BadTime \notin Times
  BY WakeUpAssumption DEF NoTime, BadTime, Times
<1>2. e.kind \in TimedKinds \cup {"wake_clearall"} => Calls(e) = WakeUpCallsOf(e)
  BY Zenon DEF Calls, ReportedKinds, TimedKinds
<1>3. e.kind = "wake_clearall" => e.at = NoTime
  BY DEF Events, TimedKinds
<1>4. ASSUME e.kind \in TimedKinds, e.at = BadTime PROVE WakeUpCallsOf(e) = <<>>
  <2>1. /\ ~ (e.kind = "wake_set" /\ e.at # BadTime)
        /\ ~ (e.kind = "wake_clear" /\ e.at = NoTime)
        /\ ~ (e.kind = "wake_clear" /\ e.at \in Times)
        /\ ~ (e.kind = "wake_clearall")
    BY <1>1, <1>4 DEF TimedKinds
  <2>2. e.at = BadTime
    BY <1>4
  <2>3. QED
    BY <2>1, <2>2, Zenon DEF WakeUpCallsOf
<1>5. ASSUME e.kind = "wake_set", e.at # BadTime PROVE WakeUpCallsOf(e) = <<"alarm_on", "create">>
  <2>1. e.kind # "wake_clear" /\ e.kind # "wake_clearall"
    BY <1>1, <1>3, <1>5
  <2>2. QED
    BY <1>5, <2>1, Zenon DEF WakeUpCallsOf
<1>6. ASSUME e.kind = "wake_clear", e.at = NoTime PROVE WakeUpCallsOf(e) = <<"alarm_off">>
  <2>1. e.kind # "wake_set" /\ e.kind # "wake_clearall" /\ e.at # BadTime /\ e.at \notin Times
    BY <1>1, <1>3, <1>6
  <2>2. QED
    BY <1>6, <2>1, Zenon DEF WakeUpCallsOf
<1>7. ASSUME e.kind = "wake_clear", e.at \in Times PROVE WakeUpCallsOf(e) = <<"alarm_off", "find", "cancel">>
  <2>1. e.kind # "wake_set" /\ e.kind # "wake_clearall" /\ e.at # BadTime /\ e.at # NoTime
    BY <1>1, <1>3, <1>7
  <2>2. QED
    BY <1>7, <2>1, Zenon DEF WakeUpCallsOf
<1>8. ASSUME e.kind = "wake_clearall" PROVE WakeUpCallsOf(e) = <<"alarm_off", "cancel_all">>
  <2>1. e.kind # "wake_set" /\ e.kind # "wake_clear" /\ e.at # BadTime
    BY <1>1, <1>3, <1>8
  <2>2. QED
    BY <1>8, <2>1, Zenon DEF WakeUpCallsOf
<1>9. QED
  BY <1>2, <1>4, <1>5, <1>6, <1>7, <1>8 DEF TimedKinds

\* The kinds there are.
LEMMA KindsOfEvents ==
    ASSUME NEW e \in Events
    PROVE  /\ e.room \in Rooms
           /\ e.at \in Times \cup {NoTime, BadTime}
           /\ \/ e.kind \in {"check_in", "check_out", "room_status", "wake_clearall"}
              \/ e.kind \in ReportedKinds
              \/ e.kind \in TimedKinds
BY DEF Events, PlainKinds, ReportedKinds, EventTimes

\* A look-up and the cancellation of what it finds come in pairs.
Paired(s) ==
    \A k \in 1..Len(s) :
        /\ s[k] = "find" => k < Len(s) /\ s[k + 1] = "cancel"
        /\ s[k] = "cancel" /\ k > 1 => s[k - 1] = "find"

\* What the handler of an event may ever call.
MayCall(e) ==
    {"log", "ack", "processed", "failed"} \cup {Calls(e)[k] : k \in 1..Len(Calls(e))}

\* The names, each one.
LEMMA Names ==
    /\ "name" \in CallNames /\ "unname" \in CallNames /\ "rename" \in CallNames
    /\ "mwi_on" \in CallNames /\ "mwi_off" \in CallNames
    /\ "dnd_on" \in CallNames /\ "dnd_off" \in CallNames
    /\ "purge_mail" \in CallNames /\ "alarm_on" \in CallNames /\ "alarm_off" \in CallNames
    /\ "begin_session" \in CallNames /\ "end_session" \in CallNames
    /\ "create" \in CallNames /\ "find" \in CallNames
    /\ "cancel" \in CallNames /\ "cancel_all" \in CallNames
    /\ "log" \in CallNames /\ "ack" \in CallNames
    /\ "processed" \in CallNames /\ "failed" \in CallNames
BY DEF CallNames, PbxCalls, DbCalls

\* The calls of an event are a sequence, in which no cancellation comes first.
LEMMA CallsShape ==
    ASSUME NEW e \in Events
    PROVE  /\ Calls(e) \in Seq(CallNames)
           /\ Paired(Calls(e))
           /\ Len(Calls(e)) > 0 => Calls(e)[1] # "cancel"
<1> DEFINE Fine(s) == s \in Seq(CallNames) /\ Paired(s) /\ (Len(s) > 0 => s[1] # "cancel")
<1>1. Fine(<<"name", "begin_session">>)
  BY Names DEF Paired
<1>2. Fine(CheckOutCalls)
  BY Names DEF Paired, CheckOutCalls
<1>3. ASSUME e.kind \in ReportedKinds PROVE Fine(<<e.kind>>)
  BY <1>3, Names DEF Paired, ReportedKinds
<1>4. Fine(<<>>)
  BY Names DEF Paired
<1>5. Fine(<<"alarm_on", "create">>) /\ Fine(<<"alarm_off">>)
  BY Names DEF Paired
<1>6. Fine(<<"alarm_off", "find", "cancel">>)
  BY Names DEF Paired
<1>7. Fine(<<"alarm_off", "cancel_all">>)
  BY Names DEF Paired
<1> HIDE DEF Fine
<1>8. Fine(Calls(e))
  BY <1>1, <1>2, <1>3, <1>4, <1>5, <1>6, <1>7, CallsOfPlain, CallsOfWakeUp, KindsOfEvents
     DEF TimedKinds
<1>9. QED
  BY <1>8 DEF Fine

\* So is its script, which begins with the audit log.
LEMMA ScriptShape ==
    ASSUME NEW e \in Events
    PROVE  /\ Script(e) \in Seq(CallNames) /\ Len(Script(e)) = Len(Calls(e)) + 3
           /\ Script(e)[1] = "log"
           /\ \A k \in 1..Len(Calls(e)) : Script(e)[k + 1] = Calls(e)[k]
           /\ Script(e)[Len(Calls(e)) + 2] = "ack"
           /\ Script(e)[Len(Calls(e)) + 3] = "processed"
<1> DEFINE c == Calls(e)
           first == <<"log">> \o c
           last == <<"ack", "processed">>
<1>1. c \in Seq(CallNames) /\ <<"log">> \in Seq(CallNames) /\ last \in Seq(CallNames)
  BY CallsShape, Names
<1> HIDE DEF c
<1>2. /\ first \in Seq(CallNames) /\ Len(first) = Len(c) + 1
      /\ \A k \in 1..Len(first) : first[k] = IF k <= 1 THEN "log" ELSE c[k - 1]
  <2>1. Len(<<"log">>) = 1 /\ <<"log">>[1] = "log"
    OBVIOUS
  <2>2. /\ first \in Seq(CallNames) /\ Len(first) = Len(<<"log">>) + Len(c)
        /\ \A k \in 1..(Len(<<"log">>) + Len(c)) :
              first[k] = IF k <= Len(<<"log">>) THEN <<"log">>[k] ELSE c[k - Len(<<"log">>)]
    BY <1>1, ConcatProperties
  <2>3. Len(c) \in Nat
    BY <1>1
  <2>4. QED
    BY <2>1, <2>2, <2>3
<1> HIDE DEF first
<1>3. /\ first \o last \in Seq(CallNames) /\ Len(first \o last) = Len(c) + 3
      /\ \A k \in 1..(Len(c) + 3) :
            (first \o last)[k] = IF k <= Len(c) + 1 THEN first[k] ELSE last[k - Len(c) - 1]
  <2>1. Len(last) = 2 /\ Len(c) \in Nat
    BY <1>1
  <2>2. /\ first \o last \in Seq(CallNames) /\ Len(first \o last) = Len(first) + Len(last)
        /\ \A k \in 1..(Len(first) + Len(last)) :
              (first \o last)[k] = IF k <= Len(first) THEN first[k] ELSE last[k - Len(first)]
    BY <1>1, <1>2, ConcatProperties
  <2>3. QED
    BY <1>2, <2>1, <2>2
<1>4. Script(e) = first \o last
  BY DEF Script, first, c
<1>5. Len(c) \in Nat /\ last[1] = "ack" /\ last[2] = "processed"
  BY <1>1
<1> HIDE DEF last
<1>6. /\ Script(e) \in Seq(CallNames) /\ Len(Script(e)) = Len(c) + 3
      /\ Script(e)[1] = "log"
      /\ \A k \in 1..Len(c) : Script(e)[k + 1] = c[k]
      /\ Script(e)[Len(c) + 2] = "ack"
      /\ Script(e)[Len(c) + 3] = "processed"
  BY <1>2, <1>3, <1>4, <1>5
<1>7. QED
  BY <1>6 DEF c

\* What holds of the calls holds of the script.
LEMMA ScriptPaired ==
    ASSUME NEW e \in Events
    PROVE  /\ Paired(Script(e))
           /\ \A k \in 1..Len(Script(e)) : Script(e)[k] \in MayCall(e)
<1> DEFINE n == Len(Calls(e))
<1>1. n \in Nat
  BY CallsShape
<1>2. ASSUME NEW k \in 1..Len(Script(e))
      PROVE  \/ k = 1 /\ Script(e)[k] = "log"
             \/ k \in 2..(n + 1) /\ k - 1 \in 1..n /\ Script(e)[k] = Calls(e)[k - 1]
             \/ k = n + 2 /\ Script(e)[k] = "ack"
             \/ k = n + 3 /\ Script(e)[k] = "processed"
  BY <1>1, ScriptShape
<1>3. \A k \in 1..Len(Script(e)) : Script(e)[k] \in MayCall(e)
  BY <1>2 DEF MayCall
<1>4. ASSUME NEW k \in 1..Len(Script(e)), Script(e)[k] = "find"
      PROVE  k < Len(Script(e)) /\ Script(e)[k + 1] = "cancel"
  <2>1. k \in 2..(n + 1) /\ k - 1 \in 1..n /\ Calls(e)[k - 1] = "find"
    BY <1>2, <1>4
  <2>2. k - 1 < n /\ Calls(e)[k] = "cancel" /\ k \in 1..n
    BY <1>1, <2>1, CallsShape DEF Paired
  <2>3. QED
    BY <1>1, <2>2, ScriptShape
<1>5. ASSUME NEW k \in 1..Len(Script(e)), Script(e)[k] = "cancel", k > 1
      PROVE  Script(e)[k - 1] = "find"
  <2>1. k \in 2..(n + 1) /\ k - 1 \in 1..n /\ Calls(e)[k - 1] = "cancel"
    BY <1>2, <1>5
  <2>2. k - 1 > 1
    BY <1>1, <2>1, CallsShape
  <2>3. Calls(e)[k - 2] = "find" /\ k - 2 \in 1..n
    BY <1>1, <2>1, <2>2, CallsShape DEF Paired
  <2>4. Script(e)[k - 2 + 1] = Calls(e)[k - 2]
    BY <2>3, ScriptShape
  <2>5. k - 2 + 1 = k - 1
    OBVIOUS
  <2>6. QED
    BY <2>3, <2>4, <2>5
<1>6. QED
  BY <1>3, <1>4, <1>5 DEF Paired

\* Only a wake-up that is set, for a time that parses, is added to the table.
LEMMA WhoCreates ==
    ASSUME NEW e \in Events, "create" \in MayCall(e)
    PROVE  e.kind = "wake_set" /\ e.at \in Times \cup {NoTime}
<1>1. PICK k \in 1..Len(Calls(e)) : Calls(e)[k] = "create"
  BY DEF MayCall
<1>2. e.kind \notin {"check_in", "check_out", "room_status", "wake_clearall"}
  <2>1. e.kind # "check_in"
    BY <1>1, CallsOfPlain
  <2>2. e.kind # "check_out"
    BY <1>1, CallsOfPlain DEF CheckOutCalls
  <2>3. e.kind # "room_status"
    BY <1>1, CallsOfPlain
  <2>4. e.kind # "wake_clearall"
    BY <1>1, CallsOfWakeUp
  <2>5. QED
    BY <2>1, <2>2, <2>3, <2>4
<1>3. e.kind \notin ReportedKinds
  BY <1>1, CallsOfPlain DEF ReportedKinds
<1>4. ~ (e.kind \in TimedKinds /\ e.at = BadTime)
  BY <1>1, CallsOfWakeUp
<1>5. e.kind # "wake_clear"
  BY <1>1, <1>4, CallsOfWakeUp, KindsOfEvents DEF TimedKinds
<1>6. QED
  BY <1>2, <1>3, <1>4, <1>5, KindsOfEvents DEF TimedKinds

----------------------------------------------------------------------------
(***************************************************************************)
(* What goroutines still have to do.                                       *)
(***************************************************************************)
Scripts ==
    \A h \in Handlers :
        /\ doing[h] \in 0..Len(seen)
        /\ todo[h] # <<>> => doing[h] # 0
        /\ Paired(todo[h])
        /\ \A k \in 1..Len(todo[h]) : todo[h][k] \in MayCall(Event(h))
        /\ todo[h] # <<>> /\ Head(todo[h]) = "cancel" => found[h] \in CallIds

\* The scheduler has an outcome to record only of a row it has fetched.
Dispatching == outcome # "none" => batch # <<>>

\* A goroutine with something to do has an event to do it for.
LEMMA HasEvent ==
    ASSUME TypeOK, Scripts, NEW h \in Handlers, todo[h] # <<>>
    PROVE  /\ doing[h] \in 1..Len(seen) /\ doing[h] \in EventIds
           /\ Event(h) \in Events /\ Event(h).room \in Rooms /\ Ext(h) \in Extensions
           /\ Head(todo[h]) \in MayCall(Event(h)) /\ Head(todo[h]) = todo[h][1]
           /\ Len(todo[h]) \in Nat /\ Len(todo[h]) >= 1
           /\ Tail(todo[h]) \in Seq(CallNames)
<1>1. /\ doing[h] \in 1..Len(seen) /\ doing[h] \in EventIds
  BY DEF TypeOK, Scripts, EventIds
<1>2. Event(h) \in Events
  BY <1>1 DEF TypeOK, Event
<1>3. Event(h).room \in Rooms /\ Ext(h) \in Extensions
  BY <1>2, KindsOfEvents, TenantAssumption DEF Ext
<1>4. /\ todo[h] \in Seq(CallNames)
  BY DEF TypeOK
<1>5. /\ Head(todo[h]) = todo[h][1] /\ Len(todo[h]) \in Nat /\ Len(todo[h]) >= 1
      /\ Tail(todo[h]) \in Seq(CallNames)
  BY <1>4
<1>6. Head(todo[h]) \in MayCall(Event(h))
  BY <1>5 DEF Scripts
<1>7. QED
  BY <1>1, <1>2, <1>3, <1>5, <1>6

\* After a look-up comes the cancellation, so that two calls can be skipped.
LEMMA SkipsTwo ==
    ASSUME TypeOK, Scripts, NEW h \in Handlers, Calling(h, "find")
    PROVE  /\ Tail(todo[h]) # <<>> /\ Head(Tail(todo[h])) = "cancel"
           /\ Tail(Tail(todo[h])) \in Seq(CallNames)
<1>1. todo[h] \in Seq(CallNames) /\ todo[h] # <<>> /\ todo[h][1] = "find"
  BY DEF Calling, TypeOK
<1>2. 1 < Len(todo[h]) /\ todo[h][2] = "cancel"
  <2>1. 1 \in 1..Len(todo[h]) /\ 1 + 1 = 2
    BY <1>1
  <2>2. QED
    BY <1>1, <2>1 DEF Scripts, Paired
<1>3. /\ Tail(todo[h]) \in Seq(CallNames) /\ Len(Tail(todo[h])) = Len(todo[h]) - 1
      /\ Tail(todo[h])[1] = todo[h][2]
  BY <1>1, <1>2
<1> DEFINE s == Tail(todo[h])
<1> HIDE DEF s
<1>4. s \in Seq(CallNames) /\ Len(s) # 0 /\ s[1] = "cancel"
  BY <1>1, <1>2, <1>3 DEF s
<1>5. s # <<>> /\ Head(s) = "cancel" /\ Tail(s) \in Seq(CallNames)
  BY <1>4
<1>6. QED
  BY <1>5 DEF s

\* What follows the call that is made.
LEMMA TailOfScript ==
    ASSUME NEW s \in Seq(CallNames), s # <<>>
    PROVE  /\ Tail(s) \in Seq(CallNames) /\ Len(Tail(s)) = Len(s) - 1
           /\ \A k \in 1..Len(Tail(s)) : k + 1 \in 1..Len(s) /\ Tail(s)[k] = s[k + 1]
           /\ Paired(s) => Paired(Tail(s))
           /\ Paired(s) /\ Head(s) # "find" /\ Tail(s) # <<>> => Head(Tail(s)) # "cancel"
           /\ \A c : (\E k \in 1..Len(s) : s[k] = c) /\ c # Head(s)
                     => \E k \in 1..Len(Tail(s)) : Tail(s)[k] = c
<1>1. /\ Tail(s) \in Seq(CallNames) /\ Len(Tail(s)) = Len(s) - 1
      /\ Len(s) \in Nat /\ Len(s) >= 1 /\ Head(s) = s[1]
      /\ \A k \in 1..Len(Tail(s)) : k + 1 \in 1..Len(s) /\ Tail(s)[k] = s[k + 1]
  OBVIOUS
<1>2. ASSUME Paired(s), NEW k \in 1..Len(Tail(s))
      PROVE  /\ Tail(s)[k] = "find" => k < Len(Tail(s)) /\ Tail(s)[k + 1] = "cancel"
             /\ Tail(s)[k] = "cancel" /\ k > 1 => Tail(s)[k - 1] = "find"
  <2>1. k + 1 \in 1..Len(s) /\ Tail(s)[k] = s[k + 1]
    BY <1>1
  <2>2. ASSUME Tail(s)[k] = "find" PROVE k < Len(Tail(s)) /\ Tail(s)[k + 1] = "cancel"
    <3>1. k + 1 < Len(s) /\ s[k + 1 + 1] = "cancel"
      BY <1>2, <2>1, <2>2 DEF Paired
    <3>2. k < Len(Tail(s)) /\ k + 1 \in 1..Len(Tail(s))
      BY <1>1, <3>1
    <3>3. QED
      BY <1>1, <3>1, <3>2
  <2>3. ASSUME Tail(s)[k] = "cancel", k > 1 PROVE Tail(s)[k - 1] = "find"
    <3>1. s[k + 1 - 1] = "find" /\ k - 1 \in 1..Len(Tail(s)) /\ k - 1 + 1 = k /\ k + 1 - 1 = k
      BY <1>2, <2>1, <2>3 DEF Paired
    <3>2. QED
      BY <1>1, <3>1
  <2>4. QED
    BY <2>2, <2>3
<1>3. Paired(s) => Paired(Tail(s))
  BY <1>2 DEF Paired
<1>4. ASSUME Paired(s), Head(s) # "find", Tail(s) # <<>> PROVE Head(Tail(s)) # "cancel"
  <2>1. Len(s) >= 2 /\ Head(Tail(s)) = s[2]
    BY <1>1, <1>4
  <2>2. QED
    BY <1>1, <1>4, <2>1 DEF Paired
<1>5. ASSUME NEW c, NEW k \in 1..Len(s), s[k] = c, c # Head(s)
      PROVE  \E j \in 1..Len(Tail(s)) : Tail(s)[j] = c
  <2>1. k # 1 /\ k - 1 \in 1..Len(Tail(s)) /\ k - 1 + 1 = k
    BY <1>1, <1>5
  <2>2. QED
    BY <1>1, <1>5, <2>1
<1>6. QED
  BY <1>1, <1>3, <1>4, <1>5

----------------------------------------------------------------------------
(***************************************************************************)
(* Every action keeps every variable in its range.                         *)
(***************************************************************************)

\* A batch is made of rows of the table that are due, each of them once.
LEMMA BatchOfDue ==
    ASSUME NEW b \in GetDueWakeUpCalls(MaxBatchPerTick)
    PROVE  /\ b \in Seq(CallIds)
           /\ \A k \in 1..Len(b) : Pending(b[k])
           /\ \A k, l \in 1..Len(b) : k < l => b[k] # b[l]
<1>1. PICK n \in 0..MaxBatchPerTick : b \in [1..n -> Due]
  BY DEF GetDueWakeUpCalls
<1>2. \A k, l \in DOMAIN b : k < l => b[k] # b[l]
  BY DEF GetDueWakeUpCalls
<1>3. n \in Nat /\ Due \subseteq CallIds
  BY SchedulerAssumption DEF Due
<1>4. b \in [1..n -> CallIds]
  BY <1>1, <1>3
<1>5. b \in Seq(CallIds) /\ DOMAIN b = 1..Len(b) /\ Len(b) = n
  BY <1>3, <1>4
<1>6. \A k \in 1..Len(b) : Pending(b[k])
  BY <1>1, <1>5 DEF Due
<1>7. QED
  BY <1>2, <1>5, <1>6

\* The calls of the PBX keep a line a line.
LEMMA LineKept ==
    ASSUME NEW line \in Lines, NEW call \in PbxCalls
    PROVE  /\ After(call, line) \in Lines
           /\ call = "name" => After(call, line) = [line EXCEPT !.name = "guest"]
           /\ call = "unname" => After(call, line) = [line EXCEPT !.name = ""]
           /\ call = "rename" => After(call, line) = [line EXCEPT !.name = "renamed"]
           /\ call = "mwi_on" => After(call, line) = [line EXCEPT !.mwi = TRUE]
           /\ call = "mwi_off" => After(call, line) = [line EXCEPT !.mwi = FALSE]
           /\ call = "dnd_on" => After(call, line) = [line EXCEPT !.dnd = TRUE]
           /\ call = "dnd_off" => After(call, line) = [line EXCEPT !.dnd = FALSE]
           /\ call = "purge_mail" => After(call, line) = [line EXCEPT !.mail = FALSE]
           /\ call = "alarm_on" => After(call, line) = [line EXCEPT !.alarm = TRUE]
           /\ call = "alarm_off" => After(call, line) = [line EXCEPT !.alarm = FALSE]
<1>1. call = "name" => After(call, line) = [line EXCEPT !.name = "guest"]
  BY Zenon DEF After
<1>2. call = "unname" => After(call, line) = [line EXCEPT !.name = ""]
  BY Zenon DEF After
<1>3. call = "rename" => After(call, line) = [line EXCEPT !.name = "renamed"]
  BY Zenon DEF After
<1>4. call = "mwi_on" => After(call, line) = [line EXCEPT !.mwi = TRUE]
  BY Zenon DEF After
<1>5. call = "mwi_off" => After(call, line) = [line EXCEPT !.mwi = FALSE]
  BY Zenon DEF After
<1>6. call = "dnd_on" => After(call, line) = [line EXCEPT !.dnd = TRUE]
  BY Zenon DEF After
<1>7. call = "dnd_off" => After(call, line) = [line EXCEPT !.dnd = FALSE]
  BY Zenon DEF After
<1>8. call = "purge_mail" => After(call, line) = [line EXCEPT !.mail = FALSE]
  BY Zenon DEF After
<1>9. call = "alarm_on" => After(call, line) = [line EXCEPT !.alarm = TRUE]
  BY Zenon DEF After
<1>10. call = "alarm_off" => After(call, line) = [line EXCEPT !.alarm = FALSE]
  BY Zenon DEF After
<1>11. After(call, line) \in Lines
  BY <1>1, <1>2, <1>3, <1>4, <1>5, <1>6, <1>7, <1>8, <1>9, <1>10 DEF PbxCalls, Lines
<1>12. QED
  BY <1>1, <1>2, <1>3, <1>4, <1>5, <1>6, <1>7, <1>8, <1>9, <1>10, <1>11

\* A lamp, a name or a status takes one call.
LEMMA LampCalls ==
    ASSUME NEW e \in Events, e.kind \in ReportedKinds
    PROVE  MayCall(e) \subseteq {"log", "ack", "processed", "failed", e.kind}
<1>1. Calls(e) = <<e.kind>>
  BY CallsOfPlain
<1>2. QED
  BY <1>1 DEF MayCall

\* What an error of the PBX leaves to do.
LEMMA AfterErrorIs ==
    ASSUME TypeOK, Scripts, NEW h \in Handlers, NEW call \in PbxCalls, Calling(h, call)
    PROVE  \/ Event(h).kind \in ReportedKinds /\ AfterError(h) = <<"failed">>
           \/ /\ Event(h).kind \notin ReportedKinds /\ call = "alarm_on"
              /\ AfterError(h) = <<"ack", "processed">>
           \/ /\ Event(h).kind \notin ReportedKinds /\ call # "alarm_on"
              /\ AfterError(h) = Tail(todo[h])
<1>1. todo[h] # <<>> /\ Head(todo[h]) = call
  BY DEF Calling
<1>2. CASE Event(h).kind \in ReportedKinds
  <2>1. Head(todo[h]) # "alarm_on"
    BY <1>1, <1>2, HasEvent, LampCalls DEF ReportedKinds
  <2>2. AfterError(h) = <<"failed">>
    BY <1>2, <2>1, Zenon DEF AfterError
  <2>3. QED
    BY <1>2, <2>2
<1>3. CASE Event(h).kind \notin ReportedKinds /\ call = "alarm_on"
  <2>1. AfterError(h) = <<"ack", "processed">>
    BY <1>1, <1>3, Zenon DEF AfterError
  <2>2. QED
    BY <1>3, <2>1
<1>4. CASE Event(h).kind \notin ReportedKinds /\ call # "alarm_on"
  <2>1. AfterError(h) = Tail(todo[h])
    BY <1>1, <1>4, Zenon DEF AfterError
  <2>2. QED
    BY <1>4, <2>1
<1>5. QED
  BY <1>2, <1>3, <1>4

\* What a call leaves to do: the rest, or the rest without the cancellation of what
\* was not found, or what an error leaves.
RunsOn(h) ==
    /\ UNCHANGED <<seen, doing>> /\ todo[h] # <<>>
    /\ \/ /\ todo' = [todo EXCEPT ![h] = Tail(todo[h])]
          /\ Head(todo[h]) = "find" => found'[h] \in CallIds
       \/ /\ todo' = [todo EXCEPT ![h] = Tail(Tail(todo[h]))]
          /\ Head(todo[h]) = "find"
       \/ /\ todo' = [todo EXCEPT ![h] = <<"failed">>]
          /\ Event(h).kind \in ReportedKinds /\ Head(todo[h]) \in PbxCalls
       \/ /\ todo' = [todo EXCEPT ![h] = <<"ack", "processed">>]
          /\ Head(todo[h]) = "alarm_on"

\* Every call but the last, and every error, does that.
LEMMA HandlerRunsOn ==
    ASSUME TypeOK, Scripts, NEW h \in Handlers, HandlerStep(h), ~ Finish(h)
    PROVE  /\ RunsOn(h)
           /\ \A g \in Handlers : g # h => found'[g] = found[g]
<1> DEFINE Goal == RunsOn(h) /\ \A g \in Handlers : g # h => found'[g] = found[g]
<1> USE DEF TypeOK, Calling
<1>1. ASSUME Log(h) PROVE Goal
  BY <1>1 DEF Log, RunsOn
<1>2. ASSUME Pbx(h) PROVE Goal
  BY <1>2 DEF Pbx, RunsOn, PbxCalls
<1>3. ASSUME PbxError(h) PROVE Goal
  <2>1. PICK call \in PbxCalls : Calling(h, call)
    BY <1>3 DEF PbxError
  <2>2. call # "find"
    BY DEF PbxCalls
  <2>3. /\ UNCHANGED <<seen, doing, found>> /\ todo' = [todo EXCEPT ![h] = AfterError(h)]
    BY <1>3 DEF PbxError
  <2>4. QED
    BY <2>1, <2>2, <2>3, AfterErrorIs DEF RunsOn
<1>4. ASSUME Session(h) PROVE Goal
  BY <1>4 DEF Session, RunsOn
<1>5. ASSUME Create(h) PROVE Goal
  BY <1>5 DEF Create, RunsOn
<1>6. ASSUME Find(h) PROVE Goal
  <2>1. FindPendingWakeUpCall(SearchedNumber(h)) \subseteq CallIds
    BY DEF FindPendingWakeUpCall
  <2>2. QED
    BY <1>6, <2>1 DEF Find, RunsOn
<1>7. ASSUME Cancel(h) PROVE Goal
  BY <1>7 DEF Cancel, RunsOn
<1>8. ASSUME DbError(h) PROVE Goal
  <2>1. todo[h] # <<>> /\ UNCHANGED <<seen, doing>> /\ found' = [found EXCEPT ![h] = 0]
        /\ todo' = [todo EXCEPT ![h] = IF Head(todo[h]) = "find" THEN Tail(Tail(todo[h]))
                                                                 ELSE Tail(todo[h])]
    BY <1>8 DEF DbError
  <2>2. CASE Head(todo[h]) = "find"
    BY <2>1, <2>2 DEF RunsOn
  <2>3. CASE Head(todo[h]) # "find"
    BY <2>1, <2>3 DEF RunsOn
  <2>4. QED
    BY <2>2, <2>3
<1>9. ASSUME Ack(h) PROVE Goal
  BY <1>9 DEF Ack, RunsOn
<1>10. QED
  BY <1>1, <1>2, <1>3, <1>4, <1>5, <1>6, <1>7, <1>8, <1>9 DEF HandlerStep

\* What is left to do is a sequence of calls.
LEMMA LeftToDo ==
    ASSUME TypeOK, Scripts, NEW h \in Handlers, RunsOn(h)
    PROVE  todo' \in [Handlers -> Seq(CallNames)] /\ todo'[h] \in Seq(CallNames)
<1>1. todo \in [Handlers -> Seq(CallNames)] /\ todo[h] # <<>>
  BY DEF TypeOK, RunsOn
<1>2. Tail(todo[h]) \in Seq(CallNames)
  BY <1>1
<1>3. Head(todo[h]) = "find" => Tail(Tail(todo[h])) \in Seq(CallNames)
  BY <1>1, SkipsTwo DEF Calling
<1>4. <<"failed">> \in Seq(CallNames) /\ <<"ack", "processed">> \in Seq(CallNames)
  BY Names
<1>5. QED
  BY <1>1, <1>2, <1>3, <1>4 DEF RunsOn

\* The statements keep the rows rows.
LEMMA RowsKeptTyped ==
    ASSUME wake \in [CallIds -> WakeRows]
    PROVE  /\ \A i \in CallIds, s \in {"originated", "failed"} : MarkWakeUp(i, s) => wake' \in [CallIds -> WakeRows]
           /\ \A x \in Extensions, t \in Times : CreateWakeUpCall(x, t) => wake' \in [CallIds -> WakeRows]
           /\ \A i \in CallIds : CancelWakeUpCall(i) => wake' \in [CallIds -> WakeRows]
           /\ \A x \in Extensions :
                CancelAllPendingWakeUpCallsForExtension(x) => wake' \in [CallIds -> WakeRows]
<1>1. ASSUME NEW i \in CallIds, NEW s \in {"originated", "failed"}, MarkWakeUp(i, s)
      PROVE  wake' \in [CallIds -> WakeRows]
  BY <1>1 DEF WakeRows, WakeStatuses
<1>2. ASSUME NEW x \in Extensions, NEW t \in Times, CreateWakeUpCall(x, t)
      PROVE  wake' \in [CallIds -> WakeRows]
  BY <1>2 DEF CreateWakeUpCall, WakeRows, WakeStatuses
<1>3. ASSUME NEW i \in CallIds, CancelWakeUpCall(i) PROVE wake' \in [CallIds -> WakeRows]
  BY <1>3 DEF CancelWakeUpCall, WakeRows, WakeStatuses
<1>4. ASSUME NEW x \in Extensions, CancelAllPendingWakeUpCallsForExtension(x)
      PROVE  wake' \in [CallIds -> WakeRows]
  <2>1. \A i \in CallIds : [wake[i] EXCEPT !.status = "cancelled"] \in WakeRows
    BY DEF WakeRows, WakeStatuses
  <2>2. QED
    BY <1>4, <2>1 DEF CancelAllPendingWakeUpCallsForExtension
<1>5. QED
  BY <1>1, <1>2, <1>3, <1>4

\* A step of the scheduler keeps the types.
LEMMA SchedulerTypes ==
    ASSUME TypeOK, Dispatching, Scheduler
    PROVE  TypeOK' /\ Dispatching'
<1> USE DEF TypeOK, Dispatching, Scheduler
<1>1. CASE Fetch
  BY <1>1, BatchOfDue DEF Fetch
<1>2. CASE Dispatch
  <2>1. Head(batch) \in CallIds
    BY <1>2 DEF Dispatch
  <2>2. /\ rings' = rings \/ rings' = [rings EXCEPT ![Head(batch)] = @ + 1]
        /\ outcome' = "failed" \/ outcome' = "originated"
        /\ faults' = faults \/ faults' = faults + 1
        /\ batch # <<>>
        /\ UNCHANGED <<wake, now, life, tenant, batch, handling, tenancy>>
    BY <1>2 DEF Dispatch
  <2>3. rings' \in [CallIds -> Nat]
    <3>1. rings' = rings \/ rings' = [rings EXCEPT ![Head(batch)] = rings[Head(batch)] + 1]
      BY <2>2
    <3>2. rings \in [CallIds -> Nat] /\ rings[Head(batch)] + 1 \in Nat
      BY <2>1
    <3>3. QED
      BY <3>1, <3>2
  <2>4. outcome' \in {"none", "originated", "failed"} /\ faults' \in Nat
    BY <2>2
  <2>5. batch' # <<>> /\ batch' \in Seq(CallIds)
    BY <2>2
  <2>6. now' \in Times /\ tenant' \in {"loaded", "leaving", "gone"} /\ life' \in {"running", "stopping", "down"}
    BY <2>2
  <2>7. wake' \in [CallIds -> WakeRows]
    BY <2>2
  <2>8. UNCHANGED <<handling, tenancy>>
    BY <2>2
  <2>9. QED
    BY <2>3, <2>4, <2>5, <2>6, <2>7, <2>8
<1>3. CASE Mark
  <2>1. Head(batch) \in CallIds /\ Tail(batch) \in Seq(CallIds) /\ outcome \in {"originated", "failed"}
    BY <1>3 DEF Mark
  <2>2. wake' \in [CallIds -> WakeRows]
    BY <1>3, <2>1, RowsKeptTyped DEF Mark
  <2>3. QED
    BY <1>3, <2>1, <2>2 DEF Mark
<1>4. CASE MarkError
  <2>1. Tail(batch) \in Seq(CallIds)
    BY <1>4 DEF MarkError
  <2>2. QED
    BY <1>4, <2>1 DEF MarkError
<1>5. QED
  BY <1>1, <1>2, <1>3, <1>4 DEF SchedulerStep

\* So does a step of the clock or of the process.
LEMMA ProcessTypes ==
    ASSUME TypeOK, Dispatching, Advance \/ Process
    PROVE  TypeOK' /\ Dispatching'
<1> USE DEF TypeOK, Dispatching
<1>1. CASE Advance
  BY <1>1, WakeUpAssumption DEF Advance, Times
<1>2. CASE Shutdown
  BY <1>2 DEF Shutdown
<1>3. CASE Down
  BY <1>3 DEF Down
<1>4. CASE Crash
  <2>1. <<>> \in Seq(CallIds) /\ <<>> \in Seq(CallNames) /\ 0 \in 0..MaxEvents /\ 0 \in 0..MaxCalls
    BY TenantAssumption, WakeUpAssumption
  <2>2. QED
    BY <1>4, <2>1 DEF Crash
<1>5. CASE Restart
  BY <1>5 DEF Restart
<1>6. CASE Unload
  <2>1. tenant' = "leaving" /\ faults' = faults + 1
    BY <1>6 DEF Unload
  <2>2. UNCHANGED <<wake, rings, now, life, scheduling, handling, tenancy>>
    BY <1>6 DEF Unload
  <2>3. tenant' \in {"loaded", "leaving", "gone"}
    BY <2>1, Zenon
  <2>4. faults' \in Nat
    BY <2>1
  <2>5. QED
    BY <2>2, <2>3, <2>4
<1>7. CASE Load
  BY <1>7 DEF Load
<1>8. CASE StopAll
  BY <1>8 DEF StopAll
<1>9. CASE Unloaded
  BY <1>9 DEF Unloaded
<1>10. QED
  BY <1>1, <1>2, <1>3, <1>4, <1>5, <1>6, <1>7, <1>8, <1>9 DEF Process

\* So does the arrival of an event.
LEMMA TakeTypes ==
    ASSUME TypeOK, Dispatching, NEW h \in Handlers, Take(h), UNCHANGED scheduling
    PROVE  TypeOK' /\ Dispatching'
<1> USE DEF TypeOK, Dispatching
<1>1. PICK e \in Inputs : seen' = Append(seen, e) /\ todo' = [todo EXCEPT ![h] = Script(e)]
  BY DEF Take
<1>2. e \in Events
  BY TenantAssumption
<1>3. Script(e) \in Seq(CallNames)
  BY <1>2, ScriptShape
<1>4. seen' \in Seq(Events) /\ Len(seen) + 1 \in 0..MaxEvents
  BY <1>1, <1>2, TenantAssumption DEF Take
<1>5. /\ doing' = [doing EXCEPT ![h] = Len(seen) + 1]
      /\ UNCHANGED <<wake, rings, world, faults, found, tenancy, scheduling>>
  BY DEF Take
<1>6. QED
  BY <1>1, <1>3, <1>4, <1>5

\* So does a call of a handler, or its end.
LEMMA HandlerTypes ==
    ASSUME TypeOK, Scripts, Dispatching, NEW h \in Handlers, HandlerStep(h), UNCHANGED scheduling
    PROVE  TypeOK' /\ Dispatching'
<1> DEFINE e == Event(h)
<1>1. todo[h] # <<>>
  BY DEF HandlerStep, Log, Pbx, PbxError, Session, Create, Find, Cancel, DbError, Ack, Finish, Calling
<1>2. /\ e.room \in Rooms /\ Ext(h) \in Extensions /\ doing[h] \in EventIds /\ e \in Events
      /\ Head(todo[h]) \in MayCall(e)
  BY <1>1, HasEvent
<1>3. ~ Finish(h) => todo' \in [Handlers -> Seq(CallNames)] /\ UNCHANGED <<seen, doing>>
  BY HandlerRunsOn, LeftToDo DEF RunsOn
<1>4. Dispatching' /\ UNCHANGED <<batch, outcome>>
  BY DEF Dispatching
<1>6. CASE Log(h)
  <2>1. /\ audit' = audit \/ audit' = [audit EXCEPT ![doing[h]] = "open"]
        /\ faults' = faults \/ faults' = faults + 1
        /\ UNCHANGED <<wake, rings, world, found, pbx, sessions, acked, botched, finished, retried>>
    BY <1>6 DEF Log
  <2>2. audit' \in [EventIds -> {"none", "open", "processed", "failed"}]
    BY <1>2, <2>1 DEF TypeOK
  <2>3. faults' \in Nat /\ acked' \subseteq EventIds
    BY <2>1 DEF TypeOK
  <2>4. ~ Finish(h)
    BY <1>6 DEF Log, Finish, Calling
  <2>5. QED
    BY <1>3, <1>4, <2>1, <2>2, <2>3, <2>4 DEF TypeOK
<1>7. CASE Pbx(h)
  <2>1. PICK call \in PbxCalls :
          Calling(h, call) /\ pbx' = [pbx EXCEPT ![Ext(h)] = After(call, pbx[Ext(h)])]
    BY <1>7 DEF Pbx
  <2>2. pbx' \in [Extensions -> Lines]
    BY <1>2, <2>1, LineKept DEF TypeOK
  <2>3. ~ Finish(h)
    BY <2>1 DEF Finish, Calling, PbxCalls
  <2>4. UNCHANGED <<wake, rings, world, faults, found, sessions, audit, acked, botched, finished, retried>>
    BY <1>7 DEF Pbx
  <2>5. QED
    BY <1>3, <1>4, <2>2, <2>3, <2>4 DEF TypeOK
<1>8. CASE PbxError(h)
  <2>1. PICK call \in PbxCalls : Calling(h, call)
                /\ \E line \in {pbx[Ext(h)], After(call, pbx[Ext(h)])} :
                     pbx' = [pbx EXCEPT ![Ext(h)] = line]
    BY <1>8 DEF PbxError
  <2>2. pbx' \in [Extensions -> Lines]
    <3>1. pbx[Ext(h)] \in Lines /\ pbx \in [Extensions -> Lines]
      BY <1>2 DEF TypeOK
    <3>2. After(call, pbx[Ext(h)]) \in Lines
      BY <3>1, LineKept
    <3>3. QED
      BY <2>1, <3>1, <3>2
  <2>3. ~ Finish(h)
    BY <2>1 DEF Finish, Calling, PbxCalls
  <2>4. /\ UNCHANGED <<wake, rings, world, found, sessions, audit, acked, finished, retried>>
        /\ botched' = botched \cup {doing[h]}
        /\ faults' = faults \/ faults' = faults + 1
    BY <1>8 DEF PbxError
  <2>5. botched' \subseteq EventIds /\ faults' \in Nat
    BY <1>2, <2>4 DEF TypeOK
  <2>6. QED
    BY <1>3, <1>4, <2>2, <2>3, <2>4, <2>5 DEF TypeOK
<1>9. CASE Session(h)
  <2>1. /\ \/ sessions' = [sessions EXCEPT ![e.room] = @ + 1]
           \/ sessions' = [sessions EXCEPT ![e.room] = 0]
        /\ UNCHANGED <<wake, rings, world, faults, found, pbx, audit, acked, botched, finished, retried>>
        /\ ~ Finish(h)
    BY <1>9 DEF Session, EndGuestSession, Finish, Calling
  <2>2. sessions' \in [Rooms -> Nat]
    <3>1. sessions \in [Rooms -> Nat] /\ sessions[e.room] + 1 \in Nat
      BY <1>2 DEF TypeOK
    <3>2. \/ sessions' = [sessions EXCEPT ![e.room] = sessions[e.room] + 1]
          \/ sessions' = [sessions EXCEPT ![e.room] = 0]
      BY <2>1
    <3>3. QED
      BY <3>1, <3>2
  <2>3. QED
    BY <1>3, <1>4, <2>1, <2>2 DEF TypeOK
<1>10. CASE Create(h)
  <2>1. e.at = NoTime \/ e.at \in Times
    BY <1>2, <1>10, WhoCreates DEF Create, Calling
  <2>2. CreateWakeUpCall(Ext(h), IF e.at = NoTime THEN 0 ELSE e.at)
    BY <1>10 DEF Create
  <2>3. 0 \in Times
    BY WakeUpAssumption DEF Times
  <2>4. wake' \in [CallIds -> WakeRows]
    BY <1>2, <2>1, <2>2, <2>3, RowsKeptTyped DEF TypeOK
  <2>5. UNCHANGED <<rings, world, faults, found, tenancy>> /\ ~ Finish(h)
    BY <1>10 DEF Create, Finish, Calling
  <2>6. QED
    BY <1>3, <1>4, <2>4, <2>5 DEF TypeOK
<1>11. CASE Find(h)
  <2>1. FindPendingWakeUpCall(SearchedNumber(h)) \subseteq 0..MaxCalls
    BY DEF FindPendingWakeUpCall, CallIds
  <2>2. found' \in [Handlers -> 0..MaxCalls]
    BY <1>11, <2>1 DEF Find, TypeOK
  <2>3. UNCHANGED <<wake, rings, world, faults, tenancy>> /\ ~ Finish(h)
    BY <1>11 DEF Find, Finish, Calling
  <2>4. QED
    BY <1>3, <1>4, <2>2, <2>3 DEF TypeOK
<1>12. CASE Cancel(h)
  <2>1. \/ Calling(h, "cancel") /\ CancelWakeUpCall(found[h])
        \/ CancelAllPendingWakeUpCallsForExtension(Ext(h))
    BY <1>12 DEF Cancel
  <2>2. Calling(h, "cancel") => found[h] \in CallIds
    BY <1>1 DEF Calling, Scripts
  <2>3. wake' \in [CallIds -> WakeRows]
    BY <1>2, <2>1, <2>2, RowsKeptTyped DEF TypeOK
  <2>4. /\ UNCHANGED <<rings, world, faults, tenancy>> /\ ~ Finish(h)
        /\ found' = [found EXCEPT ![h] = 0]
    BY <1>12 DEF Cancel, Finish, Calling
  <2>5. found' \in [Handlers -> 0..MaxCalls]
    BY <2>4, WakeUpAssumption DEF TypeOK
  <2>6. QED
    BY <1>3, <1>4, <2>3, <2>4, <2>5 DEF TypeOK
<1>13. CASE DbError(h)
  <2>1. /\ UNCHANGED <<wake, rings, world, pbx, sessions, audit, acked, finished, retried>>
        /\ botched' = botched \cup {doing[h]} /\ found' = [found EXCEPT ![h] = 0]
        /\ faults' = faults \/ faults' = faults + 1
        /\ ~ Finish(h)
    BY <1>13 DEF DbError, Finish, Calling, DbCalls
  <2>2. botched' \subseteq EventIds /\ faults' \in Nat
    BY <1>2, <2>1 DEF TypeOK
  <2>3. found' \in [Handlers -> 0..MaxCalls]
    BY <2>1, WakeUpAssumption DEF TypeOK
  <2>4. QED
    BY <1>3, <1>4, <2>1, <2>2, <2>3 DEF TypeOK
<1>14. CASE Ack(h)
  <2>1. /\ acked' = acked \/ acked' = acked \cup {doing[h]}
        /\ faults' = faults \/ faults' = faults + 1
        /\ UNCHANGED <<wake, rings, world, found, pbx, sessions, audit, botched, finished, retried>>
        /\ ~ Finish(h)
    BY <1>14 DEF Ack, Finish, Calling
  <2>2. acked' \subseteq EventIds /\ faults' \in Nat
    BY <1>2, <2>1 DEF TypeOK
  <2>3. QED
    BY <1>3, <1>4, <2>1, <2>2 DEF TypeOK
<1>15. CASE Finish(h)
  <2>1. PICK mark \in {"processed", "failed"} :
          audit' = audit \/ audit' = [audit EXCEPT ![doing[h]] = IF @ = "none" THEN @ ELSE mark]
    BY <1>15 DEF Finish
  <2>2. audit' \in [EventIds -> {"none", "open", "processed", "failed"}]
    BY <1>2, <2>1 DEF TypeOK
  <2>3. /\ doing' = [doing EXCEPT ![h] = 0] /\ todo' = [todo EXCEPT ![h] = <<>>]
        /\ finished' = finished \cup {doing[h]}
        /\ faults' = faults \/ faults' = faults + 1
        /\ UNCHANGED <<wake, rings, world, seen, found, pbx, sessions, acked, botched, retried>>
    BY <1>15 DEF Finish
  <2>4. finished' \subseteq EventIds /\ faults' \in Nat
    BY <1>2, <2>3 DEF TypeOK
  <2>5. <<>> \in Seq(CallNames) /\ 0 \in 0..MaxEvents
    BY TenantAssumption
  <2>6. doing' \in [Handlers -> 0..MaxEvents] /\ todo' \in [Handlers -> Seq(CallNames)]
    BY <2>3, <2>5 DEF TypeOK
  <2>7. QED
    BY <1>4, <2>2, <2>3, <2>4, <2>6 DEF TypeOK
<1>16. QED
  BY <1>4, <1>6, <1>7, <1>8, <1>9, <1>10, <1>11, <1>12, <1>13, <1>14, <1>15 DEF HandlerStep

\* Every step keeps every variable in its range.
LEMMA TypeStep ==
    ASSUME TypeOK, Scripts, Dispatching, [Next]_vars
    PROVE  TypeOK' /\ Dispatching'
<1>1. ASSUME NEW n \in EventIds, Retry(n) PROVE TypeOK' /\ Dispatching'
  <2>1. /\ audit' = [audit EXCEPT ![n] = "open"] /\ retried' = retried \cup {n}
        /\ faults' = faults + 1
        /\ UNCHANGED <<wake, rings, world, handling, pbx, sessions, acked, botched, finished, scheduling>>
    BY <1>1 DEF Retry, RetryEvent
  <2>2. audit' \in [EventIds -> {"none", "open", "processed", "failed"}]
    BY <2>1 DEF TypeOK
  <2>3. retried' \subseteq EventIds /\ faults' \in Nat
    BY <2>1 DEF TypeOK
  <2>4. QED
    BY <2>1, <2>2, <2>3 DEF TypeOK, Dispatching
<1>2. ASSUME UNCHANGED vars PROVE TypeOK' /\ Dispatching'
  BY <1>2 DEF vars, TypeOK, Dispatching
<1>3. ASSUME NEW h \in Handlers, Handle(h) PROVE TypeOK' /\ Dispatching'
  BY <1>3, TakeTypes, HandlerTypes DEF Handle
<1>4. QED
  BY <1>1, <1>2, <1>3, SchedulerTypes, ProcessTypes DEF Next

\* The steps as a handler sees them.
LEMMA HandlingCases ==
    ASSUME TypeOK, Scripts, [Next]_vars
    PROVE  \/ UNCHANGED handling
           \/ Crash
           \/ \E h \in Handlers : Take(h)
           \/ \E h \in Handlers : Finish(h)
           \/ \E h \in Handlers : /\ HandlerStep(h) /\ ~ Finish(h) /\ RunsOn(h)
                                  /\ \A g \in Handlers : g # h => found'[g] = found[g]
<1>1. ASSUME Scheduler PROVE UNCHANGED handling
  BY <1>1 DEF Scheduler
<1>2. ASSUME Advance PROVE UNCHANGED handling
  BY <1>2 DEF Advance
<1>3. ASSUME Process, ~ Crash PROVE UNCHANGED handling
  BY <1>3 DEF Process, Shutdown, Down, Restart, Unload, StopAll, Unloaded, Load
<1>4. ASSUME NEW n \in EventIds, Retry(n) PROVE UNCHANGED handling
  BY <1>4 DEF Retry, RetryEvent
<1>5. ASSUME UNCHANGED vars PROVE UNCHANGED handling
  BY <1>5 DEF vars
<1>6. ASSUME NEW h \in Handlers, Handle(h)
      PROVE  \/ Take(h) \/ Finish(h)
             \/ /\ HandlerStep(h) /\ ~ Finish(h) /\ RunsOn(h)
                /\ \A g \in Handlers : g # h => found'[g] = found[g]
  BY <1>6, HandlerRunsOn DEF Handle
<1>7. QED
  BY <1>1, <1>2, <1>3, <1>4, <1>5, <1>6 DEF Next

\* Every step leaves to every goroutine what its event still asks for.
LEMMA ScriptsStep ==
    ASSUME TypeOK, Scripts, [Next]_vars
    PROVE  Scripts'
<1> USE DEF TypeOK
<1>1. CASE UNCHANGED handling
  BY <1>1 DEF Scripts, Event
<1>2. CASE Crash
  <2>1. /\ \A h \in Handlers : doing'[h] = 0 /\ todo'[h] = <<>>
        /\ seen' = seen
    BY <1>2 DEF Crash
  <2>2. Paired(<<>>) /\ Len(<<>>) = 0
    BY DEF Paired
  <2>3. QED
    BY <2>1, <2>2 DEF Scripts
<1>3. ASSUME NEW h \in Handlers, Take(h) PROVE Scripts'
  <2>1. PICK e \in Inputs : seen' = Append(seen, e) /\ todo' = [todo EXCEPT ![h] = Script(e)]
    BY <1>3 DEF Take
  <2>2. e \in Events /\ doing' = [doing EXCEPT ![h] = Len(seen) + 1] /\ found' = found
    BY <1>3, TenantAssumption DEF Take
  <2>3. /\ Len(seen') = Len(seen) + 1 /\ seen'[Len(seen) + 1] = e
        /\ \A n \in 1..Len(seen) : seen'[n] = seen[n]
    BY <2>1, <2>2
  <2>4. ASSUME NEW g \in Handlers
        PROVE  /\ doing'[g] \in 0..Len(seen')
               /\ todo'[g] # <<>> => doing'[g] # 0
               /\ Paired(todo'[g])
               /\ \A k \in 1..Len(todo'[g]) : todo'[g][k] \in MayCall(Event(g)')
               /\ todo'[g] # <<>> /\ Head(todo'[g]) = "cancel" => found'[g] \in CallIds
    <3>1. CASE g = h
      <4>1. todo'[h] = Script(e) /\ Event(h)' = e /\ doing'[h] = Len(seen) + 1
        BY <2>1, <2>2, <2>3 DEF Event
      <4>2. /\ Paired(Script(e)) /\ \A k \in 1..Len(Script(e)) : Script(e)[k] \in MayCall(e)
        BY <2>2, ScriptPaired
      <4>3. Head(Script(e)) # "cancel"
        BY <2>2, ScriptShape, CallsShape
      <4>4. QED
        BY <2>3, <3>1, <4>1, <4>2, <4>3
    <3>2. CASE g # h
      <4>1. todo'[g] = todo[g] /\ doing'[g] = doing[g] /\ found'[g] = found[g]
        BY <2>1, <2>2, <3>2
      <4>2. todo[g] # <<>> => Event(g)' = Event(g)
        BY <2>3, <4>1 DEF Scripts, Event
      <4>3. todo[g] = <<>> => Len(todo[g]) = 0
        OBVIOUS
      <4>4. QED
        BY <2>3, <4>1, <4>2, <4>3 DEF Scripts
    <3>3. QED
      BY <3>1, <3>2
  <2>5. QED
    BY <2>4 DEF Scripts
<1>4. ASSUME NEW h \in Handlers, Finish(h) PROVE Scripts'
  <2>1. /\ doing' = [doing EXCEPT ![h] = 0] /\ todo' = [todo EXCEPT ![h] = <<>>]
        /\ UNCHANGED <<seen, found>>
    BY <1>4 DEF Finish
  <2>2. Paired(<<>>) /\ Len(<<>>) = 0
    BY DEF Paired
  <2>3. \A g \in Handlers : g # h => todo'[g] = todo[g] /\ Event(g)' = Event(g) /\ doing'[g] = doing[g]
    BY <2>1 DEF Event
  <2>4. todo'[h] = <<>> /\ doing'[h] = 0
    BY <2>1
  <2>5. QED
    BY <2>1, <2>2, <2>3, <2>4 DEF Scripts
<1>5. ASSUME NEW h \in Handlers, RunsOn(h), \A g \in Handlers : g # h => found'[g] = found[g]
      PROVE  Scripts'
  <2>1. /\ \A g \in Handlers : Event(g)' = Event(g) /\ doing'[g] = doing[g]
        /\ \A g \in Handlers : g # h => todo'[g] = todo[g]
        /\ todo[h] # <<>> /\ todo[h] \in Seq(CallNames) /\ seen' = seen
    BY <1>5 DEF RunsOn, Event
  <2> DEFINE s == todo[h]
             Good(t) == /\ Paired(t)
                        /\ \A k \in 1..Len(t) : t[k] \in MayCall(Event(h))
                        /\ t # <<>> /\ Head(t) = "cancel" => found'[h] \in CallIds
  <2>2. Paired(s) /\ \A k \in 1..Len(s) : s[k] \in MayCall(Event(h))
    BY DEF Scripts
  <2>3. Tail(s) \in Seq(CallNames) /\ Paired(Tail(s)) /\ \A k \in 1..Len(Tail(s)) : Tail(s)[k] \in MayCall(Event(h))
    BY <2>1, <2>2, TailOfScript
  <2>4. ASSUME Head(s) = "find" => found'[h] \in CallIds PROVE Good(Tail(s))
    BY <2>1, <2>2, <2>3, <2>4, TailOfScript
  <2>5. ASSUME Head(s) = "find" PROVE Good(Tail(Tail(s)))
    <3>1. Tail(s) # <<>> /\ Head(Tail(s)) = "cancel" /\ Tail(Tail(s)) \in Seq(CallNames)
      BY <2>1, <2>5, SkipsTwo DEF Calling
    <3>2. /\ Paired(Tail(Tail(s)))
          /\ \A k \in 1..Len(Tail(Tail(s))) : Tail(Tail(s))[k] \in MayCall(Event(h))
          /\ Tail(Tail(s)) # <<>> => Head(Tail(Tail(s))) # "cancel"
      <4> DEFINE t == Tail(s)
      <4>1. /\ t \in Seq(CallNames) /\ t # <<>> /\ Head(t) # "find" /\ Paired(t)
            /\ \A k \in 1..Len(t) : t[k] \in MayCall(Event(h))
        BY <2>3, <3>1
      <4> HIDE DEF t
      <4>2. /\ Paired(Tail(t)) /\ (Tail(t) # <<>> => Head(Tail(t)) # "cancel")
            /\ \A k \in 1..Len(Tail(t)) : k + 1 \in 1..Len(t) /\ Tail(t)[k] = t[k + 1]
        BY <4>1, TailOfScript
      <4>3. \A k \in 1..Len(Tail(t)) : Tail(t)[k] \in MayCall(Event(h))
        BY <4>1, <4>2
      <4>4. QED
        BY <4>2, <4>3 DEF t
    <3>3. QED
      BY <3>2
  <2>6. Good(<<"failed">>) /\ Good(<<"ack", "processed">>)
    BY DEF Paired, MayCall
  <2>7. Good(todo'[h])
    <3> HIDE DEF Good
    <3>1. QED
      BY <1>5, <2>1, <2>4, <2>5, <2>6 DEF RunsOn
  <2>8. QED
    BY <1>5, <2>1, <2>7 DEF Scripts
<1>6. QED
  BY <1>1, <1>2, <1>3, <1>4, <1>5, HandlingCases

\* What holds of every reachable state, whatever the goroutines that handle events.
GuestInv == TypeOK /\ Scripts /\ Dispatching

\* It holds of an empty table and an idle process.
LEMMA GuestInvInit == Init => GuestInv
<1> SUFFICES ASSUME Init PROVE GuestInv
  OBVIOUS
<1>1. /\ (CHOOSE x \in Extensions : TRUE) \in Extensions
      /\ 0 \in Times /\ 0 \in 0..MaxEvents /\ 0 \in 0..MaxCalls
  BY WakeUpAssumption, TenantAssumption DEF Times
<1>2. /\ wake \in [CallIds -> WakeRows] /\ rings \in [CallIds -> Nat]
      /\ now \in Times /\ tenant \in {"loaded", "leaving", "gone"} /\ faults \in Nat /\ life = "running"
  <2>1. tenant \in {"loaded", "leaving", "gone"}
    BY Zenon DEF Init
  <2>2. [status |-> "absent", ext |-> CHOOSE x \in Extensions : TRUE, at |-> 0] \in WakeRows
    BY <1>1 DEF WakeRows, WakeStatuses
  <2>3. wake \in [CallIds -> WakeRows]
    BY <2>2 DEF Init
  <2>4. /\ rings = [i \in CallIds |-> 0] /\ now = 0 /\ faults = 0 /\ life = "running"
    BY Zenon DEF Init
  <2>5. QED
    BY <1>1, <2>1, <2>3, <2>4
<1>3. /\ batch \in Seq(CallIds) /\ outcome = "none" /\ seen \in Seq(Events)
  <2>1. batch = <<>> /\ outcome = "none" /\ seen = <<>>
    BY Zenon DEF Init, SchedulerInit, TenantInit
  <2>2. QED
    BY <2>1
<1>4. <<>> \in Seq(CallNames)
  OBVIOUS
<1>5. /\ doing \in [Handlers -> 0..MaxEvents] /\ todo \in [Handlers -> Seq(CallNames)]
      /\ found \in [Handlers -> 0..MaxCalls]
  BY <1>1, <1>4 DEF Init, TenantInit
<1>6. /\ pbx \in [Extensions -> Lines] /\ sessions \in [Rooms -> Nat]
  BY DEF Init, TenantInit, Lines
<1>7. /\ audit \in [EventIds -> {"none", "open", "processed", "failed"}]
      /\ acked \subseteq EventIds /\ botched \subseteq EventIds
      /\ finished \subseteq EventIds /\ retried \subseteq EventIds
  BY DEF Init, TenantInit
<1>8. TypeOK
  BY <1>2, <1>3, <1>5, <1>6, <1>7 DEF TypeOK
<1>9. Scripts
  <2>1. Paired(<<>>) /\ Len(<<>>) = 0
    BY DEF Paired
  <2>2. \A h \in Handlers : doing[h] = 0 /\ todo[h] = <<>>
    BY DEF Init, TenantInit
  <2>3. Len(seen) = 0
    BY DEF Init, TenantInit
  <2>4. QED
    BY <2>1, <2>2, <2>3 DEF Scripts
<1>10. QED
  BY <1>3, <1>8, <1>9 DEF GuestInv, Dispatching

\* Every step preserves it.
LEMMA GuestInvStep == GuestInv /\ [Next]_vars => GuestInv'
BY TypeStep, ScriptsStep DEF GuestInv

\* It holds in every reachable state.
LEMMA GuestInvInductive == Spec => []GuestInv
BY GuestInvInit, GuestInvStep, PTL DEF Spec

\* Every variable stays in its range; in particular no call of a script is taken for
\* another, and no event asks for a wake-up at a time that did not parse.
THEOREM TypeCorrect == Spec => []TypeOK
BY GuestInvInductive, PTL DEF GuestInv

----------------------------------------------------------------------------
(***************************************************************************)
(* Telephones ring once.                                                   *)
(***************************************************************************)

\* The row whose call has been made and is to be recorded.
Marking(i) == outcome # "none" /\ i = Head(batch)

\* A row that may yet ring without a fault has rung no more often than there were
\* faults. A shutdown pays in advance for what it will leave unrecorded.
RowPaid(i) ==
    /\ rings[i] <= 1 + faults
    /\ wake[i].status = "absent" => rings[i] = 0 /\ ~ Fetched(i)
    /\ ~ Marking(i) /\ (Pending(i) \/ Fetched(i)) => rings[i] <= faults
    /\ life = "stopping" /\ Fetched(i) /\ Marking(i) => rings[i] <= faults
    /\ life = "stopping" /\ Fetched(i) /\ ~ Marking(i) => rings[i] + 1 <= faults

RingsPaid ==
    /\ \A i \in CallIds : RowPaid(i)
    /\ \A k, l \in 1..Len(batch) : k < l => batch[k] # batch[l]
    /\ life = "down" => batch = <<>>

\* What handlers do to the table.
LEMMA HandlerRows ==
    ASSUME GuestInv, NEW h \in Handlers, Take(h) \/ HandlerStep(h)
    PROVE  /\ UNCHANGED <<rings, life>> /\ (faults' = faults \/ faults' = faults + 1)
           /\ \A i \in CallIds :
                \/ wake'[i] = wake[i]
                \/ wake[i].status = "absent"
                \/ /\ wake[i].status \in {"pending", "originated"}
                   /\ wake'[i].status = "cancelled"
<1> USE DEF GuestInv
<1>1. UNCHANGED <<rings, life>> /\ (faults' = faults \/ faults' = faults + 1)
  BY DEF Take, HandlerStep, Log, Pbx, PbxError, Session, Create, Find, Cancel, DbError, Ack, Finish
<1>2. ~ Create(h) /\ ~ Cancel(h) => UNCHANGED wake
  BY DEF Take, HandlerStep, Log, Pbx, PbxError, Session, Find, DbError, Ack, Finish
<1>3. ASSUME Create(h), NEW i \in CallIds PROVE wake'[i] = wake[i] \/ wake[i].status = "absent"
  BY <1>3 DEF Create, CreateWakeUpCall, TypeOK
<1>4. ASSUME Cancel(h), NEW i \in CallIds
      PROVE  \/ wake'[i] = wake[i]
             \/ /\ wake[i].status \in {"pending", "originated"}
                /\ wake'[i].status = "cancelled"
  <2>1. wake \in [CallIds -> WakeRows]
    BY DEF TypeOK
  <2>2. CASE CancelWakeUpCall(found[h])
    BY <2>1, <2>2 DEF CancelWakeUpCall, Cancellable, WakeRows
  <2>3. CASE CancelAllPendingWakeUpCallsForExtension(Ext(h))
    BY <2>1, <2>3 DEF CancelAllPendingWakeUpCallsForExtension, Cancellable, WakeRows
  <2>4. QED
    BY <1>4, <2>2, <2>3 DEF Cancel
<1>5. QED
  BY <1>1, <1>2, <1>3, <1>4

\* A batch that is worked off.
LEMMA TailOfBatch ==
    ASSUME TypeOK, batch # <<>>, batch' = Tail(batch), RingsPaid
    PROVE  /\ \A i : Fetched(i)' => Fetched(i) /\ i # Head(batch)
           /\ \A k, l \in 1..Len(batch') : k < l => batch'[k] # batch'[l]
           /\ Fetched(Head(batch)) /\ Head(batch) \in CallIds
<1>1. /\ batch \in Seq(CallIds) /\ Len(batch) \in Nat /\ Len(batch) >= 1
      /\ DOMAIN batch = 1..Len(batch) /\ Head(batch) = batch[1] /\ 1 \in 1..Len(batch)
  BY DEF TypeOK
<1>2. /\ batch' \in Seq(CallIds) /\ Len(batch') = Len(batch) - 1
      /\ DOMAIN batch' = 1..Len(batch')
      /\ \A k \in 1..Len(batch') : k + 1 \in 1..Len(batch) /\ batch'[k] = batch[k + 1]
  BY <1>1
<1>3. ASSUME NEW i, Fetched(i)' PROVE Fetched(i) /\ i # Head(batch)
  <2>1. PICK k \in 1..Len(batch') : batch'[k] = i
    BY <1>2, <1>3 DEF Fetched
  <2>2. k + 1 \in 1..Len(batch) /\ batch[k + 1] = i /\ 1 < k + 1
    BY <1>2, <2>1
  <2>3. QED
    BY <1>1, <2>2 DEF Fetched, RingsPaid
<1>4. ASSUME NEW k \in 1..Len(batch'), NEW l \in 1..Len(batch'), k < l
      PROVE  batch'[k] # batch'[l]
  <2>1. k + 1 \in 1..Len(batch) /\ l + 1 \in 1..Len(batch) /\ k + 1 < l + 1
    BY <1>2, <1>4
  <2>2. QED
    BY <1>2, <2>1 DEF RingsPaid
<1>5. QED
  BY <1>1, <1>3, <1>4 DEF Fetched

\* A step of the scheduler keeps every row's account.
LEMMA SchedulerPays ==
    ASSUME GuestInv, RingsPaid, Scheduler
    PROVE  RingsPaid'
<1> USE DEF GuestInv
<1>1. /\ rings \in [CallIds -> Nat] /\ faults \in Nat /\ batch \in Seq(CallIds)
      /\ wake \in [CallIds -> WakeRows] /\ life \in {"running", "stopping", "down"}
  BY DEF TypeOK
<1>2. CASE Fetch
  <2>1. /\ life = "running" /\ batch = <<>> /\ batch' \in GetDueWakeUpCalls(MaxBatchPerTick)
        /\ UNCHANGED <<wake, rings, life, faults, outcome>>
    BY <1>2 DEF Fetch
  <2>2. outcome = "none"
    BY <2>1 DEF Dispatching
  <2>3. /\ batch' \in Seq(CallIds) /\ DOMAIN batch' = 1..Len(batch')
        /\ \A k \in 1..Len(batch') : Pending(batch'[k])
        /\ \A k, l \in 1..Len(batch') : k < l => batch'[k] # batch'[l]
    BY <2>1, BatchOfDue
  <2>4. \A i \in CallIds : (Fetched(i)' => Pending(i)) /\ ~ Fetched(i) /\ ~ Marking(i) /\ ~ Marking(i)'
    BY <2>1, <2>2, <2>3 DEF Fetched, Marking
  <2>5. \A i \in CallIds : RowPaid(i)'
    BY <1>1, <2>1, <2>4 DEF RingsPaid, RowPaid, Pending
  <2>6. QED
    BY <2>1, <2>3, <2>5 DEF RingsPaid
<1>3. CASE Dispatch
  <2>1. /\ rings' = rings \/ rings' = [rings EXCEPT ![Head(batch)] = rings[Head(batch)] + 1]
        /\ outcome = "none" /\ outcome' # "none" /\ batch # <<>>
        /\ faults' = faults \/ faults' = faults + 1
        /\ UNCHANGED <<wake, life, batch>>
    BY <1>3 DEF Dispatch
  <2>2. Head(batch) \in CallIds /\ Fetched(Head(batch))
    <3>1. /\ Head(batch) = batch[1] /\ 1 \in DOMAIN batch /\ batch[1] \in CallIds
      BY <1>1, <2>1
    <3>2. QED
      BY <3>1 DEF Fetched
  <2>3. /\ \A i \in CallIds : Fetched(i)' = Fetched(i) /\ ~ Marking(i) /\ Pending(i)' = Pending(i)
        /\ \A i \in CallIds : Marking(i)' <=> i = Head(batch)
    BY <2>1 DEF Fetched, Marking, Pending
  <2>4. RowPaid(Head(batch))'
    <3>1. rings'[Head(batch)] \in Nat /\ rings'[Head(batch)] <= rings[Head(batch)] + 1
      BY <1>1, <2>1, <2>2
    <3>2. RowPaid(Head(batch)) /\ faults' \in Nat /\ faults' >= faults /\ rings[Head(batch)] \in Nat
      BY <1>1, <2>1, <2>2 DEF RingsPaid
    <3>3. QED
      BY <1>1, <2>1, <2>2, <2>3, <3>1, <3>2 DEF RowPaid
  <2>5. ASSUME NEW i \in CallIds, i # Head(batch) PROVE RowPaid(i)'
    <3>1. rings'[i] = rings[i] /\ rings[i] \in Nat
      BY <1>1, <2>1, <2>5
    <3>2. RowPaid(i) /\ faults' \in Nat /\ faults' >= faults
      BY <1>1, <2>1 DEF RingsPaid
    <3>3. QED
      BY <1>1, <2>1, <2>3, <2>5, <3>1, <3>2 DEF RowPaid
  <2>6. QED
    BY <2>1, <2>4, <2>5 DEF RingsPaid
<1>4. CASE Mark \/ MarkError
  <2>1. /\ outcome # "none" /\ batch' = Tail(batch) /\ outcome' = "none" /\ batch # <<>>
        /\ UNCHANGED <<rings, life>>
    BY <1>4 DEF Mark, MarkError, Dispatching
  <2>2. /\ \A i : Fetched(i)' => Fetched(i) /\ i # Head(batch)
        /\ \A k, l \in 1..Len(batch') : k < l => batch'[k] # batch'[l]
        /\ Fetched(Head(batch)) /\ Head(batch) \in CallIds
    BY <2>1, TailOfBatch
  <2>3. /\ \A i \in CallIds : ~ Marking(i)'
        /\ \A i \in CallIds : Marking(i) <=> i = Head(batch)
    BY <2>1 DEF Marking
  <2>4. life = "down" => batch' = <<>>
    BY <2>1 DEF RingsPaid
  <2>5. /\ faults' = faults \/ faults' = faults + 1
        /\ \A i \in CallIds : i # Head(batch) => wake'[i] = wake[i]
        /\ wake'[Head(batch)].status = "absent" => wake[Head(batch)].status = "absent"
        /\ wake'[Head(batch)].status = "pending" =>
             \/ life = "stopping"
             \/ life = "running" /\ faults' = faults + 1
    <3>1. CASE Mark
      <4>1. wake' = [wake EXCEPT ![Head(batch)].status = outcome] /\ outcome \in {"originated", "failed"}
        BY <2>1, <3>1 DEF Mark, TypeOK
      <4>2. /\ wake'[Head(batch)].status \in {"originated", "failed"} /\ faults' = faults
        BY <1>1, <2>2, <3>1, <4>1 DEF Mark, WakeRows
      <4>3. QED
        BY <1>1, <2>2, <4>1, <4>2 DEF Pending
    <3>2. CASE MarkError
      BY <3>2 DEF MarkError
    <3>3. QED
      BY <1>4, <3>1, <3>2
  <2>6. \A i \in CallIds : RowPaid(i)'
    <3>1. ASSUME NEW i \in CallIds, i = Head(batch) PROVE RowPaid(i)'
      <4>1. RowPaid(i) /\ rings'[i] = rings[i] /\ rings[i] \in Nat /\ faults' \in Nat
        BY <1>1, <2>1, <2>5 DEF RingsPaid
      <4>2. QED
        BY <1>1, <2>1, <2>2, <2>3, <2>5, <3>1, <4>1 DEF RowPaid, Pending
    <3>2. ASSUME NEW i \in CallIds, i # Head(batch) PROVE RowPaid(i)'
      <4>1. RowPaid(i) /\ rings'[i] = rings[i] /\ rings[i] \in Nat /\ faults' \in Nat
        BY <1>1, <2>1, <2>5 DEF RingsPaid
      <4>2. wake'[i] = wake[i] /\ Pending(i)' = Pending(i)
        BY <2>5, <3>2 DEF Pending
      <4>3. QED
        BY <1>1, <2>1, <2>2, <2>3, <2>5, <3>2, <4>1, <4>2 DEF RowPaid
    <3>3. QED
      BY <3>1, <3>2
  <2>7. QED
    BY <2>1, <2>2, <2>4, <2>6 DEF RingsPaid
<1>5. QED
  BY <1>2, <1>3, <1>4 DEF Scheduler, SchedulerStep

\* So does a step of the process.
LEMMA ProcessPays ==
    ASSUME GuestInv, RingsPaid, Advance \/ Process
    PROVE  RingsPaid'
<1>1. /\ rings \in [CallIds -> Nat] /\ faults \in Nat
  BY DEF GuestInv, TypeOK
<1>2. CASE Crash
  <2>1. /\ batch' = <<>> /\ outcome' = "none" /\ faults' = faults + 1
        /\ UNCHANGED <<wake, rings>> /\ life' = "down"
    BY <1>2 DEF Crash
  <2>2. \A i \in CallIds : ~ Fetched(i)'
    BY <2>1 DEF Fetched
  <2>3. ASSUME NEW i \in CallIds PROVE RowPaid(i)'
    <3>1. RowPaid(i) /\ rings'[i] = rings[i] /\ rings[i] \in Nat /\ wake'[i] = wake[i]
      BY <1>1, <2>1 DEF RingsPaid
    <3>2. QED
      BY <1>1, <2>1, <2>2, <3>1 DEF RowPaid
  <2>4. QED
    BY <2>1, <2>3 DEF RingsPaid
<1>3. CASE ~ Crash
  <2>1. /\ UNCHANGED <<wake, rings, batch, outcome>>
        /\ faults' = faults \/ faults' = faults + 1
        /\ life' = "stopping" => life = "stopping" \/ faults' = faults + 1
        /\ life' = "down" => batch = <<>>
    BY <1>3 DEF Advance, Process, Shutdown, Down, Restart, Unload, StopAll, Unloaded, Load, RingsPaid
  <2>2. \A i \in CallIds : Fetched(i)' = Fetched(i) /\ Marking(i)' = Marking(i) /\ Pending(i)' = Pending(i)
    BY <2>1 DEF Fetched, Marking, Pending
  <2>3. ASSUME NEW i \in CallIds PROVE RowPaid(i)'
    <3>1. RowPaid(i) /\ rings'[i] = rings[i] /\ rings[i] \in Nat /\ wake'[i] = wake[i]
      BY <1>1, <2>1 DEF RingsPaid
    <3>2. QED
      BY <1>1, <2>1, <2>2, <3>1 DEF RowPaid
  <2>4. QED
    BY <2>1, <2>3 DEF RingsPaid
<1>4. QED
  BY <1>2, <1>3

\* So does a step of a handler: a row that appears has never rung.
LEMMA HandlerPays ==
    ASSUME GuestInv, RingsPaid, NEW h \in Handlers, Handle(h)
    PROVE  RingsPaid'
<1>1. /\ rings \in [CallIds -> Nat] /\ faults \in Nat
  BY DEF GuestInv, TypeOK
<1>2. /\ UNCHANGED <<rings, life>> /\ (faults' = faults \/ faults' = faults + 1)
      /\ \A i \in CallIds :
           \/ wake'[i] = wake[i]
           \/ wake[i].status = "absent"
           \/ /\ wake[i].status \in {"pending", "originated"}
              /\ wake'[i].status = "cancelled"
  BY HandlerRows DEF Handle
<1>3. UNCHANGED <<batch, outcome>>
  BY DEF Handle
<1>4. \A i \in CallIds : Fetched(i)' = Fetched(i) /\ Marking(i)' = Marking(i)
  BY <1>3 DEF Fetched, Marking
<1>5. ASSUME NEW i \in CallIds PROVE RowPaid(i)'
  <2>1. RowPaid(i) /\ rings'[i] = rings[i] /\ rings[i] \in Nat
    BY <1>1, <1>2 DEF RingsPaid
  <2>2. QED
    BY <1>1, <1>2, <1>4, <2>1 DEF RowPaid, Pending
<1>6. QED
  BY <1>2, <1>3, <1>5 DEF RingsPaid

\* Every step does.
LEMMA RingsPaidStep == GuestInv /\ RingsPaid /\ [Next]_vars => RingsPaid'
<1> SUFFICES ASSUME GuestInv, RingsPaid, [Next]_vars PROVE RingsPaid'
  OBVIOUS
<1>1. ASSUME UNCHANGED <<wake, rings, batch, outcome, life>>, faults' = faults \/ faults' = faults + 1
      PROVE  RingsPaid'
  <2>1. \A i \in CallIds : Fetched(i)' = Fetched(i) /\ Marking(i)' = Marking(i) /\ Pending(i)' = Pending(i)
    BY <1>1 DEF Fetched, Marking, Pending
  <2>2. ASSUME NEW i \in CallIds PROVE RowPaid(i)'
    <3>1. RowPaid(i) /\ rings[i] \in Nat /\ faults \in Nat
      BY DEF GuestInv, TypeOK, RingsPaid
    <3>2. QED
      BY <1>1, <2>1, <3>1 DEF RowPaid
  <2>3. QED
    BY <1>1, <2>2 DEF RingsPaid
<1>2. ASSUME NEW n \in EventIds, Retry(n) PROVE RingsPaid'
  <2>1. UNCHANGED <<wake, rings, batch, outcome, life>> /\ faults' = faults + 1
    BY <1>2 DEF Retry, RetryEvent
  <2>2. QED
    BY <1>1, <2>1
<1>3. CASE UNCHANGED vars
  <2>1. UNCHANGED <<wake, rings, batch, outcome, life>> /\ faults' = faults
    BY <1>3 DEF vars
  <2>2. QED
    BY <1>1, <2>1
<1>4. QED
  BY <1>2, <1>3, SchedulerPays, ProcessPays, HandlerPays DEF Next

\* It holds of an empty table.
LEMMA RingsPaidInit == Init => RingsPaid
<1> SUFFICES ASSUME Init PROVE RingsPaid
  OBVIOUS
<1>1. /\ rings = [i \in CallIds |-> 0] /\ faults = 0 /\ life = "running"
      /\ batch = <<>> /\ outcome = "none"
  BY Zenon DEF Init, SchedulerInit
<1>2. Len(batch) = 0 /\ \A i \in CallIds : ~ Fetched(i) /\ ~ Marking(i)
  BY <1>1 DEF Fetched, Marking
<1>3. \A i \in CallIds : RowPaid(i)
  BY <1>1, <1>2 DEF RowPaid
<1>4. QED
  BY <1>1, <1>2, <1>3 DEF RingsPaid

\* In every reachable state, a telephone has rung for a row once, and once more for
\* each fault at most.
THEOREM RingsAreFew == Spec => []RingsOnce
<1>1. GuestInv /\ RingsPaid => RingsOnce
  BY DEF RingsPaid, RowPaid, RingsOnce
<1>2. QED
  BY <1>1, GuestInvInductive, RingsPaidInit, RingsPaidStep, PTL DEF Spec

\* A step leaves a cancelled row alone that the scheduler has not fetched.
StaysCancelled ==
    \A i \in CallIds :
        wake[i].status = "cancelled" /\ ~ Fetched(i) =>
            wake'[i] = wake[i] /\ rings'[i] = rings[i] /\ ~ Fetched(i)'

\* No step of the scheduler, a handler or the PBX does otherwise.
LEMMA CancelledStep == GuestInv /\ RingsPaid /\ [Next]_vars => StaysCancelled
<1> SUFFICES ASSUME GuestInv, RingsPaid, [Next]_vars,
                    NEW i \in CallIds, wake[i].status = "cancelled", ~ Fetched(i)
             PROVE  wake'[i] = wake[i] /\ rings'[i] = rings[i] /\ ~ Fetched(i)'
  BY DEF StaysCancelled
<1> USE DEF GuestInv
<1>1. /\ rings \in [CallIds -> Nat] /\ batch \in Seq(CallIds) /\ wake \in [CallIds -> WakeRows]
  BY DEF TypeOK
<1>2. CASE UNCHANGED <<wake, rings, batch>>
  BY <1>2 DEF Fetched
<1>3. CASE Fetch
  <2>1. UNCHANGED <<wake, rings>> /\ batch' \in GetDueWakeUpCalls(MaxBatchPerTick)
    BY <1>3 DEF Fetch
  <2>2. DOMAIN batch' = 1..Len(batch') /\ \A k \in 1..Len(batch') : Pending(batch'[k])
    BY <2>1, BatchOfDue
  <2>3. QED
    BY <2>1, <2>2 DEF Fetched, Pending
<1>4. CASE Dispatch
  <2>1. Head(batch) = batch[1] /\ 1 \in DOMAIN batch
    BY <1>1, <1>4 DEF Dispatch
  <2>2. i # Head(batch)
    BY <2>1 DEF Fetched
  <2>3. QED
    BY <1>1, <1>4, <2>2 DEF Dispatch, Fetched
<1>5. CASE Mark \/ MarkError
  <2>1. /\ batch' = Tail(batch) /\ batch # <<>> /\ rings' = rings
    BY <1>5 DEF Mark, MarkError, Dispatching
  <2>2. Fetched(Head(batch)) /\ (Fetched(i)' => Fetched(i))
    BY <2>1, TailOfBatch
  <2>3. wake'[i] = wake[i]
    BY <1>1, <1>5, <2>2 DEF Mark, MarkError
  <2>4. QED
    BY <2>1, <2>2, <2>3
<1>6. CASE Crash
  BY <1>6 DEF Crash, Fetched
<1>7. ASSUME NEW h \in Handlers, Handle(h)
      PROVE  wake'[i] = wake[i] /\ rings' = rings /\ batch' = batch
  BY <1>7, HandlerRows DEF Handle
<1>8. ASSUME Advance \/ Process \/ UNCHANGED vars \/ (\E n \in EventIds : Retry(n)), ~ Crash
      PROVE  UNCHANGED <<wake, rings, batch>>
  BY <1>8 DEF Advance, Process, Shutdown, Down, Restart, Unload, StopAll, Unloaded, Load, Retry, RetryEvent, vars
<1>9. QED
  BY <1>2, <1>3, <1>4, <1>5, <1>6, <1>7, <1>8 DEF Next, Scheduler, SchedulerStep, Fetched

\* A cancelled call stays cancelled and silent, unless the scheduler had fetched it.
THEOREM CancelledForGood == Spec => CancelIsFinal
<1>1. GuestInv /\ RingsPaid /\ [Next]_vars => [StaysCancelled]_vars
  BY CancelledStep
<1>2. CancelIsFinal <=> [][StaysCancelled]_vars
  BY PTL DEF CancelIsFinal, StaysCancelled
<1>3. QED
  BY <1>1, <1>2, GuestInvInductive, RingsPaidInit, RingsPaidStep, PTL DEF Spec

----------------------------------------------------------------------------
(***************************************************************************)
(* The audit log.                                                          *)
(***************************************************************************)

\* No event is handled twice; an event that was not taken or not finished is not
\* marked; a reported event of which the call failed can only be marked as failed.
AuditInv ==
    /\ \A g, h \in Handlers : doing[g] # 0 /\ doing[g] = doing[h] => g = h
    /\ botched \subseteq 1..Len(seen)
    /\ \A n \in EventIds : n > Len(seen) => audit[n] = "none"
    /\ \A h \in Handlers : doing[h] # 0 => audit[doing[h]] \in {"none", "open"}
    /\ \A n \in botched : seen[n].kind \in ReportedKinds =>
        /\ audit[n] # "processed"
        /\ \A h \in Handlers : doing[h] = n => todo[h] = <<"failed">>

\* It holds before the first event.
LEMMA AuditInvInit == Init => AuditInv
<1> SUFFICES ASSUME Init PROVE AuditInv
  OBVIOUS
<1>1. /\ seen = <<>> /\ botched = {} /\ doing = [h \in Handlers |-> 0]
      /\ audit = [n \in EventIds |-> "none"]
  BY Zenon DEF Init, TenantInit
<1>2. QED
  BY <1>1 DEF AuditInv

\* What a handler's step does to the log, and to what it has left to do.
LEMMA HandlerAudits ==
    ASSUME GuestInv, AuditInv, NEW h \in Handlers, HandlerStep(h), ~ Finish(h)
    PROVE  /\ UNCHANGED <<seen, doing>> /\ doing[h] \in 1..Len(seen) /\ doing[h] \in EventIds
           /\ \A g \in Handlers : g # h => todo'[g] = todo[g]
           /\ audit' = audit \/ audit' = [audit EXCEPT ![doing[h]] = "open"]
           /\ \/ botched' = botched
              \/ /\ botched' = botched \cup {doing[h]}
                 /\ Event(h).kind \in ReportedKinds => todo'[h] = <<"failed">>
           /\ Event(h).kind \in ReportedKinds => doing[h] \notin botched
<1> USE DEF GuestInv
<1>1. RunsOn(h)
  BY HandlerRunsOn
<1>2. /\ UNCHANGED <<seen, doing>> /\ todo[h] # <<>>
      /\ \A g \in Handlers : g # h => todo'[g] = todo[g]
  BY <1>1 DEF RunsOn, TypeOK
<1>3. doing[h] \in 1..Len(seen) /\ doing[h] \in EventIds /\ Event(h) \in Events
      /\ Head(todo[h]) \in MayCall(Event(h))
  BY <1>2, HasEvent
<1>4. audit' = audit \/ audit' = [audit EXCEPT ![doing[h]] = "open"]
  BY DEF HandlerStep, Log, Pbx, PbxError, Session, Create, Find, Cancel, DbError, Ack
<1>5. \/ botched' = botched
      \/ /\ botched' = botched \cup {doing[h]}
         /\ Event(h).kind \in ReportedKinds => todo'[h] = <<"failed">>
  <2>1. CASE PbxError(h)
    <3>1. PICK call \in PbxCalls : Calling(h, call)
      BY <2>1 DEF PbxError
    <3>2. todo' = [todo EXCEPT ![h] = AfterError(h)] /\ botched' = botched \cup {doing[h]}
      BY <2>1 DEF PbxError
    <3>3. todo'[h] = AfterError(h)
      BY <3>2 DEF TypeOK
    <3>4. QED
      BY <3>1, <3>2, <3>3, AfterErrorIs
  <2>2. CASE DbError(h)
    <3>1. Head(todo[h]) \in DbCalls /\ botched' = botched \cup {doing[h]}
      BY <2>2 DEF DbError, Calling
    <3>2. Event(h).kind \notin ReportedKinds
      <4>1. SUFFICES ASSUME Event(h).kind \in ReportedKinds PROVE FALSE
        OBVIOUS
      <4>2. Head(todo[h]) \in {"log", "ack", "processed", "failed", Event(h).kind}
        BY <1>3, <4>1, LampCalls
      <4>3. QED
        BY <3>1, <4>1, <4>2 DEF DbCalls, ReportedKinds
    <3>3. QED
      BY <3>1, <3>2
  <2>3. CASE ~ PbxError(h) /\ ~ DbError(h)
    BY <2>3 DEF HandlerStep, Log, Pbx, Session, Create, Find, Cancel, Ack
  <2>4. QED
    BY <2>1, <2>2, <2>3
<1>6. Event(h).kind \in ReportedKinds => doing[h] \notin botched
  <2>1. SUFFICES ASSUME Event(h).kind \in ReportedKinds, doing[h] \in botched PROVE FALSE
    OBVIOUS
  <2>2. todo[h] = <<"failed">>
    BY <2>1 DEF AuditInv, Event
  <2>3. Head(todo[h]) = "failed"
    BY <2>2
  <2>4. QED
    BY <2>3 DEF HandlerStep, Log, Pbx, PbxError, Session, Create, Find, Cancel, DbError, Ack,
                Calling, PbxCalls, DbCalls
<1>7. QED
  BY <1>2, <1>3, <1>4, <1>5, <1>6

\* Every step keeps the log true.
LEMMA AuditInvStep == GuestInv /\ AuditInv /\ [Next]_vars => AuditInv'
<1> SUFFICES ASSUME GuestInv, AuditInv, [Next]_vars PROVE AuditInv'
  OBVIOUS
<1> USE DEF GuestInv
<1>1. /\ audit \in [EventIds -> {"none", "open", "processed", "failed"}]
      /\ doing \in [Handlers -> 0..MaxEvents] /\ todo \in [Handlers -> Seq(CallNames)]
      /\ seen \in Seq(Events) /\ Len(seen) \in Nat
      /\ \A h \in Handlers : doing[h] \in 0..Len(seen)
  BY DEF TypeOK, Scripts
<1>2. CASE UNCHANGED <<seen, doing, todo, audit, botched>>
  BY <1>2 DEF AuditInv
<1>3. CASE Crash
  <2>1. UNCHANGED <<seen, audit, botched>> /\ \A h \in Handlers : doing'[h] = 0
    BY <1>3 DEF Crash
  <2>2. \A n \in botched : n # 0
    BY <1>1 DEF AuditInv
  <2>3. QED
    BY <2>1, <2>2 DEF AuditInv
<1>4. ASSUME NEW n \in EventIds, Retry(n) PROVE AuditInv'
  <2>1. /\ audit' = [audit EXCEPT ![n] = "open"] /\ audit[n] # "none"
        /\ UNCHANGED <<seen, doing, todo, botched>>
    BY <1>4 DEF Retry, RetryEvent
  <2>2. \A m \in EventIds : audit'[m] = audit[m] \/ (m = n /\ audit'[m] = "open")
    BY <1>1, <2>1
  <2>3. \A h \in Handlers : doing[h] # 0 => doing[h] \in EventIds
    BY <1>1 DEF EventIds
  <2>4. botched \subseteq EventIds
    BY DEF TypeOK
  <2>5. QED
    BY <2>1, <2>2, <2>3, <2>4 DEF AuditInv
<1>5. ASSUME NEW h \in Handlers, Take(h) PROVE AuditInv'
  <2>1. PICK e \in Inputs : seen' = Append(seen, e)
    BY <1>5 DEF Take
  <2>2. /\ Len(seen') = Len(seen) + 1 /\ \A n \in 1..Len(seen) : seen'[n] = seen[n]
    BY <1>1, <2>1, TenantAssumption
  <2>3. /\ doing' = [doing EXCEPT ![h] = Len(seen) + 1] /\ UNCHANGED <<audit, botched>>
        /\ Len(seen) < MaxEvents /\ \A g \in Handlers : g # h => todo'[g] = todo[g]
    BY <1>1, <1>5 DEF Take
  <2>4. \A g \in Handlers : IF g = h THEN doing'[g] = Len(seen) + 1 ELSE doing'[g] = doing[g]
    BY <1>1, <2>3
  <2>5. Len(seen) + 1 \in EventIds /\ audit[Len(seen) + 1] = "none"
    BY <1>1, <2>3, TenantAssumption DEF EventIds, AuditInv
  <2>6. \A f, g \in Handlers : doing'[g] # 0 /\ doing'[f] = doing'[g] => f = g
    BY <1>1, <2>4 DEF AuditInv
  <2>7. botched' \subseteq 1..Len(seen') /\ \A n \in EventIds : n > Len(seen') => audit'[n] = "none"
    <3>1. botched \subseteq 1..Len(seen) /\ 1..Len(seen) \subseteq 1..Len(seen')
      BY <1>1, <2>2 DEF AuditInv
    <3>2. \A n \in EventIds : n > Len(seen') => n > Len(seen)
      BY <1>1, <2>2, TenantAssumption DEF EventIds
    <3>3. QED
      BY <2>3, <3>1, <3>2 DEF AuditInv
  <2>8. \A g \in Handlers : doing'[g] # 0 => audit'[doing'[g]] \in {"none", "open"}
    BY <2>3, <2>4, <2>5 DEF AuditInv
  <2>9. ASSUME NEW n \in botched, seen'[n].kind \in ReportedKinds
        PROVE  /\ audit'[n] # "processed"
               /\ \A g \in Handlers : doing'[g] = n => todo'[g] = <<"failed">>
    <3>1. n \in 1..Len(seen) /\ n # Len(seen) + 1 /\ seen[n].kind \in ReportedKinds
      BY <1>1, <2>2, <2>9 DEF AuditInv
    <3>2. QED
      BY <2>3, <2>4, <3>1 DEF AuditInv
  <2>10. QED
    BY <2>3, <2>6, <2>7, <2>8, <2>9 DEF AuditInv
<1>6. ASSUME NEW h \in Handlers, Finish(h) PROVE AuditInv'
  <2>1. PICK mark \in {"processed", "failed"} :
          /\ Calling(h, mark)
          /\ audit' = audit \/ audit' = [audit EXCEPT ![doing[h]] = IF @ = "none" THEN @ ELSE mark]
    BY <1>6 DEF Finish
  <2>2. /\ doing' = [doing EXCEPT ![h] = 0] /\ todo' = [todo EXCEPT ![h] = <<>>]
        /\ UNCHANGED <<seen, botched>>
    BY <1>6 DEF Finish
  <2>3. doing[h] \in 1..Len(seen) /\ doing[h] \in EventIds
    BY <2>1, HasEvent DEF Calling
  <2>4. \A n \in EventIds : /\ n # doing[h] => audit'[n] = audit[n]
                            /\ audit'[n] \in {audit[n], mark}
    BY <1>1, <2>1
  <2>5. \A g \in Handlers : /\ g = h => doing'[g] = 0
                            /\ g # h => doing'[g] = doing[g] /\ todo'[g] = todo[g]
    BY <1>1, <2>2
  <2>6. \A n \in botched : n \in EventIds /\ n # 0
    BY <1>1 DEF AuditInv, TypeOK, EventIds
  <2>7. doing[h] \in botched /\ seen[doing[h]].kind \in ReportedKinds => mark = "failed"
    BY <2>1 DEF AuditInv, Calling
  <2>8. \A n \in EventIds : n > Len(seen') => audit'[n] = "none"
    BY <1>1, <2>2, <2>3, <2>4 DEF AuditInv
  <2>9. \A g \in Handlers : doing'[g] # 0 => audit'[doing'[g]] \in {"none", "open"}
    <3>1. ASSUME NEW g \in Handlers, doing'[g] # 0 PROVE audit'[doing'[g]] \in {"none", "open"}
      <4>1. g # h /\ doing'[g] = doing[g] /\ doing[g] # doing[h] /\ doing[g] # 0
        BY <2>5, <3>1 DEF AuditInv
      <4>2. doing[g] \in EventIds
        BY <1>1, <4>1 DEF EventIds
      <4>3. QED
        BY <2>4, <4>1, <4>2 DEF AuditInv
    <3>2. QED
      BY <3>1
  <2>10. \A f, g \in Handlers : doing'[g] # 0 /\ doing'[f] = doing'[g] => f = g
    BY <2>5 DEF AuditInv
  <2>11. ASSUME NEW n \in botched, seen[n].kind \in ReportedKinds
         PROVE  /\ audit'[n] # "processed"
                /\ \A g \in Handlers : doing'[g] = n => todo'[g] = <<"failed">>
    BY <2>4, <2>5, <2>6, <2>7, <2>11 DEF AuditInv
  <2>12. QED
    BY <2>2, <2>8, <2>9, <2>10, <2>11 DEF AuditInv
<1>7. ASSUME NEW h \in Handlers, HandlerStep(h), ~ Finish(h) PROVE AuditInv'
  <2>1. /\ UNCHANGED <<seen, doing>> /\ doing[h] \in 1..Len(seen) /\ doing[h] \in EventIds
        /\ \A g \in Handlers : g # h => todo'[g] = todo[g]
        /\ audit' = audit \/ audit' = [audit EXCEPT ![doing[h]] = "open"]
        /\ \/ botched' = botched
           \/ /\ botched' = botched \cup {doing[h]}
              /\ Event(h).kind \in ReportedKinds => todo'[h] = <<"failed">>
        /\ Event(h).kind \in ReportedKinds => doing[h] \notin botched
    BY <1>7, HandlerAudits
  <2>2. \A n \in EventIds : audit'[n] = audit[n] \/ (n = doing[h] /\ audit'[n] = "open")
    BY <1>1, <2>1
  <2>3. \A g \in Handlers : doing[g] # 0 => doing[g] \in EventIds
    BY <1>1 DEF EventIds
  <2>4. botched' \subseteq 1..Len(seen') /\ \A n \in EventIds : n > Len(seen') => audit'[n] = "none"
    <3>1. botched' \subseteq 1..Len(seen')
      BY <2>1 DEF AuditInv
    <3>2. \A n \in EventIds : n > Len(seen) => n # doing[h]
      BY <1>1, <2>1
    <3>3. QED
      BY <2>1, <2>2, <3>1, <3>2 DEF AuditInv
  <2>5. \A g \in Handlers : doing'[g] # 0 => audit'[doing'[g]] \in {"none", "open"}
    BY <2>1, <2>2, <2>3 DEF AuditInv
  <2>6. ASSUME NEW n \in botched', seen'[n].kind \in ReportedKinds
        PROVE  /\ audit'[n] # "processed"
               /\ \A g \in Handlers : doing'[g] = n => todo'[g] = <<"failed">>
    <3>1. n \in EventIds
      BY <2>1 DEF TypeOK
    <3>2. CASE n = doing[h]
      <4>1. Event(h).kind \in ReportedKinds
        BY <2>1, <2>6, <3>2 DEF Event
      <4>2. todo'[h] = <<"failed">>
        BY <2>1, <2>6, <3>2, <4>1
      <4>3. audit'[n] # "processed"
        <5>1. doing[h] # 0 /\ audit[doing[h]] \in {"none", "open"}
          BY <1>1, <2>1 DEF AuditInv
        <5>2. QED
          BY <2>2, <3>1, <3>2, <5>1
      <4>4. \A g \in Handlers : doing[g] = n => g = h
        BY <2>1, <3>2 DEF AuditInv
      <4>5. QED
        BY <2>1, <4>2, <4>3, <4>4
    <3>3. CASE n # doing[h]
      <4>1. n \in botched /\ seen[n].kind \in ReportedKinds
        BY <2>1, <2>6, <3>3
      <4>2. audit[n] # "processed" /\ \A g \in Handlers : doing[g] = n => todo[g] = <<"failed">>
        BY <4>1 DEF AuditInv
      <4>3. audit'[n] = audit[n]
        BY <2>2, <3>1, <3>3
      <4>4. \A g \in Handlers : doing'[g] = n => g # h /\ doing[g] = n /\ todo'[g] = todo[g]
        BY <2>1, <3>3
      <4>5. QED
        BY <4>2, <4>3, <4>4
    <3>4. QED
      BY <3>2, <3>3
  <2>7. \A f, g \in Handlers : doing'[g] # 0 /\ doing'[f] = doing'[g] => f = g
    BY <2>1 DEF AuditInv
  <2>8. QED
    BY <2>4, <2>5, <2>6, <2>7 DEF AuditInv
<1>8. ASSUME \/ Scheduler \/ Advance \/ (Process /\ ~ Crash) \/ UNCHANGED vars
      PROVE  UNCHANGED <<seen, doing, todo, audit, botched>>
  BY <1>8 DEF Scheduler, Advance, Process, Shutdown, Down, Restart, Unload, StopAll, Unloaded, Load, vars
<1>9. QED
  BY <1>2, <1>3, <1>4, <1>5, <1>6, <1>7, <1>8 DEF Next, Handle

\* No handler calls a mark, or acknowledges before its last call.
LEMMA NoMarkIsCalled ==
    ASSUME NEW e \in Events, NEW k \in 1..Len(Calls(e))
    PROVE  Calls(e)[k] \notin {"ack", "processed", "failed"}
<1> DEFINE Fine(s) == \A j \in 1..Len(s) : s[j] \notin {"ack", "processed", "failed"}
<1>1. /\ Fine(<<"name", "begin_session">>) /\ Fine(CheckOutCalls) /\ Fine(<<>>)
      /\ Fine(<<"alarm_on", "create">>) /\ Fine(<<"alarm_off">>)
  BY DEF CheckOutCalls
<1>2. Fine(<<"alarm_off", "find", "cancel">>) /\ Fine(<<"alarm_off", "cancel_all">>)
  OBVIOUS
<1>3. e.kind \in ReportedKinds => Fine(<<e.kind>>)
  BY DEF ReportedKinds
<1> HIDE DEF Fine
<1>4. Fine(Calls(e))
  BY <1>1, <1>2, <1>3, CallsOfPlain, CallsOfWakeUp, KindsOfEvents DEF TimedKinds
<1>5. QED
  BY <1>4 DEF Fine

\* No call follows the acknowledgement, only the mark that the event was processed.
Late(s) == \A j, k \in 1..Len(s) : s[j] = "ack" /\ j < k => s[k] = "processed"
OnlyMarks(s) == \A k \in 1..Len(s) : s[k] = "processed"
Unfailed(s) == \A k \in 1..Len(s) : s[k] # "failed"

\* A reported event that failed is not acknowledged; an event that is acknowledged has made its
\* calls; and the mark of a failure is kept for the reported events that failed.
ToldInv ==
    /\ Len(seen) <= MaxEvents /\ acked \subseteq 1..Len(seen)
    /\ \A n \in botched : seen[n].kind \in ReportedKinds => n \notin acked
    /\ \A n \in 1..Len(seen) : audit[n] = "failed" => seen[n].kind \in ReportedKinds /\ n \in botched
    /\ \A h \in Handlers :
        /\ Late(todo[h])
        /\ doing[h] \in acked => OnlyMarks(todo[h])
        /\ Unfailed(todo[h]) \/ (Event(h).kind \in ReportedKinds /\ doing[h] \in botched)

\* A script is such a sequence.
LEMMA ScriptIsLate ==
    ASSUME NEW e \in Events
    PROVE  Late(Script(e)) /\ Unfailed(Script(e))
<1> DEFINE n == Len(Calls(e))
<1>1. n \in Nat /\ Len(Script(e)) = n + 3
  BY CallsShape, ScriptShape
<1>2. ASSUME NEW k \in 1..(n + 3)
      PROVE  \/ k = 1 /\ Script(e)[k] = "log"
             \/ k - 1 \in 1..n /\ Script(e)[k] \notin {"ack", "processed", "failed"}
             \/ k = n + 2 /\ Script(e)[k] = "ack"
             \/ k = n + 3 /\ Script(e)[k] = "processed"
  <2>1. CASE k - 1 \in 1..n
    <3>1. Script(e)[k - 1 + 1] = Calls(e)[k - 1] /\ k - 1 + 1 = k
      BY <1>1, <2>1, ScriptShape
    <3>2. Calls(e)[k - 1] \notin {"ack", "processed", "failed"}
      BY <2>1, NoMarkIsCalled
    <3>3. QED
      BY <2>1, <3>1, <3>2
  <2>2. CASE k - 1 \notin 1..n
    <3>1. k = 1 \/ k = n + 2 \/ k = n + 3
      BY <1>1, <2>2
    <3>2. QED
      BY <3>1, ScriptShape
  <2>3. QED
    BY <2>1, <2>2
<1> HIDE DEF n
<1>3. QED
  BY <1>1, <1>2 DEF Late, Unfailed

\* So is what remains of it.
LEMMA TailIsLate ==
    ASSUME NEW s \in Seq(CallNames), s # <<>>
    PROVE  /\ Late(s) => Late(Tail(s))
           /\ Late(s) /\ Head(s) = "ack" => OnlyMarks(Tail(s))
           /\ Unfailed(s) => Unfailed(Tail(s))
           /\ OnlyMarks(s) => Head(s) = "processed"
<1>1. /\ Len(s) \in Nat /\ Len(s) >= 1 /\ Head(s) = s[1]
      /\ \A k \in 1..Len(Tail(s)) : k + 1 \in 1..Len(s) /\ 1 < k + 1 /\ Tail(s)[k] = s[k + 1]
  BY TailOfScript
<1>2. ASSUME Late(s) PROVE Late(Tail(s))
  <2>1. ASSUME NEW j \in 1..Len(Tail(s)), NEW k \in 1..Len(Tail(s)), Tail(s)[j] = "ack", j < k
        PROVE  Tail(s)[k] = "processed"
    <3>1. j + 1 \in 1..Len(s) /\ k + 1 \in 1..Len(s) /\ j + 1 < k + 1 /\ s[j + 1] = "ack" /\ Tail(s)[k] = s[k + 1]
      BY <1>1, <2>1
    <3>2. QED
      BY <1>2, <3>1 DEF Late
  <2>2. QED
    BY <2>1 DEF Late
<1>3. ASSUME Late(s), Head(s) = "ack" PROVE OnlyMarks(Tail(s))
  <2>1. 1 \in 1..Len(s) /\ s[1] = "ack"
    BY <1>1, <1>3
  <2>2. QED
    BY <1>1, <1>3, <2>1 DEF Late, OnlyMarks
<1>4. ASSUME Unfailed(s) PROVE Unfailed(Tail(s))
  BY <1>1, <1>4 DEF Unfailed
<1>5. ASSUME OnlyMarks(s) PROVE Head(s) = "processed"
  BY <1>1, <1>5 DEF OnlyMarks
<1>6. QED
  BY <1>2, <1>3, <1>4, <1>5

\* It holds before the first event.
LEMMA ToldInvInit == Init => ToldInv
<1> SUFFICES ASSUME Init PROVE ToldInv
  OBVIOUS
<1>1. /\ acked = {} /\ botched = {} /\ seen = <<>> /\ todo = [h \in Handlers |-> <<>>]
  BY Zenon DEF Init, TenantInit
<1>2. Len(seen) = 0 /\ 0 <= MaxEvents /\ Late(<<>>) /\ Unfailed(<<>>)
  BY <1>1, TenantAssumption DEF Late, Unfailed
<1>3. QED
  BY <1>1, <1>2 DEF ToldInv

\* What a handler's step does to what is told of its event.
LEMMA HandlerTells ==
    ASSUME GuestInv, ToldInv, NEW h \in Handlers, HandlerStep(h), ~ Finish(h)
    PROVE  /\ doing[h] \notin acked /\ doing[h] \in 1..Len(seen)
           /\ \/ acked' = acked
              \/ acked' = acked \cup {doing[h]} /\ botched' = botched /\ OnlyMarks(todo'[h])
           /\ botched \subseteq botched' /\ botched' \subseteq botched \cup {doing[h]}
           /\ Late(todo'[h])
           /\ Unfailed(todo'[h]) \/ (Event(h).kind \in ReportedKinds /\ doing[h] \in botched')
<1> USE DEF GuestInv
<1>1. RunsOn(h)
  BY HandlerRunsOn
<1>2. todo \in [Handlers -> Seq(CallNames)] /\ todo[h] # <<>> /\ todo[h] \in Seq(CallNames)
  BY <1>1 DEF RunsOn, TypeOK
<1>3. doing[h] \in 1..Len(seen)
  BY <1>2, HasEvent
<1>4. doing[h] \notin acked
  <2>1. SUFFICES ASSUME doing[h] \in acked PROVE FALSE
    OBVIOUS
  <2>2. Head(todo[h]) = "processed"
    BY <1>2, <2>1, TailIsLate DEF ToldInv
  <2>3. QED
    BY <2>2 DEF HandlerStep, Log, Pbx, PbxError, Session, Create, Find, Cancel, DbError, Ack,
                Calling, PbxCalls, DbCalls
<1>5. \/ acked' = acked
      \/ /\ acked' = acked \cup {doing[h]} /\ botched' = botched
         /\ Head(todo[h]) = "ack" /\ todo'[h] = Tail(todo[h])
  <2>1. CASE Ack(h)
    BY <1>2, <2>1 DEF Ack, Calling
  <2>2. CASE ~ Ack(h)
    BY <2>2 DEF HandlerStep, Log, Pbx, PbxError, Session, Create, Find, Cancel, DbError
  <2>3. QED
    BY <2>1, <2>2
<1>6. botched \subseteq botched' /\ botched' \subseteq botched \cup {doing[h]}
  BY DEF HandlerStep, Log, Pbx, PbxError, Session, Create, Find, Cancel, DbError, Ack
<1>7. PbxError(h) => doing[h] \in botched'
  BY DEF PbxError
<1>8. ~ PbxError(h) => \/ todo'[h] = Tail(todo[h])
                       \/ Head(todo[h]) = "find" /\ todo'[h] = Tail(Tail(todo[h]))
  BY <1>2 DEF HandlerStep, Log, Pbx, Session, Create, Find, Cancel, DbError, Ack, Calling
<1>9. /\ Late(Tail(todo[h]))
      /\ Unfailed(todo[h]) => Unfailed(Tail(todo[h]))
  BY <1>2, TailIsLate DEF ToldInv
<1>10. Head(todo[h]) = "find" =>
          /\ Late(Tail(Tail(todo[h])))
          /\ Unfailed(todo[h]) => Unfailed(Tail(Tail(todo[h])))
  <2>1. SUFFICES ASSUME Head(todo[h]) = "find"
                 PROVE  /\ Late(Tail(Tail(todo[h])))
                        /\ Unfailed(todo[h]) => Unfailed(Tail(Tail(todo[h])))
    OBVIOUS
  <2>2. Tail(todo[h]) # <<>> /\ Tail(todo[h]) \in Seq(CallNames)
    BY <1>2, <2>1, SkipsTwo DEF Calling
  <2>3. QED
    BY <1>9, <2>2, TailIsLate
<1>11. /\ Late(<<"failed">>) /\ Late(<<"ack", "processed">>) /\ Unfailed(<<"ack", "processed">>)
  BY DEF Late, Unfailed
<1>12. \/ todo'[h] = Tail(todo[h])
       \/ Head(todo[h]) = "find" /\ todo'[h] = Tail(Tail(todo[h]))
       \/ todo'[h] = <<"failed">> /\ Event(h).kind \in ReportedKinds
       \/ todo'[h] = <<"ack", "processed">>
  BY <1>1, <1>2 DEF RunsOn
<1>13. Late(todo'[h])
  BY <1>9, <1>10, <1>11, <1>12
<1>14. Unfailed(todo'[h]) \/ (Event(h).kind \in ReportedKinds /\ doing[h] \in botched')
  <2>1. Unfailed(todo[h]) \/ (Event(h).kind \in ReportedKinds /\ doing[h] \in botched)
    BY DEF ToldInv
  <2>2. todo'[h] = <<"failed">> => PbxError(h) \/ ~ PbxError(h)
    OBVIOUS
  <2>3. CASE PbxError(h)
    BY <1>6, <1>7, <1>9, <1>10, <1>11, <1>12, <2>1, <2>3
  <2>4. CASE ~ PbxError(h)
    BY <1>6, <1>8, <1>9, <1>10, <2>1, <2>4
  <2>5. QED
    BY <2>3, <2>4
<1>15. acked' # acked => OnlyMarks(todo'[h])
  BY <1>2, <1>5, TailIsLate DEF ToldInv
<1>16. QED
  BY <1>3, <1>4, <1>5, <1>6, <1>13, <1>14, <1>15

\* Every step keeps what is told true.
LEMMA ToldInvStep == GuestInv /\ AuditInv /\ ToldInv /\ [Next]_vars => ToldInv'
<1> SUFFICES ASSUME GuestInv, AuditInv, ToldInv, [Next]_vars PROVE ToldInv'
  OBVIOUS
<1> USE DEF GuestInv
<1>1. /\ audit \in [EventIds -> {"none", "open", "processed", "failed"}]
      /\ doing \in [Handlers -> 0..MaxEvents] /\ todo \in [Handlers -> Seq(CallNames)]
      /\ seen \in Seq(Events) /\ Len(seen) \in Nat
      /\ \A h \in Handlers : doing[h] \in 0..Len(seen)
      /\ \A n \in 1..Len(seen) : n # 0 /\ n \in EventIds
      /\ Len(seen) <= MaxEvents /\ acked \subseteq 1..Len(seen) /\ botched \subseteq 1..Len(seen)
  <2>1. Len(seen) \in Nat /\ Len(seen) <= MaxEvents
    BY DEF TypeOK, ToldInv
  <2>2. \A n \in 1..Len(seen) : n # 0 /\ n \in EventIds
    BY <2>1, TenantAssumption DEF EventIds
  <2>3. QED
    BY <2>1, <2>2 DEF TypeOK, Scripts, ToldInv, AuditInv
<1>2. CASE UNCHANGED <<seen, doing, todo, audit, botched, acked>>
  BY <1>2 DEF ToldInv, Event
<1>3. CASE Crash
  <2>1. /\ UNCHANGED <<seen, audit, botched, acked>>
        /\ \A h \in Handlers : doing'[h] = 0 /\ todo'[h] = <<>>
    BY <1>3 DEF Crash
  <2>2. Late(<<>>) /\ Unfailed(<<>>) /\ 0 \notin acked
    BY <1>1 DEF Late, Unfailed
  <2>3. QED
    BY <2>1, <2>2 DEF ToldInv
<1>4. ASSUME NEW n \in EventIds, Retry(n) PROVE ToldInv'
  <2>1. /\ audit' = [audit EXCEPT ![n] = "open"]
        /\ UNCHANGED <<seen, doing, todo, botched, acked>>
    BY <1>4 DEF Retry, RetryEvent
  <2>2. \A m \in 1..Len(seen) : audit'[m] = "failed" => audit[m] = "failed"
    BY <1>1, <2>1
  <2>3. QED
    BY <2>1, <2>2 DEF ToldInv, Event
<1>5. ASSUME NEW h \in Handlers, Take(h) PROVE ToldInv'
  <2>1. PICK e \in Inputs : seen' = Append(seen, e) /\ todo' = [todo EXCEPT ![h] = Script(e)]
    BY <1>5 DEF Take
  <2>2. /\ Len(seen') = Len(seen) + 1 /\ \A n \in 1..Len(seen) : seen'[n] = seen[n]
        /\ Late(Script(e)) /\ Unfailed(Script(e))
    BY <1>1, <2>1, TenantAssumption, ScriptIsLate
  <2>3. /\ doing' = [doing EXCEPT ![h] = Len(seen) + 1] /\ UNCHANGED <<audit, botched, acked>>
        /\ Len(seen) < MaxEvents
    BY <1>5 DEF Take
  <2>4. Len(seen) + 1 \in EventIds /\ audit[Len(seen) + 1] = "none" /\ Len(seen) + 1 \notin acked
    BY <1>1, <2>3, TenantAssumption DEF EventIds, AuditInv
  <2>5. \A n \in 1..Len(seen') : n \in 1..Len(seen) \/ n = Len(seen) + 1
    BY <1>1, <2>2
  <2>6. ASSUME NEW g \in Handlers
        PROVE  /\ Late(todo'[g])
               /\ doing'[g] \in acked' => OnlyMarks(todo'[g])
               /\ Unfailed(todo'[g]) \/ (Event(g)'.kind \in ReportedKinds /\ doing'[g] \in botched')
    <3>1. CASE g = h
      <4>1. todo'[g] = Script(e) /\ doing'[g] = Len(seen) + 1
        BY <1>1, <2>1, <2>3, <3>1
      <4>2. QED
        BY <2>2, <2>3, <2>4, <4>1
    <3>2. CASE g # h
      <4>1. todo'[g] = todo[g] /\ doing'[g] = doing[g]
        BY <1>1, <2>1, <2>3, <3>2
      <4>2. doing[g] \in botched => Event(g)' = Event(g)
        BY <1>1, <2>2, <4>1 DEF Event
      <4>3. QED
        BY <2>3, <4>1, <4>2 DEF ToldInv
    <3>3. QED
      BY <3>1, <3>2
  <2>7. Len(seen') <= MaxEvents /\ acked' \subseteq 1..Len(seen')
    BY <1>1, <2>2, <2>3, TenantAssumption
  <2>8. \A n \in botched' : seen'[n].kind \in ReportedKinds => n \notin acked'
    BY <1>1, <2>2, <2>3 DEF ToldInv
  <2>9. \A n \in 1..Len(seen') : audit'[n] = "failed" => seen'[n].kind \in ReportedKinds /\ n \in botched'
    BY <2>2, <2>3, <2>4, <2>5 DEF ToldInv
  <2>10. QED
    BY <2>6, <2>7, <2>8, <2>9 DEF ToldInv
<1>6. ASSUME NEW h \in Handlers, Finish(h) PROVE ToldInv'
  <2>1. PICK mark \in {"processed", "failed"} :
          /\ Calling(h, mark)
          /\ audit' = audit \/ audit' = [audit EXCEPT ![doing[h]] = IF @ = "none" THEN @ ELSE mark]
    BY <1>6 DEF Finish
  <2>2. /\ doing' = [doing EXCEPT ![h] = 0] /\ todo' = [todo EXCEPT ![h] = <<>>]
        /\ UNCHANGED <<seen, botched, acked>>
    BY <1>6 DEF Finish
  <2>3. /\ doing[h] \in 1..Len(seen) /\ doing[h] \in EventIds
        /\ Head(todo[h]) = todo[h][1] /\ 1 \in 1..Len(todo[h])
    BY <2>1, HasEvent DEF Calling
  <2>4. \A n \in EventIds : /\ n # doing[h] => audit'[n] = audit[n]
                            /\ audit'[n] \in {audit[n], mark}
    BY <1>1, <2>1
  <2>5. mark = "failed" => seen[doing[h]].kind \in ReportedKinds /\ doing[h] \in botched
    <3>1. SUFFICES ASSUME mark = "failed" PROVE ~ Unfailed(todo[h])
      BY DEF ToldInv, Event
    <3>2. QED
      BY <2>1, <2>3, <3>1 DEF Calling, Unfailed
  <2>7. \A n \in 1..Len(seen) : audit'[n] = "failed" => seen[n].kind \in ReportedKinds /\ n \in botched
    BY <1>1, <2>4, <2>5 DEF ToldInv
  <2>8. \A g \in Handlers : \/ g = h /\ doing'[g] = 0 /\ todo'[g] = <<>>
                            \/ doing'[g] = doing[g] /\ todo'[g] = todo[g]
    BY <1>1, <2>2
  <2>9. Late(<<>>) /\ Unfailed(<<>>) /\ 0 \notin acked
    BY <1>1 DEF Late, Unfailed
  <2>10. \A g \in Handlers : doing'[g] = doing[g] => Event(g)' = Event(g)
    BY <2>2 DEF Event
  <2>11. QED
    BY <2>2, <2>7, <2>8, <2>9, <2>10 DEF ToldInv
<1>7. ASSUME NEW h \in Handlers, HandlerStep(h), ~ Finish(h) PROVE ToldInv'
  <2>1. /\ UNCHANGED <<seen, doing>> /\ doing[h] \in 1..Len(seen) /\ doing[h] \in EventIds
        /\ \A g \in Handlers : g # h => todo'[g] = todo[g]
        /\ audit' = audit \/ audit' = [audit EXCEPT ![doing[h]] = "open"]
        /\ Event(h).kind \in ReportedKinds => doing[h] \notin botched
    BY <1>7, HandlerAudits
  <2>2. /\ doing[h] \notin acked
        /\ \/ acked' = acked
           \/ acked' = acked \cup {doing[h]} /\ botched' = botched /\ OnlyMarks(todo'[h])
        /\ botched \subseteq botched' /\ botched' \subseteq botched \cup {doing[h]}
        /\ Late(todo'[h])
        /\ Unfailed(todo'[h]) \/ (Event(h).kind \in ReportedKinds /\ doing[h] \in botched')
    BY <1>7, HandlerTells
  <2>3. \A n \in 1..Len(seen) : audit'[n] = "failed" => audit[n] = "failed"
    BY <1>1, <2>1
  <2>4. \A n \in 1..Len(seen) : audit'[n] = "failed" => seen[n].kind \in ReportedKinds /\ n \in botched'
    BY <2>2, <2>3 DEF ToldInv
  <2>5. acked' \subseteq 1..Len(seen)
    BY <1>1, <2>1, <2>2
  <2>6. ASSUME NEW n \in botched', seen[n].kind \in ReportedKinds PROVE n \notin acked'
    <3>1. CASE n = doing[h]
      BY <2>1, <2>2, <2>6, <3>1 DEF Event
    <3>2. CASE n # doing[h]
      BY <2>2, <2>6, <3>2 DEF ToldInv
    <3>3. QED
      BY <3>1, <3>2
  <2>7. ASSUME NEW g \in Handlers
        PROVE  /\ Late(todo'[g])
               /\ doing[g] \in acked' => OnlyMarks(todo'[g])
               /\ Unfailed(todo'[g]) \/ (Event(g).kind \in ReportedKinds /\ doing[g] \in botched')
    <3>1. CASE g = h
      BY <2>2, <3>1
    <3>2. CASE g # h
      <4>1. doing[g] # doing[h]
        BY <1>1, <2>1, <3>2 DEF AuditInv
      <4>2. doing[g] \in acked' => doing[g] \in acked
        BY <2>2, <4>1
      <4>3. todo'[g] = todo[g]
        BY <2>1, <3>2
      <4>4. QED
        BY <2>2, <4>2, <4>3 DEF ToldInv
    <3>3. QED
      BY <3>1, <3>2
  <2>8. \A g \in Handlers : Event(g)' = Event(g)
    BY <2>1 DEF Event
  <2>9. QED
    BY <2>1, <2>4, <2>5, <2>6, <2>7, <2>8 DEF ToldInv
<1>8. ASSUME \/ Scheduler \/ Advance \/ (Process /\ ~ Crash) \/ UNCHANGED vars
      PROVE  UNCHANGED <<seen, doing, todo, audit, botched, acked>>
  BY <1>8 DEF Scheduler, Advance, Process, Shutdown, Down, Restart, Unload, StopAll, Unloaded, Load, vars
<1>9. QED
  BY <1>2, <1>3, <1>4, <1>5, <1>6, <1>7, <1>8 DEF Next, Handle

\* In every reachable state, with any number of goroutines: neither the PMS nor the audit log
\* is told that a change of a lamp, a name or DND was carried out of which the call failed,
\* and no event of any other kind is marked as failed.
THEOREM FailuresAreTold == Spec => []FailuresAreAudited
<1>1. GuestInv /\ AuditInv /\ ToldInv => FailuresAreAudited
  BY DEF AuditInv, ToldInv, FailuresAreAudited
<1>2. QED
  BY <1>1, GuestInvInductive, AuditInvInit, AuditInvStep, ToldInvInit, ToldInvStep, PTL DEF Spec

----------------------------------------------------------------------------
(***************************************************************************)
(* One goroutine handles the events of a tenant, one after the other.      *)
(***************************************************************************)

\* It has that call yet to make.
Owes(h, c) == \E k \in 1..Len(todo[h]) : todo[h][k] = c

\* The event is past that call: its handler has ended, or has the call no longer
\* before it.
Past(n, c) == n \in finished \/ \E h \in Handlers : doing[h] = n /\ ~ Owes(h, c)

\* Nothing follows the mark that ends an event.
EndsWithMark(s) == \A k \in 1..Len(s) : s[k] \in {"processed", "failed"} => k = Len(s)

\* The event in hand is the last that was taken, and is not finished.
TurnInv ==
    /\ finished \subseteq 1..Len(seen)
    /\ \A h \in Handlers :
        /\ doing[h] # 0 => doing[h] = Len(seen) /\ doing[h] \notin finished
        /\ EndsWithMark(todo[h])

\* A script, and what remains of it, ends with the mark.
LEMMA MarkIsLast ==
    /\ \A e \in Events : EndsWithMark(Script(e))
    /\ \A s \in Seq(CallNames) : s # <<>> /\ EndsWithMark(s) => EndsWithMark(Tail(s))
    /\ EndsWithMark(<<>>) /\ EndsWithMark(<<"failed">>) /\ EndsWithMark(<<"ack", "processed">>)
<1>1. ASSUME NEW e \in Events PROVE EndsWithMark(Script(e))
  <2> DEFINE n == Len(Calls(e))
  <2>1. n \in Nat
    BY CallsShape
  <2>2. ASSUME NEW k \in 1..Len(Script(e)), Script(e)[k] \in {"processed", "failed"}
        PROVE  k = Len(Script(e))
    <3>1. \/ k = 1 /\ Script(e)[k] = "log"
          \/ k - 1 \in 1..n /\ Script(e)[k] = Calls(e)[k - 1]
          \/ k = n + 2 /\ Script(e)[k] = "ack"
          \/ k = n + 3
      BY <2>1, ScriptShape
    <3>2. k = n + 3
      BY <2>2, <3>1, NoMarkIsCalled
    <3>3. QED
      BY <2>1, <3>2, ScriptShape
  <2>3. QED
    BY <2>2 DEF EndsWithMark
<1>2. ASSUME NEW s \in Seq(CallNames), s # <<>>, EndsWithMark(s) PROVE EndsWithMark(Tail(s))
  <2>1. ASSUME NEW k \in 1..Len(Tail(s)), Tail(s)[k] \in {"processed", "failed"}
        PROVE  k = Len(Tail(s))
    <3>1. k + 1 \in 1..Len(s) /\ Tail(s)[k] = s[k + 1] /\ Len(Tail(s)) = Len(s) - 1
      BY <1>2, TailOfScript
    <3>2. k + 1 = Len(s)
      BY <1>2, <2>1, <3>1 DEF EndsWithMark
    <3>3. QED
      BY <3>1, <3>2
  <2>2. QED
    BY <2>1 DEF EndsWithMark
<1>3. /\ EndsWithMark(<<>>) /\ EndsWithMark(<<"failed">>) /\ EndsWithMark(<<"ack", "processed">>)
  BY DEF EndsWithMark
<1>4. QED
  BY <1>1, <1>2, <1>3

\* It holds before the first event.
LEMMA TurnInvInit == Init => TurnInv
<1> SUFFICES ASSUME Init PROVE TurnInv
  OBVIOUS
<1>1. /\ finished = {} /\ doing = [h \in Handlers |-> 0] /\ todo = [h \in Handlers |-> <<>>]
  BY Zenon DEF Init, TenantInit
<1>2. EndsWithMark(<<>>)
  BY MarkIsLast
<1>3. QED
  BY <1>1, <1>2 DEF TurnInv

\* Every step of a lone goroutine keeps its turn.
LEMMA TurnInvStep ==
    ASSUME \A g, h \in Handlers : g = h, GuestInv, TurnInv, [Next]_vars
    PROVE  TurnInv'
<1> USE DEF GuestInv
<1>1. /\ doing \in [Handlers -> 0..MaxEvents] /\ todo \in [Handlers -> Seq(CallNames)]
      /\ seen \in Seq(Events) /\ Len(seen) \in Nat
      /\ \A h \in Handlers : doing[h] \in 0..Len(seen)
  BY DEF TypeOK, Scripts
<1>2. CASE UNCHANGED <<handling, finished>>
  BY <1>2 DEF TurnInv
<1>3. CASE Crash
  <2>1. UNCHANGED <<seen, finished>> /\ \A h \in Handlers : doing'[h] = 0 /\ todo'[h] = <<>>
    BY <1>3 DEF Crash
  <2>2. EndsWithMark(<<>>)
    BY MarkIsLast
  <2>3. QED
    BY <2>1, <2>2 DEF TurnInv
<1>4. ASSUME NEW h \in Handlers, Take(h) PROVE TurnInv'
  <2>1. PICK e \in Inputs : seen' = Append(seen, e) /\ todo' = [todo EXCEPT ![h] = Script(e)]
    BY <1>4 DEF Take
  <2>2. Len(seen') = Len(seen) + 1 /\ EndsWithMark(Script(e))
    BY <1>1, <2>1, TenantAssumption, MarkIsLast
  <2>3. doing' = [doing EXCEPT ![h] = Len(seen) + 1] /\ finished' = finished
    BY <1>4 DEF Take
  <2>4. \A g \in Handlers : doing'[g] = Len(seen) + 1 /\ todo'[g] = Script(e)
    BY <1>1, <2>1, <2>3
  <2>5. finished' \subseteq 1..Len(seen') /\ Len(seen) + 1 \notin finished
    BY <1>1, <2>2, <2>3 DEF TurnInv
  <2>6. QED
    BY <2>2, <2>3, <2>4, <2>5 DEF TurnInv
<1>5. ASSUME NEW h \in Handlers, Finish(h) PROVE TurnInv'
  <2>1. /\ doing' = [doing EXCEPT ![h] = 0] /\ todo' = [todo EXCEPT ![h] = <<>>]
        /\ finished' = finished \cup {doing[h]} /\ seen' = seen /\ todo[h] # <<>>
    BY <1>5 DEF Finish, Calling
  <2>2. \A g \in Handlers : doing'[g] = 0 /\ todo'[g] = <<>>
    BY <1>1, <2>1
  <2>3. doing[h] \in 1..Len(seen) /\ EndsWithMark(<<>>)
    BY <2>1, HasEvent, MarkIsLast
  <2>4. QED
    BY <2>1, <2>2, <2>3 DEF TurnInv
<1>6. ASSUME NEW h \in Handlers, HandlerStep(h), ~ Finish(h) PROVE TurnInv'
  <2>1. RunsOn(h)
    BY <1>6, HandlerRunsOn
  <2>2. UNCHANGED <<seen, doing, finished>> /\ todo[h] # <<>> /\ todo[h] \in Seq(CallNames)
    BY <1>1, <1>6, <2>1 DEF RunsOn, HandlerStep, Log, Pbx, PbxError, Session, Create, Find,
                            Cancel, DbError, Ack
  <2>3. EndsWithMark(Tail(todo[h]))
    BY <2>2, MarkIsLast DEF TurnInv
  <2>4. Head(todo[h]) = "find" => EndsWithMark(Tail(Tail(todo[h])))
    <3>1. SUFFICES ASSUME Head(todo[h]) = "find" PROVE EndsWithMark(Tail(Tail(todo[h])))
      OBVIOUS
    <3>2. Tail(todo[h]) # <<>> /\ Tail(todo[h]) \in Seq(CallNames)
      BY <2>2, <3>1, SkipsTwo DEF Calling
    <3>3. QED
      BY <2>3, <3>2, MarkIsLast
  <2>5. EndsWithMark(todo'[h])
    <3>1. EndsWithMark(<<"failed">>) /\ EndsWithMark(<<"ack", "processed">>)
      BY MarkIsLast
    <3>2. QED
      BY <1>1, <2>1, <2>3, <2>4, <3>1 DEF RunsOn
  <2>6. QED
    BY <2>2, <2>5 DEF TurnInv
<1>7. ASSUME \/ Scheduler \/ Advance \/ (Process /\ ~ Crash) \/ UNCHANGED vars
             \/ \E n \in EventIds : Retry(n)
      PROVE  UNCHANGED <<handling, finished>>
  BY <1>7 DEF Scheduler, Advance, Process, Shutdown, Down, Restart, Unload, StopAll, Unloaded, Load, vars, Retry, RetryEvent
<1>8. QED
  BY <1>2, <1>3, <1>4, <1>5, <1>6, <1>7 DEF Next, Handle

\* It holds in every reachable state of a lone goroutine.
LEMMA TurnInvInductive ==
    ASSUME \A g, h \in Handlers : g = h
    PROVE  Spec => [](GuestInv /\ TurnInv)
<1>1. GuestInv /\ TurnInv /\ [Next]_vars => TurnInv'
  BY TurnInvStep
<1>2. QED
  BY <1>1, GuestInvInductive, TurnInvInit, PTL DEF Spec

\* Events that were taken stay, and a call that failed stays failed.
LEMMA PastEventsStay ==
    ASSUME GuestInv, [Next]_vars
    PROVE  /\ Len(seen) \in Nat /\ Len(seen') \in Nat /\ Len(seen) <= Len(seen')
           /\ \A n \in 1..Len(seen) : seen'[n] = seen[n]
           /\ botched \subseteq botched'
<1> USE DEF GuestInv
<1>1. seen \in Seq(Events) /\ Len(seen) \in Nat
  BY DEF TypeOK
<1>2. seen' = seen \/ \E e \in Events : seen' = Append(seen, e)
  <2>1. CASE UNCHANGED handling
    BY <2>1
  <2>2. ASSUME NEW h \in Handlers, Take(h) PROVE \E e \in Events : seen' = Append(seen, e)
    BY <2>2, TenantAssumption DEF Take
  <2>3. ASSUME NEW h \in Handlers, Finish(h) \/ RunsOn(h) \/ Crash PROVE seen' = seen
    BY <2>3 DEF Finish, RunsOn, Crash
  <2>4. Crash => seen' = seen
    BY DEF Crash
  <2>5. QED
    BY <2>1, <2>2, <2>3, <2>4, HandlingCases
<1>3. botched \subseteq botched'
  <2>1. ASSUME NEW h \in Handlers, Handle(h) PROVE botched \subseteq botched'
    BY <2>1 DEF Handle, Take, HandlerStep, Log, Pbx, PbxError, Session, Create, Find, Cancel,
                DbError, Ack, Finish
  <2>2. ASSUME \/ Scheduler \/ Advance \/ Process \/ UNCHANGED vars \/ \E n \in EventIds : Retry(n)
        PROVE  botched' = botched
    BY <2>2 DEF Scheduler, Advance, Process, Shutdown, Down, Crash, Restart, Unload, StopAll, Unloaded, Load, vars,
                Retry, RetryEvent
  <2>3. QED
    BY <2>1, <2>2 DEF Next
<1>4. QED
  BY <1>1, <1>2, <1>3

\* The events of which nothing is skipped when a call fails.
Thorough(e) == e.kind \in {"check_out", "wake_clearall"}

\* A call of such an event that is no longer owed was the one just made.
LEMMA OwedIsMade ==
    ASSUME GuestInv, NEW h \in Handlers, HandlerStep(h), ~ Finish(h), Thorough(Event(h)),
           NEW c, c \notin {"find", "cancel"}, Owes(h, c), ~ Owes(h, c)'
    PROVE  Calling(h, c)
<1> USE DEF GuestInv
<1>1. RunsOn(h)
  BY HandlerRunsOn
<1>2. /\ todo \in [Handlers -> Seq(CallNames)] /\ todo[h] \in Seq(CallNames) /\ todo[h] # <<>>
  BY <1>1 DEF TypeOK, RunsOn
<1>3. Event(h) \in Events /\ Head(todo[h]) \in MayCall(Event(h))
  BY <1>2, HasEvent
<1>4. Event(h).kind \notin ReportedKinds
  BY DEF Thorough, ReportedKinds
<1>5. Head(todo[h]) # "alarm_on"
  <2>1. Event(h).kind = "check_out" => Calls(Event(h)) = CheckOutCalls
    BY CallsOfPlain
  <2>2. Event(h).kind = "wake_clearall" => Calls(Event(h)) = <<"alarm_off", "cancel_all">>
    BY <1>3, CallsOfWakeUp
  <2>3. QED
    BY <1>3, <2>1, <2>2, SMTT(30) DEF MayCall, Thorough, CheckOutCalls
<1>6. \/ todo'[h] = Tail(todo[h])
      \/ todo'[h] = Tail(Tail(todo[h])) /\ Head(todo[h]) = "find"
  <2>1. \/ todo'[h] = Tail(todo[h])
        \/ todo'[h] = Tail(Tail(todo[h])) /\ Head(todo[h]) = "find"
        \/ Event(h).kind \in ReportedKinds
        \/ Head(todo[h]) = "alarm_on"
    BY <1>1, <1>2 DEF RunsOn
  <2>2. QED
    BY <1>4, <1>5, <2>1
<1>7. CASE todo'[h] = Tail(todo[h])
  <2>1. SUFFICES ASSUME c # Head(todo[h]) PROVE FALSE
    BY <1>2 DEF Calling
  <2>2. \E k \in 1..Len(Tail(todo[h])) : Tail(todo[h])[k] = c
    BY <1>2, <2>1, TailOfScript DEF Owes
  <2>3. QED
    BY <1>7, <2>2 DEF Owes
<1>8. CASE todo'[h] = Tail(Tail(todo[h])) /\ Head(todo[h]) = "find"
  <2>1. Tail(todo[h]) # <<>> /\ Head(Tail(todo[h])) = "cancel" /\ Tail(todo[h]) \in Seq(CallNames)
    BY <1>2, <1>8, SkipsTwo DEF Calling
  <2>2. c # Head(todo[h]) /\ c # Head(Tail(todo[h]))
    BY <1>8, <2>1
  <2>3. \E k \in 1..Len(Tail(todo[h])) : Tail(todo[h])[k] = c
    BY <1>2, <2>2, TailOfScript DEF Owes
  <2>4. \E k \in 1..Len(Tail(Tail(todo[h]))) : Tail(Tail(todo[h]))[k] = c
    <3> DEFINE t == Tail(todo[h])
    <3>1. t \in Seq(CallNames) /\ t # <<>> /\ c # Head(t) /\ \E k \in 1..Len(t) : t[k] = c
      BY <2>1, <2>2, <2>3
    <3> HIDE DEF t
    <3>2. \E k \in 1..Len(Tail(t)) : Tail(t)[k] = c
      BY <3>1, TailOfScript
    <3>3. QED
      BY <3>2 DEF t
  <2>5. QED
    BY <1>8, <2>4 DEF Owes
<1>9. QED
  BY <1>6, <1>7, <1>8

\* How an event comes to be past a call: it was before, or the call was made and
\* did not fail.
LEMMA PastStep ==
    ASSUME \A g, h \in Handlers : g = h, GuestInv, TurnInv, [Next]_vars,
           NEW n \in 1..Len(seen'), Thorough(seen'[n]), n \notin botched',
           NEW c, c \notin {"find", "cancel"},
           \E k \in 1..Len(Calls(seen'[n])) : Calls(seen'[n])[k] = c,
           Past(n, c)'
    PROVE  /\ n \in 1..Len(seen) /\ seen'[n] = seen[n] /\ n \notin botched
           /\ \/ Past(n, c)
              \/ \E h \in Handlers : /\ doing[h] = n /\ Calling(h, c) /\ HandlerStep(h)
                                     /\ ~ PbxError(h) /\ ~ DbError(h)
<1> USE DEF GuestInv
<1>1. /\ doing \in [Handlers -> 0..MaxEvents] /\ todo \in [Handlers -> Seq(CallNames)]
      /\ seen \in Seq(Events) /\ Len(seen) \in Nat
  BY DEF TypeOK
<1>2. /\ Len(seen) <= Len(seen') /\ botched \subseteq botched'
      /\ \A m \in 1..Len(seen) : seen'[m] = seen[m]
  BY PastEventsStay
<1>3. n \notin botched
  BY <1>2
<1> DEFINE Goal == /\ n \in 1..Len(seen)
                   /\ \/ Past(n, c)
                      \/ \E h \in Handlers : /\ doing[h] = n /\ Calling(h, c) /\ HandlerStep(h)
                                             /\ ~ PbxError(h) /\ ~ DbError(h)
<1>4. ASSUME UNCHANGED <<handling, finished>> PROVE Goal
  <2>1. seen' = seen /\ doing' = doing /\ todo' = todo /\ finished' = finished
    BY <1>4
  <2>2. \A h \in Handlers : Owes(h, c)' <=> Owes(h, c)
    BY <2>1 DEF Owes
  <2>3. Past(n, c)
    BY <2>1, <2>2 DEF Past
  <2>4. QED
    BY <2>1, <2>3
<1>5. ASSUME Crash PROVE Goal
  BY <1>5 DEF Crash, Past, TurnInv
<1>6. ASSUME NEW h \in Handlers, Take(h) PROVE Goal
  <2>1. PICK e \in Inputs : seen' = Append(seen, e) /\ todo' = [todo EXCEPT ![h] = Script(e)]
    BY <1>6 DEF Take
  <2>2. e \in Events /\ Len(seen') = Len(seen) + 1 /\ seen'[Len(seen) + 1] = e
    BY <1>1, <2>1, TenantAssumption
  <2>3. doing'[h] = Len(seen) + 1 /\ todo'[h] = Script(e) /\ finished' = finished
        /\ \A g \in Handlers : g = h
    BY <1>1, <1>6, <2>1 DEF Take
  <2>4. CASE n \in finished
    BY <2>4 DEF Past, TurnInv
  <2>5. CASE n \notin finished
    <3>1. n = Len(seen) + 1 /\ ~ Owes(h, c)'
      BY <2>3, <2>5 DEF Past
    <3>2. PICK k \in 1..Len(Calls(e)) : Calls(e)[k] = c
      BY <2>2, <3>1
    <3>3. k + 1 \in 1..Len(Script(e)) /\ Script(e)[k + 1] = c
      <4>1. Len(Calls(e)) \in Nat
        BY <2>2, CallsShape
      <4>2. QED
        BY <2>2, <3>2, <4>1, ScriptShape
    <3>4. QED
      BY <2>3, <3>1, <3>3 DEF Owes
  <2>6. QED
    BY <2>4, <2>5
<1>7. ASSUME NEW h \in Handlers, Finish(h) PROVE Goal
  <2>1. /\ todo[h] # <<>> /\ Head(todo[h]) \in {"processed", "failed"} /\ seen' = seen
        /\ finished' = finished \cup {doing[h]} /\ doing' = [doing EXCEPT ![h] = 0]
    BY <1>7 DEF Finish, Calling
  <2>2. /\ doing[h] \in 1..Len(seen) /\ Event(h) \in Events /\ Head(todo[h]) = todo[h][1]
        /\ todo[h] \in Seq(CallNames) /\ Len(todo[h]) \in Nat /\ Len(todo[h]) >= 1
    BY <1>1, <2>1, HasEvent
  <2>3. 1 = Len(todo[h])
    <3>1. 1 \in 1..Len(todo[h]) /\ todo[h][1] \in {"processed", "failed"}
      BY <2>1, <2>2
    <3>2. QED
      BY <3>1 DEF TurnInv, EndsWithMark
  <2>4. c \notin {"processed", "failed"}
    <3>1. n \in 1..Len(seen) /\ seen'[n] \in Events
      BY <1>1, <2>1
    <3>2. QED
      BY <3>1, NoMarkIsCalled
  <2>5. ~ Owes(h, c)
    BY <2>1, <2>2, <2>3, <2>4 DEF Owes
  <2>6. CASE n \in finished
    BY <2>1, <2>6 DEF Past
  <2>7. CASE n \notin finished
    <3>1. \A g \in Handlers : doing'[g] = 0
      BY <1>1, <2>1
    <3>2. n = doing[h]
      BY <2>1, <2>7, <3>1 DEF Past
    <3>3. QED
      BY <2>1, <2>5, <3>2 DEF Past
  <2>8. QED
    BY <2>6, <2>7
<1>8. ASSUME NEW h \in Handlers, HandlerStep(h), ~ Finish(h) PROVE Goal
  <2>1. UNCHANGED <<seen, doing, finished>>
    BY <1>8, HandlerRunsOn DEF RunsOn, HandlerStep, Log, Pbx, PbxError, Session, Create, Find,
                               Cancel, DbError, Ack
  <2>2. CASE n \in finished
    BY <2>1, <2>2 DEF Past
  <2>3. CASE n \notin finished
    <3>1. doing[h] = n /\ ~ Owes(h, c)'
      BY <2>1, <2>3 DEF Past
    <3>2. Thorough(Event(h))
      BY <1>2, <2>1, <3>1 DEF Event
    <3>3. Owes(h, c) => Calling(h, c)
      BY <1>8, <3>1, <3>2, OwedIsMade
    <3>4. ~ PbxError(h) /\ ~ DbError(h)
      BY <3>1 DEF PbxError, DbError
    <3>5. QED
      BY <1>8, <2>1, <3>1, <3>3, <3>4 DEF Past
  <2>4. QED
    BY <2>2, <2>3
<1>9. ASSUME \/ Scheduler \/ Advance \/ (Process /\ ~ Crash) \/ UNCHANGED vars
             \/ \E m \in EventIds : Retry(m)
      PROVE  UNCHANGED <<handling, finished>>
  BY <1>9 DEF Scheduler, Advance, Process, Shutdown, Down, Restart, Unload, StopAll, Unloaded, Load, vars, Retry, RetryEvent
<1>10. Goal
  BY <1>4, <1>5, <1>6, <1>7, <1>8, <1>9 DEF Next, Handle
<1>11. QED
  BY <1>2, <1>3, <1>10

----------------------------------------------------------------------------
(***************************************************************************)
(* A check-out cleans up.                                                  *)
(***************************************************************************)
ExtOf(n) == Extension[seen[n].room]

\* The last event of its extension, a check-out of which no call has failed.
Departed(n) == n \notin botched /\ seen[n].kind = "check_out" /\ LastOf(ExtOf(n), n)

\* Each thing of the guest is gone once the handler is past the call that removes it.
CheckOutInv ==
    \A n \in 1..Len(seen) : Departed(n) =>
        /\ Past(n, "unname") => pbx[ExtOf(n)].name = ""
        /\ Past(n, "mwi_off") => ~ pbx[ExtOf(n)].mwi
        /\ Past(n, "purge_mail") => ~ pbx[ExtOf(n)].mail
        /\ Past(n, "alarm_off") => ~ pbx[ExtOf(n)].alarm
        /\ Past(n, "end_session") => sessions[seen[n].room] = 0

\* What the handler of a check-out may call.
LEMMA CheckOutMayCall ==
    ASSUME NEW e \in Events, e.kind = "check_out"
    PROVE  /\ MayCall(e) = {"log", "ack", "processed", "failed", "unname", "purge_mail",
                            "alarm_off", "find", "cancel", "mwi_off", "end_session"}
           /\ \A c \in {"unname", "purge_mail", "alarm_off", "mwi_off", "end_session"} :
                \E k \in 1..Len(Calls(e)) : Calls(e)[k] = c
<1>1. Calls(e) = CheckOutCalls
  BY CallsOfPlain
<1>2. /\ Len(CheckOutCalls) = 7
      /\ CheckOutCalls[1] = "unname" /\ CheckOutCalls[2] = "purge_mail"
      /\ CheckOutCalls[3] = "alarm_off" /\ CheckOutCalls[4] = "find"
      /\ CheckOutCalls[5] = "cancel" /\ CheckOutCalls[6] = "mwi_off"
      /\ CheckOutCalls[7] = "end_session"
  BY DEF CheckOutCalls
<1>3. QED
  BY <1>1, <1>2 DEF MayCall

\* Who the last event of an extension is, was so a step before.
LEMMA LastBefore ==
    ASSUME GuestInv, [Next]_vars, NEW n \in 1..Len(seen), NEW x, LastOf(x, n)'
    PROVE  LastOf(x, n)
BY PastEventsStay DEF LastOf

\* While an event is the last of its extension, the line and the sessions of that
\* extension change only by its own calls.
LEMMA LineOfDeparted ==
    ASSUME GuestInv, TurnInv, [Next]_vars, NEW n \in 1..Len(seen), Departed(n), n \notin botched'
    PROVE  /\ \/ pbx'[ExtOf(n)] = pbx[ExtOf(n)]
              \/ \E call \in {"unname", "purge_mail", "alarm_off", "mwi_off"} :
                    pbx'[ExtOf(n)] = After(call, pbx[ExtOf(n)])
           /\ \/ sessions'[seen[n].room] = sessions[seen[n].room]
              \/ sessions'[seen[n].room] = 0
           /\ pbx[ExtOf(n)] \in Lines
<1> USE DEF GuestInv
<1>1. /\ pbx \in [Extensions -> Lines] /\ sessions \in [Rooms -> Nat]
      /\ seen \in Seq(Events) /\ Len(seen) \in Nat
  BY DEF TypeOK
<1>2. seen[n] \in Events /\ seen[n].room \in Rooms /\ ExtOf(n) \in Extensions
  BY <1>1, KindsOfEvents, TenantAssumption DEF ExtOf
<1>3. CASE UNCHANGED <<pbx, sessions>>
  BY <1>1, <1>2, <1>3
<1>4. ASSUME NEW h \in Handlers, Pbx(h) \/ PbxError(h) \/ Session(h)
      PROVE  /\ doing[h] = Len(seen) /\ Event(h) = seen[Len(seen)] /\ Len(seen) \in 1..Len(seen)
             /\ Event(h) \in Events /\ Head(todo[h]) \in MayCall(Event(h))
  <2>1. todo[h] # <<>>
    BY <1>4 DEF Pbx, PbxError, Session, Calling
  <2>2. doing[h] \in 1..Len(seen) /\ Event(h) \in Events /\ Head(todo[h]) \in MayCall(Event(h))
    BY <2>1, HasEvent
  <2>3. QED
    BY <2>2 DEF TurnInv, Event
<1>5. \A m \in 1..Len(seen) : Extension[seen[m].room] = ExtOf(n) => m <= n
  BY DEF Departed, LastOf
<1>6. ASSUME NEW h \in Handlers, Pbx(h) \/ PbxError(h) \/ Session(h), Ext(h) = ExtOf(n)
      PROVE  doing[h] = n /\ Event(h).kind = "check_out" /\ Event(h) = seen[n]
  <2>1. Len(seen) <= n
    BY <1>4, <1>5, <1>6 DEF Ext
  <2>2. n = Len(seen)
    BY <1>1, <2>1
  <2>3. QED
    BY <1>4, <1>6, <2>2 DEF Departed
<1>7. ASSUME NEW h \in Handlers, Pbx(h)
      PROVE  \/ pbx'[ExtOf(n)] = pbx[ExtOf(n)]
             \/ \E call \in {"unname", "purge_mail", "alarm_off", "mwi_off"} :
                   pbx'[ExtOf(n)] = After(call, pbx[ExtOf(n)])
  <2>1. PICK call \in PbxCalls :
          Calling(h, call) /\ pbx' = [pbx EXCEPT ![Ext(h)] = After(call, pbx[Ext(h)])]
    BY <1>7 DEF Pbx
  <2>2. CASE Ext(h) = ExtOf(n)
    <3>1. call \in MayCall(Event(h)) /\ Event(h) \in Events /\ Event(h).kind = "check_out"
      BY <1>4, <1>6, <1>7, <2>1, <2>2 DEF Calling
    <3>2. call \in {"unname", "purge_mail", "alarm_off", "mwi_off"}
      BY <2>1, <3>1, CheckOutMayCall DEF PbxCalls
    <3>3. pbx'[ExtOf(n)] = After(call, pbx[ExtOf(n)])
      BY <1>1, <1>2, <2>1, <2>2
    <3>4. QED
      BY <3>2, <3>3
  <2>3. CASE Ext(h) # ExtOf(n)
    BY <1>1, <1>2, <2>1, <2>3
  <2>4. QED
    BY <2>2, <2>3
<1>8. ASSUME NEW h \in Handlers, PbxError(h) PROVE pbx'[ExtOf(n)] = pbx[ExtOf(n)]
  <2>1. /\ botched' = botched \cup {doing[h]}
        /\ \E line : pbx' = [pbx EXCEPT ![Ext(h)] = line]
    BY <1>8 DEF PbxError
  <2>2. Ext(h) # ExtOf(n)
    BY <1>6, <1>8, <2>1
  <2>3. QED
    BY <1>1, <1>2, <2>1, <2>2
<1>9. ASSUME NEW h \in Handlers, Session(h)
      PROVE  \/ sessions'[seen[n].room] = sessions[seen[n].room]
             \/ sessions'[seen[n].room] = 0
  <2>1. \/ /\ Calling(h, "begin_session")
           /\ sessions' = [sessions EXCEPT ![Event(h).room] = sessions[Event(h).room] + 1]
        \/ sessions' = [sessions EXCEPT ![Event(h).room] = 0]
    BY <1>9 DEF Session, EndGuestSession
  <2>2. CASE Event(h).room = seen[n].room
    <3>1. Ext(h) = ExtOf(n)
      BY <2>2 DEF Ext, ExtOf
    <3>2. Event(h) \in Events /\ Event(h).kind = "check_out" /\ Head(todo[h]) \in MayCall(Event(h))
      BY <1>4, <1>6, <1>9, <3>1
    <3>3. ~ Calling(h, "begin_session")
      BY <3>2, CheckOutMayCall DEF Calling
    <3>4. QED
      BY <1>1, <1>2, <2>1, <2>2, <3>3
  <2>3. CASE Event(h).room # seen[n].room
    BY <1>1, <1>2, <2>1, <2>3
  <2>4. QED
    BY <2>2, <2>3
<1>10. /\ \A h \in Handlers : Pbx(h) \/ PbxError(h) => sessions' = sessions
       /\ \A h \in Handlers : Session(h) => pbx' = pbx
  BY DEF Pbx, PbxError, Session
<1>11. \/ UNCHANGED <<pbx, sessions>>
       \/ \E h \in Handlers : Pbx(h) \/ PbxError(h) \/ Session(h)
  <2>1. ASSUME NEW h \in Handlers, Handle(h), ~ (Pbx(h) \/ PbxError(h) \/ Session(h))
        PROVE  UNCHANGED <<pbx, sessions>>
    BY <2>1 DEF Handle, Take, HandlerStep, Log, Create, Find, Cancel, DbError, Ack, Finish
  <2>2. ASSUME \/ Scheduler \/ Advance \/ Process \/ UNCHANGED vars \/ \E m \in EventIds : Retry(m)
        PROVE  UNCHANGED <<pbx, sessions>>
    BY <2>2 DEF Scheduler, Advance, Process, Shutdown, Down, Crash, Restart, Unload, StopAll, Unloaded, Load, vars,
                Retry, RetryEvent
  <2>3. QED
    BY <2>1, <2>2 DEF Next
<1>12. QED
  BY <1>1, <1>2, <1>3, <1>7, <1>8, <1>9, <1>10, <1>11

\* A call of the check-out that is made, and does not fail, does what it is for.
LEMMA CallOfDeparted ==
    ASSUME GuestInv, NEW h \in Handlers, HandlerStep(h), ~ PbxError(h), ~ DbError(h),
           NEW c \in {"unname", "mwi_off", "purge_mail", "alarm_off", "end_session"}, Calling(h, c)
    PROVE  /\ c # "end_session" => pbx'[Ext(h)] = After(c, pbx[Ext(h)])
           /\ c = "end_session" => sessions'[Event(h).room] = 0
<1>1. /\ pbx \in [Extensions -> Lines] /\ sessions \in [Rooms -> Nat]
      /\ Event(h).room \in Rooms /\ Ext(h) \in Extensions
  BY HasEvent DEF GuestInv, TypeOK, Calling
<1>2. c # "end_session" => Pbx(h)
  BY DEF HandlerStep, Log, Session, Create, Find, Cancel, Ack, Finish, Calling
<1>3. c = "end_session" => Session(h)
  BY DEF HandlerStep, Log, Pbx, Create, Find, Cancel, Ack, Finish, Calling, PbxCalls
<1>4. ASSUME c # "end_session" PROVE pbx'[Ext(h)] = After(c, pbx[Ext(h)])
  <2>1. pbx' = [pbx EXCEPT ![Ext(h)] = After(c, pbx[Ext(h)])]
    BY <1>2, <1>4 DEF Pbx, Calling
  <2>2. QED
    BY <1>1, <2>1
<1>5. ASSUME c = "end_session" PROVE sessions'[Event(h).room] = 0
  <2>1. sessions' = [sessions EXCEPT ![Event(h).room] = 0]
    BY <1>3, <1>5 DEF Session, Calling, EndGuestSession
  <2>2. QED
    BY <1>1, <2>1
<1>6. QED
  BY <1>4, <1>5

\* No call of a check-out brings back what another has removed.
LEMMA CallsRemove ==
    ASSUME NEW line \in Lines, NEW call \in {"unname", "purge_mail", "alarm_off", "mwi_off"}
    PROVE  /\ call = "unname" \/ line.name = "" => After(call, line).name = ""
           /\ call = "mwi_off" \/ ~ line.mwi => ~ After(call, line).mwi
           /\ call = "purge_mail" \/ ~ line.mail => ~ After(call, line).mail
           /\ call = "alarm_off" \/ ~ line.alarm => ~ After(call, line).alarm
<1>1. \/ call = "unname" /\ After(call, line) = [line EXCEPT !.name = ""]
      \/ call = "mwi_off" /\ After(call, line) = [line EXCEPT !.mwi = FALSE]
      \/ call = "purge_mail" /\ After(call, line) = [line EXCEPT !.mail = FALSE]
      \/ call = "alarm_off" /\ After(call, line) = [line EXCEPT !.alarm = FALSE]
  <2>1. call \in PbxCalls
    BY DEF PbxCalls
  <2>2. /\ call = "unname" => After(call, line) = [line EXCEPT !.name = ""]
        /\ call = "mwi_off" => After(call, line) = [line EXCEPT !.mwi = FALSE]
        /\ call = "purge_mail" => After(call, line) = [line EXCEPT !.mail = FALSE]
        /\ call = "alarm_off" => After(call, line) = [line EXCEPT !.alarm = FALSE]
    BY <2>1, LineKept
  <2>3. QED
    BY <2>2
<1>2. DOMAIN line = {"name", "mwi", "dnd", "mail", "alarm"}
  BY DEF Lines
<1>3. /\ After(call, line).name = IF call = "unname" THEN "" ELSE line.name
      /\ After(call, line).mwi = IF call = "mwi_off" THEN FALSE ELSE line.mwi
      /\ After(call, line).mail = IF call = "purge_mail" THEN FALSE ELSE line.mail
      /\ After(call, line).alarm = IF call = "alarm_off" THEN FALSE ELSE line.alarm
  BY <1>1, <1>2
<1>4. QED
  BY <1>3

\* Every step of a lone goroutine keeps it.
LEMMA CheckOutInvStep ==
    ASSUME \A g, h \in Handlers : g = h, GuestInv, TurnInv, CheckOutInv, [Next]_vars
    PROVE  CheckOutInv'
<1> SUFFICES ASSUME NEW n \in 1..Len(seen'), Departed(n)'
             PROVE  /\ Past(n, "unname")' => pbx'[ExtOf(n)'].name = ""
                    /\ Past(n, "mwi_off")' => ~ pbx'[ExtOf(n)'].mwi
                    /\ Past(n, "purge_mail")' => ~ pbx'[ExtOf(n)'].mail
                    /\ Past(n, "alarm_off")' => ~ pbx'[ExtOf(n)'].alarm
                    /\ Past(n, "end_session")' => sessions'[seen'[n].room] = 0
  BY DEF CheckOutInv
<1> DEFINE Removes == {"unname", "mwi_off", "purge_mail", "alarm_off", "end_session"}
           MadeNow(c) == \E h \in Handlers : /\ doing[h] = n /\ Calling(h, c) /\ HandlerStep(h)
                                             /\ ~ PbxError(h) /\ ~ DbError(h)
<1>1. seen'[n] \in Events /\ seen'[n].kind = "check_out" /\ n \notin botched'
  <2>1. seen' \in Seq(Events)
    BY TypeStep DEF GuestInv, TypeOK
  <2>2. QED
    BY <2>1 DEF Departed
<1>2. ASSUME NEW c \in Removes, Past(n, c)'
      PROVE  /\ n \in 1..Len(seen) /\ seen'[n] = seen[n] /\ n \notin botched
             /\ Past(n, c) \/ MadeNow(c)
  <2>1. /\ c \notin {"find", "cancel"} /\ Thorough(seen'[n])
        /\ \E k \in 1..Len(Calls(seen'[n])) : Calls(seen'[n])[k] = c
    BY <1>1, CheckOutMayCall DEF Thorough
  <2>2. QED
    BY <1>1, <1>2, <2>1, PastStep
<1>3. ASSUME NEW c \in Removes, Past(n, c)'
      PROVE  /\ ExtOf(n)' = ExtOf(n) /\ Departed(n)
             /\ \/ pbx'[ExtOf(n)] = pbx[ExtOf(n)]
                \/ \E call \in {"unname", "purge_mail", "alarm_off", "mwi_off"} :
                      pbx'[ExtOf(n)] = After(call, pbx[ExtOf(n)])
             /\ \/ sessions'[seen[n].room] = sessions[seen[n].room]
                \/ sessions'[seen[n].room] = 0
             /\ pbx[ExtOf(n)] \in Lines
             /\ MadeNow(c) => /\ c # "end_session" => pbx'[ExtOf(n)] = After(c, pbx[ExtOf(n)])
                              /\ c = "end_session" => sessions'[seen[n].room] = 0
  <2>1. n \in 1..Len(seen) /\ seen'[n] = seen[n] /\ n \notin botched
    BY <1>2, <1>3
  <2>2. ExtOf(n)' = ExtOf(n)
    BY <2>1 DEF ExtOf
  <2>3. LastOf(ExtOf(n), n)
    BY <2>1, <2>2, LastBefore DEF Departed
  <2>4. Departed(n)
    BY <1>1, <2>1, <2>3 DEF Departed
  <2>5. ASSUME MadeNow(c)
        PROVE  /\ c # "end_session" => pbx'[ExtOf(n)] = After(c, pbx[ExtOf(n)])
               /\ c = "end_session" => sessions'[seen[n].room] = 0
    <3>1. PICK h \in Handlers : doing[h] = n /\ Calling(h, c) /\ HandlerStep(h)
                                /\ ~ PbxError(h) /\ ~ DbError(h)
      BY <2>5
    <3>2. Ext(h) = ExtOf(n) /\ Event(h) = seen[n]
      BY <3>1 DEF Ext, ExtOf, Event
    <3>3. QED
      BY <3>1, <3>2, CallOfDeparted
  <2>6. QED
    BY <1>1, <2>1, <2>2, <2>4, <2>5, LineOfDeparted
<1> HIDE DEF MadeNow
<1>4. ASSUME Past(n, "unname")' PROVE pbx'[ExtOf(n)'].name = ""
  <2>1. "unname" \in Removes
    OBVIOUS
  <2>2. pbx[ExtOf(n)].name = "" \/ pbx'[ExtOf(n)] = After("unname", pbx[ExtOf(n)])
    BY <1>2, <1>3, <1>4, <2>1 DEF CheckOutInv
  <2>3. QED
    BY <1>3, <1>4, <2>1, <2>2, CallsRemove, ZenonT(30)
<1>5. ASSUME Past(n, "mwi_off")' PROVE ~ pbx'[ExtOf(n)'].mwi
  <2>1. "mwi_off" \in Removes
    OBVIOUS
  <2>2. ~ pbx[ExtOf(n)].mwi \/ pbx'[ExtOf(n)] = After("mwi_off", pbx[ExtOf(n)])
    BY <1>2, <1>3, <1>5, <2>1 DEF CheckOutInv
  <2>3. QED
    BY <1>3, <1>5, <2>1, <2>2, CallsRemove, ZenonT(30)
<1>6. ASSUME Past(n, "purge_mail")' PROVE ~ pbx'[ExtOf(n)'].mail
  <2>1. "purge_mail" \in Removes
    OBVIOUS
  <2>2. ~ pbx[ExtOf(n)].mail \/ pbx'[ExtOf(n)] = After("purge_mail", pbx[ExtOf(n)])
    BY <1>2, <1>3, <1>6, <2>1 DEF CheckOutInv
  <2>3. QED
    BY <1>3, <1>6, <2>1, <2>2, CallsRemove, ZenonT(30)
<1>7. ASSUME Past(n, "alarm_off")' PROVE ~ pbx'[ExtOf(n)'].alarm
  <2>1. "alarm_off" \in Removes
    OBVIOUS
  <2>2. ~ pbx[ExtOf(n)].alarm \/ pbx'[ExtOf(n)] = After("alarm_off", pbx[ExtOf(n)])
    BY <1>2, <1>3, <1>7, <2>1 DEF CheckOutInv
  <2>3. QED
    BY <1>3, <1>7, <2>1, <2>2, CallsRemove, ZenonT(30)
<1>8. ASSUME Past(n, "end_session")' PROVE sessions'[seen'[n].room] = 0
  <2>1. "end_session" \in Removes
    OBVIOUS
  <2>2. sessions[seen[n].room] = 0 \/ sessions'[seen[n].room] = 0
    BY <1>2, <1>3, <1>8, <2>1 DEF CheckOutInv
  <2>3. QED
    BY <1>2, <1>3, <1>8, <2>1, <2>2
<1>9. QED
  BY <1>4, <1>5, <1>6, <1>7, <1>8

\* With one goroutine: after a check-out that was carried out, while no other event of
\* its extension has arrived, nothing of the guest is left on the PBX, and no session.
THEOREM DepartedAreGone ==
    ASSUME \A g, h \in Handlers : g = h
    PROVE  Spec => []CheckOutCleans
<1>1. Init => CheckOutInv
  <2>1. Init => seen = <<>>
    BY Zenon DEF Init, TenantInit
  <2>2. seen = <<>> => 1..Len(seen) = {}
    OBVIOUS
  <2>3. QED
    BY <2>1, <2>2 DEF CheckOutInv
<1>2. GuestInv /\ TurnInv /\ CheckOutInv /\ [Next]_vars => CheckOutInv'
  BY CheckOutInvStep
<1>3. TurnInv /\ CheckOutInv => CheckOutCleans
  BY DEF TurnInv, CheckOutInv, CheckOutCleans, Departed, ExtOf, Past
<1>4. Spec => [](GuestInv /\ TurnInv)
  BY TurnInvInductive
<1>5. QED
  BY <1>1, <1>2, <1>3, <1>4, PTL DEF Spec

----------------------------------------------------------------------------
(***************************************************************************)
(* A clearall clears.                                                      *)
(***************************************************************************)

\* A row comes to be pending only by the creation of a wake-up call.
LEMMA RowsAppear ==
    ASSUME GuestInv, [Next]_vars, NEW i \in CallIds, Pending(i)'
    PROVE  \/ Pending(i) /\ wake'[i].ext = wake[i].ext
           \/ \E h \in Handlers : Create(h) /\ wake'[i].ext = Ext(h)
<1> USE DEF GuestInv
<1>1. wake \in [CallIds -> WakeRows]
  BY DEF TypeOK
<1>2. CASE UNCHANGED wake
  BY <1>2 DEF Pending
<1>3. CASE Mark
  <2>1. batch # <<>> /\ outcome \in {"originated", "failed"} /\ batch \in Seq(CallIds)
    BY <1>3 DEF Mark, Dispatching, TypeOK
  <2>2. Head(batch) \in CallIds /\ wake' = [wake EXCEPT ![Head(batch)].status = outcome]
    BY <1>3, <2>1 DEF Mark
  <2>3. QED
    BY <1>1, <2>1, <2>2 DEF Pending, WakeRows
<1>4. ASSUME NEW h \in Handlers, Create(h)
      PROVE  (Pending(i) /\ wake'[i].ext = wake[i].ext) \/ wake'[i].ext = Ext(h)
  BY <1>1, <1>4 DEF Create, CreateWakeUpCall, Pending
<1>5. ASSUME NEW h \in Handlers, Handle(h), ~ Create(h)
      PROVE  Pending(i) /\ wake'[i].ext = wake[i].ext
  <2>1. CASE Cancel(h)
    <3>1. CASE CancelWakeUpCall(found[h])
      BY <1>1, <3>1 DEF CancelWakeUpCall, Pending, WakeRows
    <3>2. CASE CancelAllPendingWakeUpCallsForExtension(Ext(h))
      BY <1>1, <3>2 DEF CancelAllPendingWakeUpCallsForExtension, Pending, WakeRows
    <3>3. QED
      BY <2>1, <3>1, <3>2 DEF Cancel
  <2>2. CASE ~ Cancel(h)
    <3>1. UNCHANGED wake
      BY <1>5, <2>2 DEF Handle, Take, HandlerStep, Log, Pbx, PbxError, Session, Find, DbError,
                        Ack, Finish
    <3>2. QED
      BY <3>1 DEF Pending
  <2>3. QED
    BY <2>1, <2>2
<1>6. ASSUME \/ (Scheduler /\ ~ Mark) \/ Advance \/ Process \/ UNCHANGED vars
             \/ \E n \in EventIds : Retry(n)
      PROVE  UNCHANGED wake
  BY <1>6 DEF Scheduler, SchedulerStep, Fetch, Dispatch, MarkError, Advance, Process, Shutdown,
              Down, Crash, Restart, Unload, StopAll, Unloaded, Load, vars, Retry, RetryEvent
<1>7. QED
  BY <1>2, <1>3, <1>4, <1>5, <1>6 DEF Next, Handle, Scheduler

\* A clearall of which no call has failed, and no wake-up event of its extension since.
Cleared(n) ==
    /\ n \notin botched /\ seen[n].kind = "wake_clearall"
    /\ \A m \in WakeEventsOf(ExtOf(n)) : m <= n

\* Once its handler is past the cancellation, no call of the extension is pending.
ClearedInv ==
    \A n \in 1..Len(seen) : Cleared(n) /\ Past(n, "cancel_all") =>
        \A i \in CallIds : Pending(i) => wake[i].ext # ExtOf(n)

\* Every step of a lone goroutine keeps it.
LEMMA ClearedInvStep ==
    ASSUME \A g, h \in Handlers : g = h, GuestInv, TurnInv, ClearedInv, [Next]_vars
    PROVE  ClearedInv'
<1> SUFFICES ASSUME NEW n \in 1..Len(seen'), Cleared(n)', Past(n, "cancel_all")',
                    NEW i \in CallIds, Pending(i)'
             PROVE  wake'[i].ext # ExtOf(n)'
  BY DEF ClearedInv
<1>1. seen'[n] \in Events /\ seen'[n].kind = "wake_clearall" /\ n \notin botched'
  <2>1. seen' \in Seq(Events)
    BY TypeStep DEF GuestInv, TypeOK
  <2>2. QED
    BY <2>1 DEF Cleared
<1>2. \E k \in 1..Len(Calls(seen'[n])) : Calls(seen'[n])[k] = "cancel_all"
  <2>1. Calls(seen'[n]) = <<"alarm_off", "cancel_all">>
    BY <1>1, CallsOfWakeUp
  <2>2. 2 \in 1..Len(<<"alarm_off", "cancel_all">>) /\ <<"alarm_off", "cancel_all">>[2] = "cancel_all"
    OBVIOUS
  <2>3. QED
    BY <2>1, <2>2
<1>3. /\ n \in 1..Len(seen) /\ seen'[n] = seen[n] /\ n \notin botched
      /\ \/ Past(n, "cancel_all")
         \/ \E h \in Handlers : /\ doing[h] = n /\ Calling(h, "cancel_all") /\ HandlerStep(h)
                                /\ ~ PbxError(h) /\ ~ DbError(h)
  <2>1. Thorough(seen'[n]) /\ "cancel_all" \notin {"find", "cancel"}
    BY <1>1 DEF Thorough
  <2>2. QED
    BY <1>1, <1>2, <2>1, PastStep
<1>4. ExtOf(n)' = ExtOf(n)
  BY <1>3 DEF ExtOf
<1>5. /\ Len(seen) \in Nat /\ Len(seen') \in Nat /\ Len(seen) <= Len(seen')
      /\ \A m \in 1..Len(seen) : seen'[m] = seen[m]
  BY PastEventsStay
<1>6. \A m \in 1..Len(seen) :
        Extension[seen[m].room] = ExtOf(n) /\ seen[m].kind \in TimedKinds \cup {"wake_clearall"} => m <= n
  <2>1. ASSUME NEW m \in 1..Len(seen), Extension[seen[m].room] = ExtOf(n),
               seen[m].kind \in TimedKinds \cup {"wake_clearall"}
        PROVE  m <= n
    <3>1. m \in 1..Len(seen') /\ seen'[m] = seen[m]
      BY <1>5
    <3>2. m \in WakeEventsOf(ExtOf(n))'
      BY <1>4, <2>1, <3>1 DEF WakeEventsOf
    <3>3. QED
      BY <3>2 DEF Cleared
  <2>2. QED
    BY <2>1
<1>7. Cleared(n)
  BY <1>1, <1>3, <1>6 DEF Cleared, WakeEventsOf
<1>8. ASSUME NEW h \in Handlers, Create(h) PROVE Ext(h) # ExtOf(n)
  <2>1. SUFFICES ASSUME Ext(h) = ExtOf(n) PROVE FALSE
    OBVIOUS
  <2>2. todo[h] # <<>> /\ Head(todo[h]) = "create"
    BY <1>8 DEF Create, Calling
  <2>3. doing[h] \in 1..Len(seen) /\ Event(h) \in Events /\ "create" \in MayCall(Event(h))
    BY <2>2, HasEvent DEF GuestInv
  <2>4. Event(h).kind = "wake_set"
    BY <2>3, WhoCreates
  <2>5. doing[h] = Len(seen) /\ Len(seen) \in 1..Len(seen)
    BY <2>3 DEF TurnInv
  <2>6. Len(seen) <= n
    BY <1>6, <2>1, <2>4, <2>5 DEF Event, Ext, TimedKinds
  <2>7. n = Len(seen)
    BY <1>3, <1>5, <2>6
  <2>8. QED
    BY <1>7, <2>4, <2>5, <2>7 DEF Cleared, Event
<1>9. CASE Past(n, "cancel_all")
  <2>1. Pending(i) => wake[i].ext # ExtOf(n)
    BY <1>3, <1>7, <1>9 DEF ClearedInv
  <2>2. QED
    BY <1>4, <1>8, <2>1, RowsAppear
<1>10. ASSUME NEW h \in Handlers, doing[h] = n, Calling(h, "cancel_all"), HandlerStep(h),
              ~ PbxError(h), ~ DbError(h)
       PROVE  wake'[i].ext # ExtOf(n)'
  <2>1. CancelAllPendingWakeUpCallsForExtension(Ext(h))
    BY <1>10 DEF HandlerStep, Log, Pbx, Session, Create, Find, Cancel, Ack, Finish, Calling, PbxCalls
  <2>2. Ext(h) = ExtOf(n)
    BY <1>10 DEF Ext, Event, ExtOf
  <2>3. wake \in [CallIds -> WakeRows]
    BY DEF GuestInv, TypeOK
  <2>4. wake'[i] = IF Cancellable(i) /\ wake[i].ext = ExtOf(n)
                   THEN [wake[i] EXCEPT !.status = "cancelled"] ELSE wake[i]
    BY <2>1, <2>2 DEF CancelAllPendingWakeUpCallsForExtension
  <2>5. QED
    BY <1>4, <2>3, <2>4 DEF Pending, Cancellable, WakeRows
<1>11. QED
  BY <1>3, <1>9, <1>10

\* With one goroutine: after a clearall that was carried out, and until the next wake-up
\* event of its extension, no wake-up call of the extension is pending.
THEOREM ClearedAreGone ==
    ASSUME \A g, h \in Handlers : g = h
    PROVE  Spec => []ClearAllClears
<1>1. Init => ClearedInv
  <2>1. Init => seen = <<>>
    BY Zenon DEF Init, TenantInit
  <2>2. seen = <<>> => 1..Len(seen) = {}
    OBVIOUS
  <2>3. QED
    BY <2>1, <2>2 DEF ClearedInv
<1>2. GuestInv /\ TurnInv /\ ClearedInv /\ [Next]_vars => ClearedInv'
  BY ClearedInvStep
<1>3. TurnInv /\ ClearedInv => ClearAllClears
  BY DEF TurnInv, ClearedInv, ClearAllClears, Cleared, ExtOf, Past
<1>4. Spec => [](GuestInv /\ TurnInv)
  BY TurnInvInductive
<1>5. QED
  BY <1>1, <1>2, <1>3, <1>4, PTL DEF Spec

----------------------------------------------------------------------------
(***************************************************************************)
(* The sessions of a room.                                                 *)
(***************************************************************************)
SessionCalls == {"begin_session", "end_session"}

\* A session is begun or ended by the last call before the acknowledgement.
SessionIsLast(s) == \A k \in 1..Len(s) : s[k] \in SessionCalls => k = Len(s) - 2

\* Who begins a session, and who ends one.
LEMMA WhoseSession ==
    ASSUME NEW e \in Events
    PROVE  /\ \A k \in 1..Len(Calls(e)) : Calls(e)[k] \in SessionCalls => k = Len(Calls(e))
           /\ "begin_session" \in MayCall(e) => e.kind = "check_in"
           /\ "end_session" \in MayCall(e) => e.kind = "check_out"
           /\ e.kind = "check_in" => Calls(e) = <<"name", "begin_session">>
<1> DEFINE Fine(s, kind) ==
             /\ \A k \in 1..Len(s) : s[k] \in SessionCalls => k = Len(s)
             /\ \A k \in 1..Len(s) : s[k] = "begin_session" => kind = "check_in"
             /\ \A k \in 1..Len(s) : s[k] = "end_session" => kind = "check_out"
<1>1. Fine(<<"name", "begin_session">>, "check_in") /\ Fine(CheckOutCalls, "check_out")
  BY DEF CheckOutCalls, SessionCalls
<1>2. \A kind : /\ Fine(<<>>, kind) /\ Fine(<<"alarm_on", "create">>, kind)
                /\ Fine(<<"alarm_off">>, kind)
  BY DEF SessionCalls
<1>3. \A kind : Fine(<<"alarm_off", "find", "cancel">>, kind) /\ Fine(<<"alarm_off", "cancel_all">>, kind)
  BY DEF SessionCalls
<1>4. e.kind \in ReportedKinds => Fine(<<e.kind>>, e.kind)
  BY DEF ReportedKinds, SessionCalls
<1> HIDE DEF Fine
<1>5. Fine(Calls(e), e.kind)
  BY <1>1, <1>2, <1>3, <1>4, CallsOfPlain, CallsOfWakeUp, KindsOfEvents DEF TimedKinds
<1>6. QED
  BY <1>5, CallsOfPlain DEF Fine, MayCall

\* So it is in a script, and in what remains of it.
LEMMA SessionStaysLast ==
    /\ \A e \in Events : SessionIsLast(Script(e))
    /\ \A s \in Seq(CallNames) : s # <<>> /\ SessionIsLast(s) => SessionIsLast(Tail(s))
    /\ SessionIsLast(<<>>) /\ SessionIsLast(<<"failed">>) /\ SessionIsLast(<<"ack", "processed">>)
<1>1. ASSUME NEW e \in Events PROVE SessionIsLast(Script(e))
  <2> DEFINE n == Len(Calls(e))
  <2>1. n \in Nat
    BY CallsShape
  <2>2. ASSUME NEW k \in 1..Len(Script(e)), Script(e)[k] \in SessionCalls
        PROVE  k = Len(Script(e)) - 2
    <3>1. \/ k = 1 /\ Script(e)[k] = "log"
          \/ k - 1 \in 1..n /\ Script(e)[k] = Calls(e)[k - 1]
          \/ k = n + 2 /\ Script(e)[k] = "ack"
          \/ k = n + 3 /\ Script(e)[k] = "processed"
      BY <2>1, ScriptShape
    <3>2. k - 1 \in 1..n /\ Calls(e)[k - 1] \in SessionCalls
      <4>1. Script(e)[k] \notin {"log", "ack", "processed"}
        BY <2>2 DEF SessionCalls
      <4>2. QED
        BY <2>2, <3>1, <4>1
    <3>3. k - 1 = n
      BY <3>2, WhoseSession
    <3>4. QED
      BY <2>1, <3>3, ScriptShape
  <2>3. QED
    BY <2>2 DEF SessionIsLast
<1>2. ASSUME NEW s \in Seq(CallNames), s # <<>>, SessionIsLast(s) PROVE SessionIsLast(Tail(s))
  <2>1. ASSUME NEW k \in 1..Len(Tail(s)), Tail(s)[k] \in SessionCalls
        PROVE  k = Len(Tail(s)) - 2
    <3>1. k + 1 \in 1..Len(s) /\ Tail(s)[k] = s[k + 1] /\ Len(Tail(s)) = Len(s) - 1
      BY <1>2, TailOfScript
    <3>2. k + 1 = Len(s) - 2
      BY <1>2, <2>1, <3>1 DEF SessionIsLast
    <3>3. k \in Nat /\ Len(s) \in Nat
      OBVIOUS
    <3>4. QED
      BY <3>1, <3>2, <3>3
  <2>2. QED
    BY <2>1 DEF SessionIsLast
<1>3. /\ SessionIsLast(<<>>) /\ SessionIsLast(<<"failed">>) /\ SessionIsLast(<<"ack", "processed">>)
  BY DEF SessionIsLast, SessionCalls
<1>4. QED
  BY <1>1, <1>2, <1>3

\* A goroutine is about to begin, or to end, a session of the room.
Owed(r, c) == \E h \in Handlers : doing[h] # 0 /\ Event(h).room = r /\ Owes(h, c)

\* No handler is told to stop, so that every statement runs.
Calm == life = "running" /\ tenant # "leaving"

\* Without faults nothing stops, and the sessions of a room are those begun since its
\* last check-out, but for the one that is about to begin or those about to end.
BalanceInv ==
    /\ \A h \in Handlers : SessionIsLast(todo[h])
    /\ faults = 0 =>
        /\ Calm
        /\ \A r \in Rooms :
            /\ Owed(r, "begin_session") => sessions[r] + 1 = Cardinality(Since(r))
            /\ ~ Owed(r, "begin_session") /\ ~ Owed(r, "end_session")
               => sessions[r] = Cardinality(Since(r))

\* How the check-ins of a stay change with an event.
LEMMA SinceGrows ==
    ASSUME NEW r, NEW e, seen \in Seq(Events), seen' = Append(seen, e), e \in Events
    PROVE  /\ e.kind = "check_in" /\ e.room = r => Since(r)' = Since(r) \cup {Len(seen) + 1}
           /\ e.room # r \/ e.kind \notin {"check_in", "check_out"} => Since(r)' = Since(r)
           /\ Len(seen) + 1 \notin Since(r)
<1>1. /\ Len(seen) \in Nat /\ Len(seen') = Len(seen) + 1 /\ seen'[Len(seen) + 1] = e
      /\ \A n \in 1..Len(seen) : seen'[n] = seen[n]
  OBVIOUS
<1>2. ASSUME ~ (e.kind = "check_out" /\ e.room = r), NEW n \in 1..Len(seen)
      PROVE  n \in Since(r)' <=> n \in Since(r)
  <2>1. (n + 1)..Len(seen') = ((n + 1)..Len(seen)) \cup {Len(seen) + 1}
    BY <1>1
  <2>2. \A m \in (n + 1)..Len(seen) : seen'[m] = seen[m]
    BY <1>1
  <2>3. n \in 1..Len(seen') /\ seen'[n] = seen[n]
    BY <1>1
  <2>4. QED
    BY <1>1, <1>2, <2>1, <2>2, <2>3 DEF Since
<1>3. Len(seen) + 1 \in Since(r)' <=> e.kind = "check_in" /\ e.room = r
  <2>1. (Len(seen) + 1 + 1)..Len(seen') = {} /\ Len(seen) + 1 \in 1..Len(seen')
    BY <1>1
  <2>2. QED
    BY <1>1, <2>1 DEF Since
<1>4. Since(r) \subseteq 1..Len(seen) /\ Since(r)' \subseteq 1..Len(seen) \cup {Len(seen) + 1}
  BY <1>1 DEF Since
<1>5. Len(seen) + 1 \notin Since(r)
  BY <1>1, <1>4
<1>6. ASSUME e.kind = "check_in", e.room = r PROVE Since(r)' = Since(r) \cup {Len(seen) + 1}
  BY <1>2, <1>3, <1>4, <1>6
<1>7. ASSUME e.room # r \/ e.kind \notin {"check_in", "check_out"} PROVE Since(r)' = Since(r)
  BY <1>2, <1>3, <1>4, <1>7
<1>8. QED
  BY <1>5, <1>6, <1>7

\* A check-out ends the stay.
LEMMA SinceEnds ==
    ASSUME NEW r, seen \in Seq(Events), seen # <<>>,
           seen[Len(seen)].kind = "check_out", seen[Len(seen)].room = r
    PROVE  Since(r) = {}
<1>1. Len(seen) \in Nat /\ Len(seen) \in 1..Len(seen)
  OBVIOUS
<1>2. SUFFICES ASSUME NEW n \in Since(r) PROVE FALSE
  OBVIOUS
<1>3. n \in 1..Len(seen) /\ seen[n].kind = "check_in"
  BY <1>2 DEF Since
<1>4. n # Len(seen)
  BY <1>3
<1>5. Len(seen) \in (n + 1)..Len(seen)
  BY <1>1, <1>3, <1>4
<1>6. QED
  BY <1>2, <1>5 DEF Since

\* A call that does not fail is taken off the script, and nothing else of a session.
LEMMA CallTakenOff ==
    ASSUME GuestInv, NEW h \in Handlers, HandlerStep(h), ~ Finish(h), ~ PbxError(h), ~ DbError(h),
           SessionIsLast(todo[h])
    PROVE  /\ Head(todo[h]) \notin SessionCalls =>
                \A c \in SessionCalls : Owes(h, c)' <=> Owes(h, c)
           /\ Head(todo[h]) \in SessionCalls => \A c \in SessionCalls : ~ Owes(h, c)'
           /\ \A c \in SessionCalls : Head(todo[h]) = c => Owes(h, c)
<1> USE DEF GuestInv
<1>1. /\ todo \in [Handlers -> Seq(CallNames)] /\ todo[h] \in Seq(CallNames)
  BY DEF TypeOK
<1>2. /\ todo[h] # <<>>
      /\ \/ todo'[h] = Tail(todo[h])
         \/ Calling(h, "find") /\ todo'[h] = Tail(Tail(todo[h]))
  BY <1>1 DEF HandlerStep, Log, Pbx, Session, Create, Find, Cancel, Ack, Calling
<1>3. ASSUME NEW s \in Seq(CallNames), s # <<>>, NEW c, c # Head(s)
      PROVE  (\E k \in 1..Len(Tail(s)) : Tail(s)[k] = c) <=> (\E k \in 1..Len(s) : s[k] = c)
  <2>1. (\E k \in 1..Len(s) : s[k] = c) => \E k \in 1..Len(Tail(s)) : Tail(s)[k] = c
    BY <1>3, TailOfScript
  <2>2. \A k \in 1..Len(Tail(s)) : k + 1 \in 1..Len(s) /\ Tail(s)[k] = s[k + 1]
    BY <1>3, TailOfScript
  <2>3. QED
    BY <2>1, <2>2
<1>4. 1 \in 1..Len(todo[h]) /\ Head(todo[h]) = todo[h][1] /\ Len(todo[h]) \in Nat
  BY <1>1, <1>2
<1>5. ASSUME Head(todo[h]) \notin SessionCalls, NEW c \in SessionCalls
      PROVE  Owes(h, c)' <=> Owes(h, c)
  <2>1. c # Head(todo[h]) /\ c # "cancel"
    BY <1>5 DEF SessionCalls
  <2>2. (\E k \in 1..Len(Tail(todo[h])) : Tail(todo[h])[k] = c) <=> Owes(h, c)
    BY <1>1, <1>2, <1>3, <2>1 DEF Owes
  <2>3. CASE todo'[h] = Tail(todo[h])
    BY <2>2, <2>3 DEF Owes
  <2>4. CASE Calling(h, "find") /\ todo'[h] = Tail(Tail(todo[h]))
    <3> DEFINE t == Tail(todo[h])
    <3>1. t # <<>> /\ Head(t) = "cancel" /\ t \in Seq(CallNames)
      BY <1>1, <1>2, <2>4, SkipsTwo
    <3>2. (\E k \in 1..Len(t) : t[k] = c) <=> Owes(h, c)
      BY <2>2
    <3>3. todo'[h] = Tail(t)
      BY <2>4
    <3> HIDE DEF t
    <3>4. (\E k \in 1..Len(Tail(t)) : Tail(t)[k] = c) <=> (\E k \in 1..Len(t) : t[k] = c)
      BY <1>3, <2>1, <3>1
    <3>5. QED
      BY <3>2, <3>3, <3>4 DEF Owes
  <2>5. QED
    BY <1>2, <2>3, <2>4
<1>6. ASSUME Head(todo[h]) \in SessionCalls, NEW c \in SessionCalls
      PROVE  ~ Owes(h, c)'
  <2>1. todo'[h] = Tail(todo[h])
    BY <1>2, <1>6 DEF Calling, SessionCalls
  <2>2. Len(todo[h]) = 3
    <3>1. todo[h][1] \in SessionCalls
      BY <1>4, <1>6
    <3>2. 1 = Len(todo[h]) - 2
      BY <1>4, <3>1 DEF SessionIsLast
    <3>3. QED
      BY <1>4, <3>2
  <2>3. Len(Tail(todo[h])) = 2 /\ SessionIsLast(Tail(todo[h]))
    BY <1>1, <1>2, <2>2, SessionStaysLast
  <2>4. \A k \in 1..Len(Tail(todo[h])) : Tail(todo[h])[k] \notin SessionCalls
    BY <2>3, SMTT(30) DEF SessionIsLast
  <2>5. QED
    BY <2>1, <2>4 DEF Owes
<1>7. \A c \in SessionCalls : Head(todo[h]) = c => Owes(h, c)
  BY <1>4 DEF Owes
<1>8. QED
  BY <1>5, <1>6, <1>7

\* The place of a session call in the scripts is kept by every step.
LEMMA SessionLastStep ==
    ASSUME GuestInv, \A h \in Handlers : SessionIsLast(todo[h]), [Next]_vars
    PROVE  \A h \in Handlers : SessionIsLast(todo[h])'
<1> USE DEF GuestInv
<1>1. todo \in [Handlers -> Seq(CallNames)]
  BY DEF TypeOK
<1>2. SessionIsLast(<<>>) /\ SessionIsLast(<<"failed">>) /\ SessionIsLast(<<"ack", "processed">>)
  BY SessionStaysLast
<1>3. CASE UNCHANGED handling
  BY <1>3
<1>4. CASE Crash
  <2>1. \A h \in Handlers : todo'[h] = <<>>
    BY <1>4 DEF Crash
  <2>2. QED
    BY <1>2, <2>1
<1>5. ASSUME NEW h \in Handlers, Take(h), NEW g \in Handlers PROVE SessionIsLast(todo'[g])
  <2>1. PICK e \in Inputs : todo' = [todo EXCEPT ![h] = Script(e)]
    BY <1>5 DEF Take
  <2>2. SessionIsLast(Script(e))
    BY TenantAssumption, SessionStaysLast
  <2>3. QED
    BY <1>1, <2>1, <2>2
<1>6. ASSUME NEW h \in Handlers, Finish(h), NEW g \in Handlers PROVE SessionIsLast(todo'[g])
  BY <1>1, <1>2, <1>6 DEF Finish
<1>7. ASSUME NEW h \in Handlers, RunsOn(h), NEW g \in Handlers PROVE SessionIsLast(todo'[g])
  <2>1. todo[h] \in Seq(CallNames) /\ todo[h] # <<>> /\ Tail(todo[h]) \in Seq(CallNames)
    BY <1>1, <1>7 DEF RunsOn
  <2>2. SessionIsLast(Tail(todo[h]))
    BY <2>1, SessionStaysLast
  <2>3. Head(todo[h]) = "find" => SessionIsLast(Tail(Tail(todo[h])))
    <3>1. SUFFICES ASSUME Head(todo[h]) = "find" PROVE SessionIsLast(Tail(Tail(todo[h])))
      OBVIOUS
    <3>2. Tail(todo[h]) # <<>>
      BY <2>1, <3>1, SkipsTwo DEF Calling
    <3>3. QED
      BY <2>1, <2>2, <3>2, SessionStaysLast
  <2>4. SessionIsLast(todo'[h])
    BY <1>1, <1>2, <1>7, <2>2, <2>3 DEF RunsOn
  <2>5. QED
    BY <1>1, <1>7, <2>4 DEF RunsOn
<1>8. QED
  BY <1>3, <1>4, <1>5, <1>6, <1>7, HandlingCases

\* What a room is owed, when one goroutine handles the events.
LEMMA OwedByOne ==
    ASSUME \A f, g \in Handlers : f = g, NEW h \in Handlers, NEW r, NEW c
    PROVE  Owed(r, c) <=> doing[h] # 0 /\ Event(h).room = r /\ Owes(h, c)
BY DEF Owed

\* Every step of a lone goroutine keeps the balance.
LEMMA BalanceInvStep ==
    ASSUME \A g, h \in Handlers : g = h, GuestInv, TurnInv, BalanceInv, [Next]_vars
    PROVE  BalanceInv'
<1> USE DEF GuestInv
<1> DEFINE Balanced == \A r \in Rooms :
            /\ Owed(r, "begin_session") => sessions[r] + 1 = Cardinality(Since(r))
            /\ ~ Owed(r, "begin_session") /\ ~ Owed(r, "end_session")
               => sessions[r] = Cardinality(Since(r))
<1>1. \A h \in Handlers : SessionIsLast(todo[h])'
  BY SessionLastStep DEF BalanceInv
<1>2. SUFFICES ASSUME faults' = 0 PROVE Calm' /\ Balanced'
  BY <1>1 DEF BalanceInv
<1>3. faults \in Nat /\ life \in {"running", "stopping", "down"}
      /\ doing \in [Handlers -> 0..MaxEvents] /\ todo \in [Handlers -> Seq(CallNames)]
      /\ seen \in Seq(Events) /\ sessions \in [Rooms -> Nat] /\ Len(seen) \in Nat
  BY DEF TypeOK
<1>4. faults = 0 => Calm /\ Balanced
  BY DEF BalanceInv
<1> HIDE DEF Balanced
<1>5. ASSUME UNCHANGED <<handling, sessions>>, faults = 0, Calm'
      PROVE  Calm' /\ Balanced'
  <2>1. \A r \in Rooms : Since(r)' = Since(r)
    BY <1>5 DEF Since
  <2>2. \A r \in Rooms, c \in SessionCalls : Owed(r, c)' <=> Owed(r, c)
    BY <1>5 DEF Owed, Owes, Event
  <2>3. QED
    BY <1>4, <1>5, <2>1, <2>2 DEF Balanced, SessionCalls
<1>6. ASSUME Scheduler \/ Advance \/ UNCHANGED vars \/ Load
      PROVE  UNCHANGED <<handling, sessions>> /\ faults = 0 /\ Calm'
  <2>1. /\ UNCHANGED <<handling, sessions, life>> /\ (faults' = faults \/ faults' = faults + 1)
        /\ tenant' = tenant \/ tenant' = "loaded"
    BY <1>6 DEF Scheduler, SchedulerStep, Fetch, Dispatch, Mark, MarkError, Advance, Load, vars
  <2>2. faults = 0
    BY <1>2, <1>3, <2>1
  <2>3. QED
    BY <1>4, <2>1, <2>2 DEF Calm
<1>7. ~ Shutdown /\ ~ Crash /\ ~ Unload /\ ~ \E n \in EventIds : Retry(n)
  BY <1>2, <1>3 DEF Shutdown, Crash, Unload, Retry, RetryEvent
<1>8. ~ Down /\ ~ Restart /\ ~ StopAll /\ ~ Unloaded
  <2>1. Down \/ Restart \/ StopAll \/ Unloaded => faults' = faults /\ ~ Calm
    BY DEF Down, Restart, StopAll, Unloaded, Calm
  <2>2. QED
    BY <1>2, <1>4, <2>1
<1>9. ASSUME NEW h \in Handlers, Take(h) PROVE Calm' /\ Balanced'
  <2>1. PICK e \in Inputs : seen' = Append(seen, e) /\ todo' = [todo EXCEPT ![h] = Script(e)]
    BY <1>9 DEF Take
  <2>2. e \in Events /\ Len(seen') = Len(seen) + 1 /\ seen'[Len(seen) + 1] = e
    BY <1>3, <2>1, TenantAssumption
  <2>3. /\ UNCHANGED <<faults, life, tenant, sessions>> /\ doing[h] = 0
        /\ doing'[h] = Len(seen) + 1 /\ todo'[h] = Script(e)
    BY <1>3, <1>9, <2>1 DEF Take
  <2>4. Event(h)' = e
    BY <2>2, <2>3 DEF Event
  <2>5. \A c : Owes(h, c)' => c \in MayCall(e)
    BY <2>2, <2>3, ScriptPaired DEF Owes
  <2>6. ASSUME NEW r \in Rooms, Owed(r, "begin_session")'
        PROVE  e.kind = "check_in" /\ e.room = r
    <3>1. Event(h)'.room = r /\ Owes(h, "begin_session")'
      BY <2>6 DEF Owed
    <3>2. QED
      BY <2>2, <2>4, <2>5, <3>1, WhoseSession
  <2>7. ASSUME NEW r \in Rooms, e.kind \in {"check_in", "check_out"}, e.room = r
        PROVE  Owed(r, "begin_session")' \/ Owed(r, "end_session")'
    <3>1. PICK k \in 1..Len(Calls(e)) : Calls(e)[k] \in SessionCalls
      <4>1. CASE e.kind = "check_in"
        <5>1. Calls(e) = <<"name", "begin_session">>
          BY <2>2, <4>1, WhoseSession
        <5>2. 2 \in 1..Len(<<"name", "begin_session">>) /\ <<"name", "begin_session">>[2] \in SessionCalls
          BY DEF SessionCalls
        <5>3. QED
          BY <5>1, <5>2
      <4>2. CASE e.kind = "check_out"
        BY <2>2, <4>2, CheckOutMayCall DEF SessionCalls
      <4>3. QED
        BY <2>7, <4>1, <4>2
    <3>2. k + 1 \in 1..Len(Script(e)) /\ Script(e)[k + 1] = Calls(e)[k]
      <4>1. Len(Calls(e)) \in Nat
        BY <2>2, CallsShape
      <4>2. QED
        BY <2>2, <3>1, <4>1, ScriptShape
    <3>3. Owes(h, "begin_session")' \/ Owes(h, "end_session")'
      BY <2>3, <3>1, <3>2 DEF Owes, SessionCalls
    <3>4. doing'[h] # 0 /\ Event(h)'.room = r
      BY <1>3, <2>3, <2>4, <2>7
    <3>5. QED
      BY <3>3, <3>4 DEF Owed
  <2>8. \A r \in Rooms : sessions[r] = Cardinality(Since(r)) /\ IsFiniteSet(Since(r))
    <3>1. \A g \in Handlers : doing[g] = 0
      BY <2>3
    <3>2. \A r \in Rooms : ~ Owed(r, "begin_session") /\ ~ Owed(r, "end_session")
      BY <3>1 DEF Owed
    <3>3. faults = 0
      BY <1>2, <2>3
    <3>4. \A r \in Rooms : Since(r) \subseteq 1..Len(seen)
      BY DEF Since
    <3>5. \A r \in Rooms : IsFiniteSet(Since(r))
      <4>1. IsFiniteSet(1..Len(seen))
        BY <1>3, FS_Interval
      <4>2. QED
        BY <3>4, <4>1, FS_Subset
    <3>6. QED
      BY <1>4, <3>2, <3>3, <3>5 DEF Balanced
  <2>9. ASSUME NEW r \in Rooms, Owed(r, "begin_session")'
        PROVE  sessions'[r] + 1 = Cardinality(Since(r)')
    <3>1. Since(r)' = Since(r) \cup {Len(seen) + 1} /\ Len(seen) + 1 \notin Since(r)
      BY <1>3, <2>1, <2>2, <2>6, <2>9, SinceGrows
    <3>2. Cardinality(Since(r) \cup {Len(seen) + 1}) = Cardinality(Since(r)) + 1
      BY <2>8, <3>1, FS_AddElement
    <3>3. QED
      BY <2>3, <2>8, <3>1, <3>2
  <2>10. ASSUME NEW r \in Rooms, ~ Owed(r, "begin_session")', ~ Owed(r, "end_session")'
         PROVE  sessions'[r] = Cardinality(Since(r)')
    <3>1. Since(r)' = Since(r)
      BY <1>3, <2>1, <2>2, <2>7, <2>10, SinceGrows
    <3>2. QED
      BY <2>3, <2>8, <3>1
  <2>11. QED
    BY <1>2, <1>4, <2>3, <2>9, <2>10 DEF Balanced, Calm
<1>10. ASSUME NEW h \in Handlers, HandlerStep(h) PROVE Calm' /\ Balanced'
  <2>1. UNCHANGED <<life, tenant>> /\ (faults' = faults \/ faults' = faults + 1) /\ seen' = seen
    BY <1>10 DEF HandlerStep, Log, Pbx, PbxError, Session, Create, Find, Cancel, DbError, Ack, Finish
  <2>2. faults = 0 /\ Calm /\ Calm' /\ faults' = faults /\ Balanced
    <3>1. faults = 0 /\ faults' = faults
      BY <1>2, <1>3, <2>1
    <3>2. QED
      BY <1>4, <2>1, <3>1 DEF Calm
  <2>3. ~ PbxError(h) /\ ~ DbError(h)
    <3>1. faults' # faults + 1 /\ tenant # "leaving"
      BY <1>3, <2>2 DEF Calm
    <3>2. QED
      BY <3>1 DEF PbxError, DbError
  <2>4. \A r \in Rooms : Since(r)' = Since(r)
    BY <2>1 DEF Since
  <2>5. /\ todo[h] # <<>> /\ doing[h] # 0 /\ doing[h] = Len(seen) /\ Event(h) \in Events
        /\ Head(todo[h]) \in MayCall(Event(h)) /\ Event(h).room \in Rooms /\ seen # <<>>
    <3>1. todo[h] # <<>>
      BY <1>10 DEF HandlerStep, Log, Pbx, PbxError, Session, Create, Find, Cancel, DbError, Ack,
                   Finish, Calling
    <3>2. doing[h] \in 1..Len(seen) /\ Event(h) \in Events /\ Head(todo[h]) \in MayCall(Event(h))
          /\ Event(h).room \in Rooms
      BY <3>1, HasEvent
    <3>3. doing[h] # 0 /\ seen # <<>>
      BY <1>3, <3>2
    <3>4. QED
      BY <3>1, <3>2, <3>3 DEF TurnInv
  <2>6. CASE Finish(h)
    <3>1. /\ doing' = [doing EXCEPT ![h] = 0] /\ sessions' = sessions
          /\ Head(todo[h]) \in {"processed", "failed"}
      BY <2>6 DEF Finish, Calling
    <3>2. \A c \in SessionCalls : ~ Owes(h, c)
      <4>1. /\ todo[h][1] \in {"processed", "failed"} /\ 1 \in 1..Len(todo[h]) /\ Len(todo[h]) \in Nat
        BY <1>3, <2>5, <3>1
      <4>2. 1 = Len(todo[h])
        BY <4>1 DEF TurnInv, EndsWithMark
      <4>3. QED
        BY <4>1, <4>2 DEF Owes, SessionCalls
    <3>3. doing'[h] = 0
      BY <1>3, <3>1
    <3>4. \A r \in Rooms, c \in SessionCalls : ~ Owed(r, c) /\ ~ Owed(r, c)'
      BY <3>2, <3>3 DEF Owed
    <3>5. QED
      BY <2>1, <2>2, <2>4, <3>1, <3>4 DEF Balanced, SessionCalls
  <2>7. CASE ~ Finish(h)
    <3>1. doing' = doing /\ Event(h)' = Event(h)
      BY <1>10, <2>1, <2>7, HandlerRunsOn DEF RunsOn, Event
    <3>2. /\ Head(todo[h]) \notin SessionCalls =>
                \A c \in SessionCalls : Owes(h, c)' <=> Owes(h, c)
          /\ Head(todo[h]) \in SessionCalls => \A c \in SessionCalls : ~ Owes(h, c)'
          /\ \A c \in SessionCalls : Head(todo[h]) = c => Owes(h, c)
      BY <1>10, <2>3, <2>7, CallTakenOff DEF BalanceInv
    <3>3. \A r \in Rooms, c \in SessionCalls :
            /\ Owed(r, c) <=> Event(h).room = r /\ Owes(h, c)
            /\ Owed(r, c)' <=> Event(h).room = r /\ Owes(h, c)'
      <4>1. doing'[h] # 0
        BY <2>5, <3>1
      <4>2. QED
        BY <2>5, <3>1, <4>1 DEF Owed
    <3>4. CASE Head(todo[h]) \notin SessionCalls
      <4>1. sessions' = sessions
        BY <1>10, <2>3, <3>4 DEF HandlerStep, Log, Pbx, Session, Create, Find, Cancel, Ack, Finish,
                                 Calling, SessionCalls
      <4>2. \A r \in Rooms, c \in SessionCalls : Owed(r, c)' <=> Owed(r, c)
        BY <3>2, <3>3, <3>4
      <4>3. QED
        BY <2>1, <2>2, <2>4, <4>1, <4>2 DEF Balanced, SessionCalls
    <3>5. CASE Head(todo[h]) \in SessionCalls
      <4> DEFINE r0 == Event(h).room
      <4>1. \A r \in Rooms, c \in SessionCalls : ~ Owed(r, c)'
        BY <3>2, <3>3, <3>5
      <4>2. Session(h)
        BY <1>10, <2>3, <3>5 DEF HandlerStep, Log, Pbx, Create, Find, Cancel, Ack, Finish,
                                 Calling, SessionCalls, PbxCalls
      <4>3. \A r \in Rooms : r # r0 => sessions'[r] = sessions[r] /\ \A c \in SessionCalls : ~ Owed(r, c)
        BY <1>3, <2>5, <3>3, <4>2 DEF Session
      <4>4. CASE Head(todo[h]) = "begin_session"
        <5>1. sessions'[r0] = sessions[r0] + 1
          <6>1. sessions' = [sessions EXCEPT ![r0] = sessions[r0] + 1]
            BY <4>2, <4>4 DEF Session, Calling
          <6>2. QED
            BY <1>3, <2>5, <6>1
        <5>2. Owed(r0, "begin_session")
          BY <2>5, <3>2, <3>3, <4>4 DEF SessionCalls
        <5>3. sessions'[r0] = Cardinality(Since(r0))
          BY <2>2, <2>5, <5>1, <5>2 DEF Balanced
        <5>4. QED
          BY <2>1, <2>2, <2>4, <4>1, <4>3, <5>3 DEF Balanced, SessionCalls
      <4>5. CASE Head(todo[h]) = "end_session"
        <5>1. sessions'[r0] = 0
          <6>1. sessions' = [sessions EXCEPT ![r0] = 0]
            BY <4>2, <4>5 DEF Session, Calling, EndGuestSession
          <6>2. QED
            BY <1>3, <2>5, <6>1
        <5>2. Event(h).kind = "check_out"
          BY <2>5, <4>5, WhoseSession
        <5>3. Since(r0) = {}
          BY <1>3, <2>5, <5>2, SinceEnds DEF Event
        <5>4. sessions'[r0] = Cardinality(Since(r0))
          BY <5>1, <5>3, FS_EmptySet
        <5>5. QED
          BY <2>1, <2>2, <2>4, <4>1, <4>3, <5>4 DEF Balanced, SessionCalls
      <4>6. QED
        BY <3>5, <4>4, <4>5 DEF SessionCalls
    <3>6. QED
      BY <3>4, <3>5
  <2>8. QED
    BY <2>6, <2>7
<1>11. QED
  BY <1>5, <1>6, <1>7, <1>8, <1>9, <1>10 DEF Next, Process, Handle

\* With one goroutine, and while nothing has failed: when no event is being handled, a
\* room has one active session for each check-in since its last check-out.
THEOREM SessionsAreBalanced ==
    ASSUME \A g, h \in Handlers : g = h
    PROVE  Spec => []SessionsBalance
<1>1. ASSUME Init PROVE BalanceInv
  <2>1. /\ seen = <<>> /\ doing = [h \in Handlers |-> 0] /\ todo = [h \in Handlers |-> <<>>]
        /\ sessions = [r \in Rooms |-> 0] /\ life = "running" /\ tenant = "loaded"
    BY <1>1, Zenon DEF Init, TenantInit
  <2>2. \A h \in Handlers : doing[h] = 0 /\ SessionIsLast(todo[h])
    BY <2>1, SessionStaysLast
  <2>3. \A r \in Rooms : \A c : ~ Owed(r, c)
    BY <2>2 DEF Owed
  <2>4. \A r \in Rooms : Since(r) = {} /\ sessions[r] = 0
    BY <2>1 DEF Since
  <2>5. QED
    BY <2>1, <2>2, <2>3, <2>4, FS_EmptySet DEF BalanceInv, Calm
<1>2. GuestInv /\ TurnInv /\ BalanceInv /\ [Next]_vars => BalanceInv'
  BY BalanceInvStep
<1>3. BalanceInv => SessionsBalance
  BY DEF BalanceInv, SessionsBalance, AllIdle, Idle, Owed
<1>4. Spec => [](GuestInv /\ TurnInv)
  BY TurnInvInductive
<1>5. QED
  BY <1>1, <1>2, <1>3, <1>4, PTL DEF Spec
=============================================================================
