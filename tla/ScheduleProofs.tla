--------------------------- MODULE ScheduleProofs ---------------------------
(***************************************************************************)
(* Proofs about Schedule, for any events, handles, resources and clocks.   *)
(***************************************************************************)
EXTENDS Schedule, TLAPS

(* What the operators of the model return.                                 *)

\* update_nexts finds None or a time and an event.
LEMMA NextsType ==
  ASSUME NEW st, NEW key \in [Event -> Int], NEW want,
         NEW n \in Nexts(st, key, want)
  PROVE  n \in (Int \X Event) \cup {None}
  BY DEF Nexts

\* insert leaves a pointer of the type update_nexts gives it.
LEMMA InsertNextType ==
  ASSUME NEW n \in (Int \X Event) \cup {None}, NEW counts, NEW k \in Int,
         NEW e \in Event
  PROVE  InsertNext(n, counts, k, e) \in (Int \X Event) \cup {None}
  BY DEF InsertNext

\* Times stay integers after randomisation.
LEMMA RandomType ==
  ASSUME NEW e \in Event, NEW s \in RandomStart(e), NEW t \in RandomEnd(e, s)
  PROVE  s \in Int /\ t \in Int
<1>1. \A b \in Int : \A r \in Randomize(b) : r \in Int
  BY DEF Randomize
<1>2. IsResource(Resource[e])
  BY ResourceAssumption
<1>3. s \in Int
  BY <1>1, <1>2 DEF RandomStart, IsResource
<1>4. t \in Int
  BY <1>1, <1>2, <1>3 DEF RandomEnd, IsResource
<1> QED BY <1>3, <1>4

\* Every superseded event is answered with a response status.
LEMMA ReplyType ==
  ASSUME NEW e, NEW prev, NEW by
  PROVE  SupersededReply(e, prev, by) \in ResponseStatus
  BY DEF SupersededReply, ResponseStatus

\* A pointer that is due names an event.
LEMMA DueType ==
  ASSUME NEW n \in (Int \X Event) \cup {None}, Due(n)
  PROVE  n[2] \in Event /\ n \in Int \X Event
  BY DEF Due

-----------------------------------------------------------------------------
(* Type correctness.                                                       *)

\* Init: nothing is stored and no call is in progress.
LEMMA InitType == Init => TypeOK
<1> SUFFICES ASSUME Init PROVE TypeOK
  OBVIOUS
<1>1. /\ now \in Nat /\ last_prune \in Nat
      /\ start \in [Event -> Int] /\ end \in [Event -> Int]
      /\ time_offset \in [Handle -> Int]
  BY DEF Init
<1>2. /\ status \in [Event -> EIStatus \cup {"Absent"}]
      /\ superseded_by \in [Event -> SUBSET Event]
      /\ client \in [Event -> EIStatus \cup {"Unaware", "Declined"}]
      /\ reply \in [Event -> ResponseStatus \cup {"Nothing"}]
      /\ call \in [Handle -> Call \cup {None}]
  BY DEF Init
<1>3. /\ next_start = None /\ next_end = None /\ running = Task
      /\ sd \in BOOLEAN /\ touched = {} /\ cancelled = {}
  BY Zenon DEF Init
<1> QED BY <1>1, <1>2, <1>3 DEF TypeOK, Call

\* update_event with a status of EIStatus keeps the types of what it assigns.
LEMMA UpdateEventType ==
  ASSUME TypeOK, NEW st \in [Event -> EIStatus \cup {"Absent"}],
         NEW e \in Event, NEW s \in EIStatus, UpdateEvent(st, e, s)
  PROVE  /\ status' \in [Event -> EIStatus \cup {"Absent"}]
         /\ next_start' \in (Int \X Event) \cup {None}
         /\ next_end' \in (Int \X Event) \cup {None}
<1>1. /\ next_start' \in Nexts([st EXCEPT ![e] = s], start, "Scheduled")
      /\ next_end' \in Nexts([st EXCEPT ![e] = s], end, "Active")
      /\ status' = [st EXCEPT ![e] = s]
  BY DEF UpdateEvent, UpdateNexts
<1>2. start \in [Event -> Int] /\ end \in [Event -> Int]
  BY DEF TypeOK
<1> QED BY <1>1, <1>2, NextsType

\* der_start_task keeps the types, whichever the answer of the handler.
LEMMA StartTaskType == TypeOK /\ StartTask => TypeOK'
<1> SUFFICES ASSUME TypeOK, StartTask PROVE TypeOK'
  OBVIOUS
<1> DEFINE e == next_start[2]
<1>1. e \in Event
  BY DueType DEF TypeOK, StartTask
<1>2. PICK answer \in {"EventStarted", "EventOptOut"} :
        /\ UpdateEvent(status, e, AfterAnswer(answer))
        /\ client' = [client EXCEPT ![e] =
             IF answer = "EventOptOut" THEN "Declined" ELSE "Active"]
        /\ reply' = [reply EXCEPT ![e] = answer]
  BY DEF StartTask
<1>3. AfterAnswer(answer) \in EIStatus
  BY DEF AfterAnswer, EIStatus
<1>4. /\ status' \in [Event -> EIStatus \cup {"Absent"}]
      /\ next_start' \in (Int \X Event) \cup {None}
      /\ next_end' \in (Int \X Event) \cup {None}
  <2>1. status \in [Event -> EIStatus \cup {"Absent"}]
    BY DEF TypeOK
  <2> HIDE DEF e
  <2> QED BY <1>1, <1>2, <1>3, <2>1, UpdateEventType
<1>5. /\ client' \in [Event -> EIStatus \cup {"Unaware", "Declined"}]
      /\ reply' \in [Event -> ResponseStatus \cup {"Nothing"}]
      /\ touched' \subseteq Event
  <2> touched' = touched \cup {e}
    BY DEF StartTask
  <2> HIDE DEF e
  <2> QED BY <1>1, <1>2 DEF TypeOK, EIStatus, ResponseStatus
<1> QED BY <1>4, <1>5 DEF TypeOK, StartTask

\* der_end_task keeps the types.
LEMMA EndTaskType == TypeOK /\ EndTask => TypeOK'
<1> SUFFICES ASSUME TypeOK, EndTask PROVE TypeOK'
  OBVIOUS
<1> DEFINE e == next_end[2]
<1>1. e \in Event
  BY DueType DEF TypeOK, EndTask
<1>2. /\ UpdateEvent(status, e, "Complete")
      /\ client' = [client EXCEPT ![e] = "Complete"]
      /\ reply' = [reply EXCEPT ![e] = "EventCompleted"]
      /\ touched' = touched \cup {e}
  BY DEF EndTask, ToResponse
<1>3. /\ status' \in [Event -> EIStatus \cup {"Absent"}]
      /\ next_start' \in (Int \X Event) \cup {None}
      /\ next_end' \in (Int \X Event) \cup {None}
  <2>1. status \in [Event -> EIStatus \cup {"Absent"}] /\ "Complete" \in EIStatus
    BY DEF TypeOK, EIStatus
  <2> HIDE DEF e
  <2> QED BY <1>1, <1>2, <2>1, UpdateEventType
<1>4. /\ client' \in [Event -> EIStatus \cup {"Unaware", "Declined"}]
      /\ reply' \in [Event -> ResponseStatus \cup {"Nothing"}]
      /\ touched' \subseteq Event
  <2> HIDE DEF e
  <2> QED BY <1>1, <1>2 DEF TypeOK, EIStatus, ResponseStatus
<1> QED BY <1>3, <1>4 DEF TypeOK, EndTask

\* clean_events keeps the types.
LEMMA CleanType == TypeOK /\ Clean => TypeOK'
  BY DEF TypeOK, Clean, events, outside

\* The read half of add_event keeps the types: the status it finds fits a Call.
LEMMA ReadType ==
  ASSUME TypeOK, NEW h \in Handle, NEW e \in Feed[h], NEW s \in Incoming,
         Read(h, e, s)
  PROVE  TypeOK'
<1>1. e \in Event /\ s \in EventStatusType
  BY InputAssumption
<1>2. status[e] \in {"Absent", "Scheduled", "Active"}
  BY DEF Read, Withdraws
<1>3. call' \in [Handle -> Call \cup {None}]
  BY <1>1, <1>2 DEF Read, TypeOK, Call
<1> QED BY <1>3 DEF TypeOK, Read, events, outside, Call

\* What a call in progress holds.
LEMMA CallType ==
  ASSUME TypeOK, NEW h \in Handle, call[h] # None
  PROVE  /\ call[h].event \in Event
         /\ call[h].cur \in {"Absent", "Scheduled", "Active"}
         /\ call[h].incoming \in EventStatusType
  BY DEF TypeOK, Call

\* A call that has ended.
LEMMA CallDone ==
  ASSUME TypeOK, NEW h \in Handle, call' = [call EXCEPT ![h] = None]
  PROVE  call' \in [Handle -> Call \cup {None}]
  BY DEF TypeOK, Call

\* cancel_dercontrol keeps the types.
LEMMA CancelType ==
  ASSUME TypeOK, NEW h \in Handle, Cancel(h)
  PROVE  TypeOK'
<1> DEFINE e == call[h].event
           reason == call[h].incoming
           freed == Freed(e, HandleTime(h))
           st == [o \in Event |-> IF o \in freed THEN "Scheduled" ELSE status[o]]
<1>1. e \in Event /\ reason \in EventStatusType
  BY CallType DEF Cancel
<1>2. reason \in EIStatus /\ ToResponse[reason] \in ResponseStatus
  BY <1>1 DEF EventStatusType, CancelReason, EIStatus, ToResponse, ResponseStatus
<1>3. st \in [Event -> EIStatus \cup {"Absent"}]
  BY DEF TypeOK, EIStatus
<1>4. /\ UpdateEvent(st, e, reason)
      /\ superseded_by' = [o \in Event |->
           IF status[o] = "Superseded" THEN superseded_by[o] \ {e}
           ELSE superseded_by[o]]
      /\ touched' = touched \cup freed \cup {e}
      /\ cancelled' = cancelled \cup {e}
      /\ client' = IF call[h].cur = "Active"
                   THEN [client EXCEPT ![e] = reason] ELSE client
      /\ reply' = [reply EXCEPT ![e] =
           IF call[h].cur = "Active" THEN ToResponse[reason]
           ELSE "EventCancelled"]
  BY DEF Cancel
<1>5. freed \subseteq Event
  BY DEF Freed
<1>6. call' \in [Handle -> Call \cup {None}]
  BY CallDone DEF Cancel
<1> HIDE DEF e, reason, freed, st
<1>7. /\ status' \in [Event -> EIStatus \cup {"Absent"}]
      /\ next_start' \in (Int \X Event) \cup {None}
      /\ next_end' \in (Int \X Event) \cup {None}
  BY <1>1, <1>2, <1>3, <1>4, UpdateEventType
<1>8. superseded_by' \in [Event -> SUBSET Event]
  BY <1>4 DEF TypeOK
<1>9. touched' \subseteq Event /\ cancelled' \subseteq Event
  BY <1>1, <1>4, <1>5 DEF TypeOK
<1>10. client' \in [Event -> EIStatus \cup {"Unaware", "Declined"}]
  BY <1>1, <1>2, <1>4 DEF TypeOK
<1>11. reply' \in [Event -> ResponseStatus \cup {"Nothing"}]
  BY <1>1, <1>2, <1>4 DEF TypeOK, ResponseStatus
<1>12. UNCHANGED <<now, start, end, time_offset, running, sd, last_prune>>
  BY DEF Cancel
<1> QED
  BY <1>6, <1>7, <1>8, <1>9, <1>10, <1>11, <1>12 DEF TypeOK, Call

\* The two early returns of add_event keep the types.
LEMMA RejectType ==
  ASSUME TypeOK, NEW h \in Handle, RejectWithdrawn(h) \/ RejectExpired(h)
  PROVE  TypeOK'
<1>1. call' \in [Handle -> Call \cup {None}]
  BY CallDone DEF RejectWithdrawn, RejectExpired
<1>2. call[h].event \in Event /\ call[h].incoming \in EventStatusType
  BY CallType DEF RejectWithdrawn, RejectExpired, Inserting
<1>3. ToResponse[call[h].incoming] \in ResponseStatus
  BY <1>2 DEF EventStatusType, CancelReason, ToResponse, ResponseStatus
<1>4. reply' \in [Event -> ResponseStatus \cup {"Nothing"}]
  BY <1>2, <1>3 DEF TypeOK, RejectWithdrawn, RejectExpired, ResponseStatus
<1> QED
  BY <1>1, <1>4 DEF TypeOK, RejectWithdrawn, RejectExpired, events, Call

\* The supersession loop and the insertion keep the types.
LEMMA StoreType ==
  ASSUME TypeOK, NEW h \in Handle,
         NEW s \in RandomStart(call[h].event),
         NEW t \in RandomEnd(call[h].event, s),
         Store(h, s, t)
  PROVE  TypeOK'
<1> DEFINE e == call[h].event
           losers == Losers(e, s, t)
           winners == Winners(e, s, t)
           arrives == call[h].incoming
           final == IF winners = {} THEN arrives ELSE "Superseded"
           st == [o \in Event |-> IF o \in losers THEN "Superseded" ELSE status[o]]
<1>1. e \in Event /\ arrives \in {"Scheduled", "Active"}
  BY CallType DEF Store, Inserting, EventStatusType
<1>2. s \in Int /\ t \in Int
  BY <1>1, RandomType
<1>3. final \in EIStatus
  BY <1>1 DEF EIStatus
<1>4. losers \subseteq Event /\ winners \subseteq Event
  BY DEF Losers, Winners, Stored
<1>5. st \in [Event -> EIStatus \cup {"Absent"}]
  BY DEF TypeOK, EIStatus
<1>6. /\ status' = [st EXCEPT ![e] = final]
      /\ start' = [start EXCEPT ![e] = s]
      /\ end' = [end EXCEPT ![e] = t]
      /\ superseded_by' = [o \in Event |->
           IF o = e THEN winners
           ELSE IF o \in losers THEN superseded_by[o] \cup {e}
           ELSE superseded_by[o]]
      /\ \E n \in Nexts(st, start, "Scheduled") :
           next_start' = InsertNext(n, final = "Scheduled", s, e)
      /\ \E n \in Nexts(st, end, "Active") :
           next_end' = InsertNext(n, final = "Active", t, e)
      /\ touched' = touched \cup losers \cup {e}
      /\ client' = [o \in Event |->
           IF o \in Interrupted(e, losers, winners, arrives)
           THEN "Superseded" ELSE client[o]]
  BY DEF Store
<1>7. PICK own \in ResponseStatus :
        reply' = [o \in Event |->
          IF o = e THEN own
          ELSE IF o \in losers THEN SupersededReply(o, status[o], e)
          ELSE reply[o]]
  <2>1. \A w : LoopReply(e, arrives, winners, w) \in ResponseStatus
    BY ReplyType DEF LoopReply
  <2>2. "EventReceived" \in ResponseStatus
    BY DEF ResponseStatus
  <2> QED BY <2>1, <2>2 DEF Store
<1>8. call' \in [Handle -> Call \cup {None}]
  BY CallDone DEF Store
<1>9. UNCHANGED <<now, time_offset, running, sd, last_prune, cancelled>>
  BY DEF Store
<1> HIDE DEF e, losers, winners, arrives, final, st
<1>10. status' \in [Event -> EIStatus \cup {"Absent"}]
  BY <1>3, <1>5, <1>6
<1>11. start' \in [Event -> Int] /\ end' \in [Event -> Int]
  BY <1>2, <1>6 DEF TypeOK
<1>12. superseded_by' \in [Event -> SUBSET Event]
  BY <1>1, <1>4, <1>6 DEF TypeOK
<1>13. /\ next_start' \in (Int \X Event) \cup {None}
       /\ next_end' \in (Int \X Event) \cup {None}
  <2>1. /\ \A n \in Nexts(st, start, "Scheduled") : n \in (Int \X Event) \cup {None}
        /\ \A n \in Nexts(st, end, "Active") : n \in (Int \X Event) \cup {None}
    BY NextsType DEF TypeOK
  <2> QED BY <1>1, <1>2, <1>6, <2>1, InsertNextType
<1>14. touched' \subseteq Event
  BY <1>1, <1>4, <1>6 DEF TypeOK
<1>15. client' \in [Event -> EIStatus \cup {"Unaware", "Declined"}]
  BY <1>6 DEF TypeOK, EIStatus
<1>16. reply' \in [Event -> ResponseStatus \cup {"Nothing"}]
  BY <1>7, ReplyType DEF TypeOK
<1> QED
  BY <1>8, <1>9, <1>10, <1>11, <1>12, <1>13, <1>14, <1>15, <1>16
  DEF TypeOK, Call

\* The steps that touch no event: the clock, the offsets and the shutdown.
LEMMA OtherType ==
  ASSUME TypeOK,
         \/ Tick \/ Shutdown \/ \E t \in Task : TaskExit(t)
         \/ \E h \in Handle : \E d \in Drift : UpdateTime(h, d)
  PROVE  TypeOK'
<1>1. CASE Tick
  BY <1>1 DEF Tick, TypeOK, events, outside
<1>2. CASE Shutdown
  BY <1>2 DEF Shutdown, TypeOK, events, outside
<1>3. CASE \E t \in Task : TaskExit(t)
  BY <1>3 DEF TaskExit, TypeOK, events, outside
<1>4. CASE \E h \in Handle : \E d \in Drift : UpdateTime(h, d)
  BY <1>4, InputAssumption DEF UpdateTime, TypeOK, events, outside
<1> QED BY <1>1, <1>2, <1>3, <1>4

\* Every step keeps the types.
LEMMA NextType == TypeOK /\ [Next]_vars => TypeOK'
<1> SUFFICES ASSUME TypeOK, [Next]_vars PROVE TypeOK'
  OBVIOUS
<1>1. CASE StartTask
  BY <1>1, StartTaskType
<1>2. CASE EndTask
  BY <1>2, EndTaskType
<1>3. CASE Clean
  BY <1>3, CleanType
<1>4. CASE \E h \in Handle : \E e \in Feed[h] : \E s \in Incoming : Read(h, e, s)
  BY <1>4, ReadType
<1>5. CASE \E h \in Handle : Finish(h)
  BY <1>5, CancelType, RejectType, StoreType DEF Finish
<1>6. CASE \/ Tick \/ Shutdown \/ \E t \in Task : TaskExit(t)
           \/ \E h \in Handle : \E d \in Drift : UpdateTime(h, d)
  BY <1>6, OtherType
<1>7. CASE UNCHANGED vars
  BY <1>7 DEF vars, events, outside, TypeOK
<1> QED BY <1>1, <1>2, <1>3, <1>4, <1>5, <1>6, <1>7 DEF Next

\* Every variable keeps its type, whatever the events and the clocks are:
\* the two halves of add_event fit together across every interleaving.
THEOREM TypeCorrect == Spec => []TypeOK
<1>1. Init => TypeOK
  BY InitType
<1>2. TypeOK /\ [Next]_vars => TypeOK'
  BY NextType
<1> QED BY <1>1, <1>2, PTL DEF Spec

-----------------------------------------------------------------------------
(* Safety, when no two handles are given the same event: AddedTwice shows  *)
(* what happens when they are.                                             *)

FeedsDisjoint ==
  \A g, h \in Handle : g # h => Feed[g] \cap Feed[h] = {}

\* What a call has read is still so when it takes the write lock, as far as
\* being stored goes.
PendingInv ==
  \A h \in Handle : call[h] # None =>
    /\ call[h].event \in Feed[h]
    /\ call[h].cur = "Absent" => status[call[h].event] = "Absent"
    /\ call[h].cur # "Absent" => /\ status[call[h].event] # "Absent"
                                 /\ call[h].incoming \in CancelReason

\* What may run is superseded by nothing, and every stored event lists the
\* stored events that supersede it, save those the server has withdrawn.
SupersessionInv ==
  /\ \A e \in Event : Live(e) => superseded_by[e] = {}
  /\ \A f, e \in Stored :
       /\ Supersedes(f, start[f], end[f], e, start[e], end[e])
       /\ f \notin cancelled
       => f \in superseded_by[e]

IInv == TypeOK /\ NextsValid /\ PendingInv /\ SupersessionInv

(* Lemmas about the pointers.                                              *)

\* The pointers depend only on the events of the status they count, and on
\* their times.
LEMMA NextsSame ==
  ASSUME NEW want, NEW st, NEW st2, NEW key, NEW key2,
         \A e \in Event : st[e] = want <=> st2[e] = want,
         \A e \in Event : st[e] = want => key[e] = key2[e]
  PROVE  Nexts(st, key, want) = Nexts(st2, key2, want)
<1> DEFINE E == {e \in Event : st[e] = want}
           E2 == {e \in Event : st2[e] = want}
           Earliest(k, S) == {x \in S : \A y \in S : k[x] <= k[y]}
<1>1. E = E2
  OBVIOUS
<1>2. \A e \in E : key[e] = key2[e]
  OBVIOUS
<1>3. Earliest(key, E) = Earliest(key2, E2)
  BY <1>1, <1>2
<1>4. {<<key[e], e>> : e \in Earliest(key, E)}
        = {<<key2[e], e>> : e \in Earliest(key2, E2)}
  BY <1>2, <1>3
<1> QED BY <1>1, <1>4 DEF Nexts

\* A pointer that is not None names an event of its status, with its time.
LEMMA NextsEvent ==
  ASSUME NEW st, NEW key \in [Event -> Int], NEW want,
         NEW n \in Nexts(st, key, want), n # None
  PROVE  n[2] \in Event /\ st[n[2]] = want /\ n[1] = key[n[2]]
  BY DEF Nexts

\* insert moves a valid pointer of the map without e to a valid pointer of
\* the map with e.
LEMMA InsertNextValid ==
  ASSUME NEW st \in [Event -> EIStatus \cup {"Absent"}],
         NEW key \in [Event -> Int], NEW want \in EIStatus,
         NEW e \in Event, st[e] = "Absent", NEW k \in Int,
         NEW final \in EIStatus,
         NEW n \in Nexts(st, key, want)
  PROVE  InsertNext(n, final = want, k, e)
           \in Nexts([st EXCEPT ![e] = final], [key EXCEPT ![e] = k], want)
<1> DEFINE st2 == [st EXCEPT ![e] = final]
           key2 == [key EXCEPT ![e] = k]
           E == {x \in Event : st[x] = want}
           E2 == {x \in Event : st2[x] = want}
<1>1. e \notin E
  BY DEF EIStatus
<1>2. \A x \in E : key2[x] = key[x] /\ key[x] \in Int
  BY <1>1
<1>3. key2[e] = k
  OBVIOUS
<1>4. CASE final # want
  <2>1. \A x \in Event : st[x] = want <=> st2[x] = want
    BY <1>1, <1>4
  <2>2. Nexts(st, key, want) = Nexts(st2, key2, want)
    <3> HIDE DEF st2, key2
    <3> QED BY <1>2, <2>1, NextsSame
  <2> QED BY <1>4, <2>2 DEF InsertNext
<1>5. CASE final = want
  <2>1. E2 = E \cup {e}
    BY <1>5
  <2>2. \A x \in E2 : (\A y \in E2 : key2[x] <= key2[y])
                      => <<key2[x], x>> \in Nexts(st2, key2, want)
    BY DEF Nexts
  <2> HIDE DEF st2, key2, E2
  <2>3. CASE n = None
    <3>1. E = {}
      <4>1. Nexts(st, key, want) \subseteq Int \X Event \/ E = {}
        BY DEF Nexts
      <4> QED BY <2>3, <4>1, NoneAssumption
    <3>2. e \in E2 /\ \A y \in E2 : key2[e] <= key2[y]
      BY <1>3, <2>1, <3>1
    <3>3. <<k, e>> \in Nexts(st2, key2, want)
      BY <1>3, <2>2, <3>2
    <3> QED BY <1>5, <2>3, <3>3 DEF InsertNext, st2, key2
  <2>4. CASE n # None
    <3>1. PICK x \in E : n = <<key[x], x>> /\ \A y \in E : key[x] <= key[y]
      BY <2>4 DEF Nexts
    <3> HIDE DEF E
    <3>2. CASE k < key[x]
      <4>1. e \in E2 /\ \A y \in E2 : key2[e] <= key2[y]
        BY <1>2, <1>3, <2>1, <3>1, <3>2
      <4>2. <<k, e>> \in Nexts(st2, key2, want)
        BY <1>3, <2>2, <4>1
      <4>3. InsertNext(n, final = want, k, e) = <<k, e>>
        BY <1>5, <2>4, <3>1, <3>2 DEF InsertNext
      <4> QED BY <4>2, <4>3 DEF st2, key2
    <3>3. CASE ~(k < key[x])
      <4>1. x \in E2 /\ \A y \in E2 : key2[x] <= key2[y]
        BY <1>2, <1>3, <2>1, <3>1, <3>3
      <4>2. n \in Nexts(st2, key2, want)
        BY <1>2, <2>2, <3>1, <4>1
      <4>3. InsertNext(n, final = want, k, e) = n
        BY <1>5, <2>4, <3>1, <3>3 DEF InsertNext
      <4> QED BY <4>2, <4>3 DEF st2, key2
    <3> QED BY <3>2, <3>3
  <2> QED BY <2>3, <2>4 DEF st2, key2
<1> QED BY <1>4, <1>5

\* update_event leaves valid pointers.
LEMMA UpdateEventNexts ==
  ASSUME NEW st, NEW e, NEW s, UpdateEvent(st, e, s), UNCHANGED <<start, end>>
  PROVE  NextsValid'
  BY DEF UpdateEvent, UpdateNexts, NextsValid, Nexts

(* Each step keeps the pointers valid.                                     *)

\* A prune forgets no event that a pointer counts.
LEMMA CleanNexts == TypeOK /\ NextsValid /\ Clean => NextsValid'
<1> SUFFICES ASSUME TypeOK, NextsValid, Clean PROVE NextsValid'
  OBVIOUS
<1>1. \A e \in Event : \A want \in {"Scheduled", "Active"} :
        /\ status[e] = want <=> status'[e] = want
        /\ status[e] = want => start[e] = start'[e] /\ end[e] = end'[e]
  BY DEF TypeOK, Clean, Pruned, EIStatus
<1>2. /\ Nexts(status, start, "Scheduled") = Nexts(status', start', "Scheduled")
      /\ Nexts(status, end, "Active") = Nexts(status', end', "Active")
  BY <1>1, NextsSame
<1>3. UNCHANGED <<next_start, next_end>>
  BY DEF Clean
<1> QED BY <1>2, <1>3 DEF NextsValid

\* The supersession loop, update_nexts and insert leave valid pointers.
LEMMA StoreNexts ==
  ASSUME TypeOK, PendingInv, NEW h \in Handle,
         NEW s \in RandomStart(call[h].event),
         NEW t \in RandomEnd(call[h].event, s),
         Store(h, s, t)
  PROVE  NextsValid'
<1> DEFINE e == call[h].event
           losers == Losers(e, s, t)
           winners == Winners(e, s, t)
           arrives == call[h].incoming
           final == IF winners = {} THEN arrives ELSE "Superseded"
           st == [o \in Event |-> IF o \in losers THEN "Superseded" ELSE status[o]]
<1>1. e \in Event /\ arrives \in {"Scheduled", "Active"}
  BY CallType DEF Store, Inserting, EventStatusType
<1>2. s \in Int /\ t \in Int
  BY <1>1, RandomType
<1>3. final \in EIStatus
  BY <1>1 DEF EIStatus
<1>4. st \in [Event -> EIStatus \cup {"Absent"}] /\ st[e] = "Absent"
  <2>1. status[e] = "Absent"
    BY DEF Store, Inserting, PendingInv
  <2> QED BY <1>1, <2>1 DEF TypeOK, EIStatus, Losers, Stored
<1>5. start \in [Event -> Int] /\ end \in [Event -> Int]
  BY DEF TypeOK
<1>6. /\ status' = [st EXCEPT ![e] = final]
      /\ start' = [start EXCEPT ![e] = s]
      /\ end' = [end EXCEPT ![e] = t]
      /\ \E n \in Nexts(st, start, "Scheduled") :
           next_start' = InsertNext(n, final = "Scheduled", s, e)
      /\ \E n \in Nexts(st, end, "Active") :
           next_end' = InsertNext(n, final = "Active", t, e)
  BY DEF Store
<1> HIDE DEF e, losers, winners, arrives, final, st
<1>7. next_start' \in Nexts(status', start', "Scheduled")
  <2>1. PICK n \in Nexts(st, start, "Scheduled") :
          next_start' = InsertNext(n, final = "Scheduled", s, e)
    BY <1>6
  <2>2. "Scheduled" \in EIStatus
    BY DEF EIStatus
  <2>3. InsertNext(n, final = "Scheduled", s, e)
          \in Nexts([st EXCEPT ![e] = final], [start EXCEPT ![e] = s], "Scheduled")
    BY <1>1, <1>2, <1>3, <1>4, <1>5, <2>2, InsertNextValid
  <2> QED BY <1>6, <2>1, <2>3
<1>8. next_end' \in Nexts(status', end', "Active")
  <2>1. PICK n \in Nexts(st, end, "Active") :
          next_end' = InsertNext(n, final = "Active", t, e)
    BY <1>6
  <2>2. "Active" \in EIStatus
    BY DEF EIStatus
  <2>3. InsertNext(n, final = "Active", t, e)
          \in Nexts([st EXCEPT ![e] = final], [end EXCEPT ![e] = t], "Active")
    BY <1>1, <1>2, <1>3, <1>4, <1>5, <2>2, InsertNextValid
  <2> QED BY <1>6, <2>1, <2>3
<1> QED BY <1>7, <1>8 DEF NextsValid

\* Every step keeps the pointers valid.
LEMMA NextNexts ==
  ASSUME TypeOK, NextsValid, PendingInv, [Next]_vars
  PROVE  NextsValid'
<1>1. CASE StartTask
  <2> PICK answer \in {"EventStarted", "EventOptOut"} :
        UpdateEvent(status, next_start[2], AfterAnswer(answer))
    BY <1>1 DEF StartTask
  <2> QED BY <1>1, UpdateEventNexts DEF StartTask
<1>2. CASE EndTask
  BY <1>2, UpdateEventNexts DEF EndTask
<1>3. CASE Clean
  BY <1>3, CleanNexts
<1>4. ASSUME NEW h \in Handle, Finish(h) PROVE NextsValid'
  <2>1. CASE Cancel(h)
    BY <2>1, UpdateEventNexts DEF Cancel
  <2>2. CASE RejectWithdrawn(h) \/ RejectExpired(h)
    BY <2>2 DEF RejectWithdrawn, RejectExpired, events, NextsValid
  <2>3. CASE /\ Inserting(h)
             /\ \E s \in RandomStart(call[h].event) :
                  \E t \in RandomEnd(call[h].event, s) : Store(h, s, t)
    BY <2>3, StoreNexts
  <2> QED BY <1>4, <2>1, <2>2, <2>3 DEF Finish
<1>5. CASE \/ Tick \/ Shutdown \/ \E t \in Task : TaskExit(t)
           \/ \E h \in Handle : \E d \in Drift : UpdateTime(h, d)
           \/ \E h \in Handle : \E e \in Feed[h] : \E s \in Incoming : Read(h, e, s)
           \/ UNCHANGED vars
  <2>1. UNCHANGED events
    BY <1>5 DEF Tick, Shutdown, TaskExit, UpdateTime, Read, vars
  <2> QED BY <2>1 DEF events, NextsValid
<1> QED BY <1>1, <1>2, <1>3, <1>4, <1>5 DEF Next

(* Each step keeps what the pending calls have read.                       *)

\* The event that a valid pointer makes a task move is stored.
LEMMA DueStored ==
  ASSUME TypeOK, NextsValid
  PROVE  /\ Due(next_start) => /\ next_start[2] \in Event
                               /\ status[next_start[2]] = "Scheduled"
         /\ Due(next_end) => /\ next_end[2] \in Event
                             /\ status[next_end[2]] = "Active"
<1>1. start \in [Event -> Int] /\ end \in [Event -> Int]
  BY DEF TypeOK
<1>2. Due(next_start) => next_start # None
  BY DEF Due
<1>3. Due(next_end) => next_end # None
  BY DEF Due
<1> QED BY <1>1, <1>2, <1>3, NextsEvent DEF NextsValid

\* Nothing but a prune and an insertion changes which events are stored.
LEMMA StoredSame ==
  ASSUME TypeOK, NextsValid, PendingInv,
         \/ StartTask \/ EndTask \/ \E h \in Handle : Cancel(h)
  PROVE  \A e \in Event : status[e] = "Absent" <=> status'[e] = "Absent"
<1>0. status \in [Event -> EIStatus \cup {"Absent"}]
  BY DEF TypeOK
<1>1. CASE StartTask
  <2> DEFINE e == next_start[2]
  <2>1. e \in Event /\ status[e] = "Scheduled"
    BY <1>1, DueStored DEF StartTask
  <2>2. \E a \in {"Active", "Cancelled"} : status' = [status EXCEPT ![e] = a]
    BY <1>1 DEF StartTask, UpdateEvent, AfterAnswer
  <2> HIDE DEF e
  <2> QED BY <1>0, <2>1, <2>2
<1>2. CASE EndTask
  <2> DEFINE e == next_end[2]
  <2>1. e \in Event /\ status[e] = "Active"
    BY <1>2, DueStored DEF EndTask
  <2>2. status' = [status EXCEPT ![e] = "Complete"]
    BY <1>2 DEF EndTask, UpdateEvent
  <2> HIDE DEF e
  <2> QED BY <1>0, <2>1, <2>2
<1>3. ASSUME NEW h \in Handle, Cancel(h)
      PROVE  \A e \in Event : status[e] = "Absent" <=> status'[e] = "Absent"
  <2> DEFINE e == call[h].event
             freed == Freed(e, HandleTime(h))
             st == [o \in Event |-> IF o \in freed THEN "Scheduled" ELSE status[o]]
  <2>1. /\ e \in Event /\ status[e] # "Absent"
        /\ call[h].incoming \in CancelReason
    BY <1>3, CallType DEF Cancel, PendingInv
  <2>2. status' = [st EXCEPT ![e] = call[h].incoming]
    BY <1>3 DEF Cancel, UpdateEvent
  <2>3. \A o \in Event : status[o] = "Absent" <=> st[o] = "Absent"
    BY DEF Freed
  <2> HIDE DEF e, freed, st
  <2> QED BY <2>1, <2>2, <2>3 DEF st, CancelReason
<1> QED BY <1>1, <1>2, <1>3

\* A step that starts no call and stores or forgets no pending event.
LEMMA PendingSame ==
  ASSUME PendingInv,
         \A h \in Handle : call'[h] # None => call'[h] = call[h],
         \A h \in Handle : call'[h] # None =>
           (status[call[h].event] = "Absent" <=> status'[call[h].event] = "Absent")
  PROVE  PendingInv'
  BY DEF PendingInv

\* No two calls in progress are about the same event.
CallsApart ==
  \A g, h \in Handle :
    g # h /\ call[g] # None /\ call[h] # None => call[g].event # call[h].event

\* Every step keeps what the pending calls have read, if they are apart.
LEMMA NextPending ==
  ASSUME CallsApart, TypeOK, NextsValid, PendingInv, [Next]_vars
  PROVE  PendingInv'
<1>0. call \in [Handle -> Call \cup {None}]
  BY DEF TypeOK
<1>1. \A h \in Handle : call[h] # None => call[h].event \in Event
  BY CallType
<1>2. CASE StartTask \/ EndTask
  <2>1. call' = call
    BY <1>2 DEF StartTask, EndTask
  <2> QED BY <1>1, <1>2, <2>1, StoredSame, PendingSame
<1>3. CASE Clean
  <2>1. call' = call
    BY <1>3 DEF Clean
  <2>2. \A h \in Handle : call[h] # None => call[h].event \notin Pruned
    BY <1>3 DEF Clean, PendingInv, Pruned, Stored
  <2>3. \A e \in Event \ Pruned : status'[e] = status[e]
    BY <1>3 DEF Clean
  <2> QED BY <1>1, <2>1, <2>2, <2>3, PendingSame
<1>4. ASSUME NEW h \in Handle, Cancel(h) PROVE PendingInv'
  <2>1. call' = [call EXCEPT ![h] = None]
    BY <1>4 DEF Cancel
  <2>2. \A g \in Handle : call'[g] # None => call'[g] = call[g]
    BY <1>0, <2>1
  <2> QED BY <1>1, <1>4, <2>2, StoredSame, PendingSame
<1>5. ASSUME NEW h \in Handle, RejectWithdrawn(h) \/ RejectExpired(h)
      PROVE  PendingInv'
  <2>1. call' = [call EXCEPT ![h] = None] /\ status' = status
    BY <1>5 DEF RejectWithdrawn, RejectExpired, events
  <2>2. \A g \in Handle : call'[g] # None => call'[g] = call[g]
    BY <1>0, <2>1
  <2> QED BY <2>1, <2>2, PendingSame
<1>6. ASSUME NEW h \in Handle, NEW s, NEW t, Store(h, s, t) PROVE PendingInv'
  <2> DEFINE e == call[h].event
  <2>1. call' = [call EXCEPT ![h] = None]
    BY <1>6 DEF Store
  <2>2. \A g \in Handle : call'[g] # None => g # h /\ call'[g] = call[g]
    BY <1>0, <2>1
  <2>3. e \in Feed[h] /\ e \in Event
    BY <1>1, <1>6 DEF Store, Inserting, PendingInv
  <2>4. \A g \in Handle : call'[g] # None => call[g].event # e
    BY <1>6, <2>2 DEF Store, Inserting, CallsApart
  <2>5. \A o \in Event : o # e => (status[o] = "Absent" <=> status'[o] = "Absent")
    BY <1>6 DEF Store, Losers, Stored
  <2> HIDE DEF e
  <2> QED BY <1>1, <2>2, <2>4, <2>5, PendingSame
<1>7. ASSUME NEW h \in Handle, NEW e \in Feed[h], NEW s \in Incoming, Read(h, e, s)
      PROVE  PendingInv'
  <2>1. /\ call' = [call EXCEPT ![h] = [event |-> e, cur |-> status[e], incoming |-> s]]
        /\ status' = status
        /\ status[e] = "Absent" \/ Withdraws(status[e], s)
    BY <1>7 DEF Read, events
  <2>2. status[e] # "Absent" => s \in CancelReason
    BY <2>1 DEF Withdraws, CancelReason
  <2>3. call'[h] = [event |-> e, cur |-> status[e], incoming |-> s]
    BY <1>0, <2>1
  <2>4. \A g \in Handle : g # h => call'[g] = call[g]
    BY <1>0, <2>1
  <2> QED BY <2>1, <2>2, <2>3, <2>4 DEF PendingInv
<1>8. CASE \/ Tick \/ Shutdown \/ \E t \in Task : TaskExit(t)
           \/ \E h \in Handle : \E d \in Drift : UpdateTime(h, d)
           \/ UNCHANGED vars
  <2>1. call' = call /\ status' = status
    BY <1>8 DEF Tick, Shutdown, TaskExit, UpdateTime, vars, events
  <2> QED BY <2>1, PendingSame
<1> QED BY <1>2, <1>3, <1>4, <1>5, <1>6, <1>7, <1>8 DEF Next, Finish

(* Each step keeps the lists of superseding events.                        *)

\* A step that makes nothing live and stores nothing.
LEMMA SupersessionSame ==
  ASSUME SupersessionInv, UNCHANGED <<start, end, superseded_by, cancelled>>,
         \A e \in Event : Live(e)' => Live(e),
         Stored' \subseteq Stored
  PROVE  SupersessionInv'
  BY DEF SupersessionInv, Supersedes, Stored

\* A prune keeps the lists of superseding events.
LEMMA CleanSupersession ==
  ASSUME SupersessionInv, Clean
  PROVE  SupersessionInv'
<1>1. \A e \in Event :
        IF e \in Pruned THEN status'[e] = "Absent"
        ELSE /\ status'[e] = status[e] /\ superseded_by'[e] = superseded_by[e]
             /\ start'[e] = start[e] /\ end'[e] = end[e]
  BY DEF Clean
<1>2. cancelled' = cancelled \ Pruned
  BY DEF Clean
<1>3. \A e \in Event : Live(e)' => superseded_by'[e] = {}
  BY <1>1 DEF SupersessionInv, Live
<1>4. ASSUME NEW f \in Stored', NEW e \in Stored',
             Supersedes(f, start'[f], end'[f], e, start'[e], end'[e]),
             f \notin cancelled'
      PROVE  f \in superseded_by'[e]
  <2>1. /\ f \in Event \ Pruned /\ e \in Event \ Pruned
        /\ f \in Stored /\ e \in Stored
    BY <1>1 DEF Stored
  <2>2. f \notin cancelled
    BY <1>2, <1>4, <2>1
  <2> QED BY <1>1, <1>4, <2>1, <2>2 DEF SupersessionInv
<1> QED BY <1>3, <1>4 DEF SupersessionInv, Supersedes

\* cancel_event keeps the lists of superseding events.
LEMMA CancelSupersession ==
  ASSUME IInv, NEW h \in Handle, Cancel(h)
  PROVE  SupersessionInv'
<1> DEFINE e == call[h].event
           freed == Freed(e, HandleTime(h))
           st == [o \in Event |-> IF o \in freed THEN "Scheduled" ELSE status[o]]
<1>1. e \in Event /\ call[h].incoming \in CancelReason
  BY CallType DEF Cancel, IInv, PendingInv
<1>2. /\ status' = [st EXCEPT ![e] = call[h].incoming]
      /\ superseded_by' = [o \in Event |->
           IF status[o] = "Superseded" THEN superseded_by[o] \ {e}
           ELSE superseded_by[o]]
      /\ cancelled' = cancelled \cup {e}
      /\ UNCHANGED <<start, end>>
  BY DEF Cancel, UpdateEvent
<1>3. \A o \in Event : o # e => status'[o] = IF o \in freed THEN "Scheduled" ELSE status[o]
  BY <1>1, <1>2
<1>4. status'[e] \in CancelReason
  BY <1>1, <1>2
<1>5. ASSUME NEW o \in Event, Live(o)' PROVE superseded_by'[o] = {}
  <2>1. o # e
    BY <1>4, <1>5 DEF Live, CancelReason
  <2>2. CASE o \in freed
    BY <1>2, <2>2 DEF Freed
  <2>3. CASE o \notin freed
    <3>1. Live(o)
      BY <1>3, <1>5, <2>1, <2>3 DEF Live
    <3> QED BY <1>2, <3>1 DEF IInv, SupersessionInv, Live
  <2> QED BY <2>2, <2>3
<1>6. ASSUME NEW f \in Stored', NEW o \in Stored',
             Supersedes(f, start[f], end[f], o, start[o], end[o]),
             f \notin cancelled'
      PROVE  f \in superseded_by'[o]
  <2>1. \A x \in Event : status[x] = "Absent" <=> status'[x] = "Absent"
    BY StoredSame DEF IInv
  <2>2. f \in Stored /\ o \in Stored
    BY <2>1 DEF Stored
  <2>3. f # e /\ f \notin cancelled
    BY <1>2, <1>6
  <2>4. f \in superseded_by[o]
    BY <1>6, <2>2, <2>3 DEF IInv, SupersessionInv
  <2> QED BY <1>2, <2>2, <2>3, <2>4 DEF Stored
<1> HIDE DEF e, freed, st
<1> QED BY <1>2, <1>5, <1>6 DEF SupersessionInv, Supersedes

\* The supersession loop keeps the lists of superseding events.
LEMMA StoreSupersession ==
  ASSUME IInv, NEW h \in Handle,
         NEW s \in RandomStart(call[h].event),
         NEW t \in RandomEnd(call[h].event, s),
         Store(h, s, t)
  PROVE  SupersessionInv'
<1> DEFINE e == call[h].event
           losers == Losers(e, s, t)
           winners == Winners(e, s, t)
           final == IF winners = {} THEN call[h].incoming ELSE "Superseded"
           st == [o \in Event |-> IF o \in losers THEN "Superseded" ELSE status[o]]
<1>1. e \in Event
  BY CallType DEF Store, Inserting, IInv
<1>2. /\ status' = [st EXCEPT ![e] = final]
      /\ start' = [start EXCEPT ![e] = s]
      /\ end' = [end EXCEPT ![e] = t]
      /\ superseded_by' = [o \in Event |->
           IF o = e THEN winners
           ELSE IF o \in losers THEN superseded_by[o] \cup {e}
           ELSE superseded_by[o]]
      /\ cancelled' = cancelled
  BY DEF Store
<1>3. start \in [Event -> Int] /\ end \in [Event -> Int]
  BY DEF IInv, TypeOK
<1>4. start'[e] = s /\ end'[e] = t /\ status'[e] = final
  BY <1>1, <1>2, <1>3
<1>5. \A o \in Event : o # e =>
        /\ start'[o] = start[o] /\ end'[o] = end[o]
        /\ status'[o] = IF o \in losers THEN "Superseded" ELSE status[o]
  BY <1>1, <1>2, <1>3
<1>6. losers \subseteq Stored
  BY DEF Losers
<1>7. \A o \in Stored' : o # e => o \in Stored
  BY <1>5, <1>6 DEF Stored
<1>8. ASSUME NEW o \in Event, Live(o)' PROVE superseded_by'[o] = {}
  <2>1. CASE o = e
    <3>1. winners = {}
      BY <1>4, <1>8, <2>1 DEF Live
    <3> QED BY <1>1, <1>2, <2>1, <3>1
  <2>2. CASE o # e
    <3>1. o \notin losers /\ Live(o)
      BY <1>5, <1>8, <2>2 DEF Live
    <3> QED BY <1>2, <2>2, <3>1 DEF IInv, SupersessionInv
  <2> QED BY <2>1, <2>2
<1>9. ASSUME NEW f \in Stored', NEW o \in Stored',
             Supersedes(f, start'[f], end'[f], o, start'[o], end'[o]),
             f \notin cancelled'
      PROVE  f \in superseded_by'[o]
  <2>1. f # o
    <3>1. IsResource(Resource[f])
      BY ResourceAssumption DEF Stored
    <3> QED BY <1>9, <3>1 DEF Supersedes, Outranks, IsResource
  <2>2. CASE o = e
    <3>1. f \in winners
      BY <1>4, <1>5, <1>7, <1>9, <2>1, <2>2 DEF Winners, Stored
    <3> QED BY <1>1, <1>2, <2>2, <3>1
  <2>3. CASE f = e
    <3>1. o \in losers
      BY <1>4, <1>5, <1>7, <1>9, <2>1, <2>3 DEF Losers, Stored
    <3> QED BY <1>2, <2>1, <2>3, <3>1, <1>6 DEF Stored
  <2>4. CASE f # e /\ o # e
    <3>1. f \in Stored /\ o \in Stored
      BY <1>7, <2>4
    <3>2. f \in superseded_by[o]
      BY <1>2, <1>5, <1>9, <2>4, <3>1 DEF IInv, SupersessionInv, Stored
    <3> QED BY <1>2, <2>4, <3>1, <3>2 DEF Stored
  <2> QED BY <2>2, <2>3, <2>4
<1> HIDE DEF e, losers, winners, final, st
<1> QED BY <1>8, <1>9 DEF SupersessionInv, Supersedes

\* Every step keeps the lists of superseding events.
LEMMA NextSupersession ==
  ASSUME IInv, [Next]_vars
  PROVE  SupersessionInv'
<1>0. status \in [Event -> EIStatus \cup {"Absent"}]
  BY DEF IInv, TypeOK
<1>1. CASE StartTask
  <2> DEFINE e == next_start[2]
  <2>1. e \in Event /\ status[e] = "Scheduled"
    BY <1>1, DueStored DEF StartTask, IInv
  <2>2. \E a \in {"Active", "Cancelled"} : status' = [status EXCEPT ![e] = a]
    BY <1>1 DEF StartTask, UpdateEvent, AfterAnswer
  <2>3. UNCHANGED <<start, end, superseded_by, cancelled>>
    BY <1>1 DEF StartTask
  <2> HIDE DEF e
  <2>4. \A o \in Event : Live(o)' => Live(o)
    BY <1>0, <2>1, <2>2 DEF Live
  <2>5. Stored' \subseteq Stored
    BY <1>0, <2>1, <2>2 DEF Stored
  <2> QED BY <2>3, <2>4, <2>5, SupersessionSame DEF IInv
<1>2. CASE EndTask
  <2> DEFINE e == next_end[2]
  <2>1. e \in Event /\ status[e] = "Active"
    BY <1>2, DueStored DEF EndTask, IInv
  <2>2. status' = [status EXCEPT ![e] = "Complete"]
    BY <1>2 DEF EndTask, UpdateEvent
  <2>3. UNCHANGED <<start, end, superseded_by, cancelled>>
    BY <1>2 DEF EndTask
  <2> HIDE DEF e
  <2>4. \A o \in Event : Live(o)' => Live(o)
    BY <1>0, <2>1, <2>2 DEF Live
  <2>5. Stored' \subseteq Stored
    BY <1>0, <2>1, <2>2 DEF Stored
  <2> QED BY <2>3, <2>4, <2>5, SupersessionSame DEF IInv
<1>3. CASE Clean
  BY <1>3, CleanSupersession DEF IInv
<1>4. ASSUME NEW h \in Handle, Finish(h) PROVE SupersessionInv'
  <2>1. CASE RejectWithdrawn(h) \/ RejectExpired(h)
    <3>1. UNCHANGED events /\ UNCHANGED cancelled
      BY <2>1 DEF RejectWithdrawn, RejectExpired
    <3> QED BY <3>1, SupersessionSame DEF IInv, events, Live, Stored
  <2> QED BY <1>4, <2>1, CancelSupersession, StoreSupersession DEF Finish
<1>5. CASE \/ Tick \/ Shutdown \/ \E t \in Task : TaskExit(t)
           \/ \E h \in Handle : \E d \in Drift : UpdateTime(h, d)
           \/ \E h \in Handle : \E e \in Feed[h] : \E s \in Incoming : Read(h, e, s)
           \/ UNCHANGED vars
  <2>1. UNCHANGED events /\ UNCHANGED cancelled
    BY <1>5 DEF Tick, Shutdown, TaskExit, UpdateTime, Read, vars
  <2> QED BY <2>1, SupersessionSame DEF IInv, events, Live, Stored
<1> QED BY <1>1, <1>2, <1>3, <1>4, <1>5 DEF Next

-----------------------------------------------------------------------------
(* The theorems.                                                           *)

\* The inductive invariant holds initially.
LEMMA InitInv == Init => IInv
<1> SUFFICES ASSUME Init PROVE IInv
  OBVIOUS
<1>1. TypeOK
  BY InitType
<1>2. \A e \in Event : status[e] = "Absent"
  BY DEF Init
<1>3. Nexts(status, start, "Scheduled") = {None} /\ Nexts(status, end, "Active") = {None}
  BY <1>2 DEF Nexts
<1>4. next_start = None /\ next_end = None /\ \A h \in Handle : call[h] = None
  BY DEF Init
<1>5. NextsValid
  BY <1>3, <1>4 DEF NextsValid
<1>6. PendingInv
  BY <1>4 DEF PendingInv
<1>7. SupersessionInv
  BY <1>2 DEF SupersessionInv, Live, Stored
<1> QED BY <1>1, <1>5, <1>6, <1>7 DEF IInv

\* Every step keeps the invariant, from a state in which the calls are apart.
LEMMA NextInv == CallsApart /\ IInv /\ [Next]_vars => IInv'
  BY NextType, NextNexts, NextPending, NextSupersession DEF IInv

\* The inductive invariant.
LEMMA Inductive == FeedsDisjoint => (Spec => []IInv)
<1> SUFFICES ASSUME FeedsDisjoint PROVE Spec => []IInv
  OBVIOUS
<1>1. Init => IInv
  BY InitInv
<1>2. IInv /\ [Next]_vars => IInv'
  <2>1. IInv => CallsApart
    BY DEF IInv, PendingInv, FeedsDisjoint, CallsApart
  <2> QED BY <2>1, NextInv
<1> QED BY <1>1, <1>2, PTL DEF Spec

\* next_start and next_end always name an earliest event of their status with
\* its time, as the doc of Events says, when no event reaches the schedule
\* through two handles.
THEOREM NextsCorrect == FeedsDisjoint => (Spec => []NextsValid)
<1> SUFFICES ASSUME FeedsDisjoint PROVE Spec => []NextsValid
  OBVIOUS
<1>1. IInv => NextsValid
  BY DEF IInv
<1> QED BY <1>1, Inductive, PTL

\* The pointers serve: while an event waits past its start, or runs past its
\* end, the task that should act finds its pointer due, however many events it
\* has to get through at one per tick.
NoneOverlooked ==
  \A e \in Event :
    /\ status[e] = "Scheduled" /\ start[e] < now => Due(next_start)
    /\ status[e] = "Active" /\ end[e] < now => Due(next_end)

THEOREM TasksSeeAll == FeedsDisjoint => (Spec => []NoneOverlooked)
<1> SUFFICES ASSUME FeedsDisjoint PROVE Spec => []NoneOverlooked
  OBVIOUS
<1>1. ASSUME TypeOK, NextsValid PROVE NoneOverlooked
  <2>1. ASSUME NEW key \in [Event -> Int], NEW want, NEW n \in Nexts(status, key, want),
               NEW e \in Event, status[e] = want, key[e] < now
        PROVE  Due(n)
    <3>1. PICK x \in Event : n = <<key[x], x>> /\ key[x] <= key[e]
      BY <2>1 DEF Nexts
    <3>2. n # None
      BY <3>1, NoneAssumption
    <3>3. n[1] < now
      BY <1>1, <2>1, <3>1 DEF TypeOK
    <3> QED BY <1>1, <3>2, <3>3 DEF Due, TaskTime, CloneOffset, TypeOK
  <2> QED BY <1>1, <2>1 DEF NoneOverlooked, NextsValid, TypeOK
<1>2. IInv => TypeOK /\ NextsValid
  BY DEF IInv
<1> QED BY <1>1, <1>2, Inductive, PTL

\* Events start in the order of their starts and end in the order of their
\* ends, and none before its time by the clock of the tasks.
InOrder ==
  [][\A e \in Event :
       /\ status[e] = "Scheduled" /\ status'[e] = "Active" =>
            /\ start[e] < now
            /\ \A o \in Event : status[o] = "Scheduled" => start[e] <= start[o]
       /\ status[e] = "Active" /\ status'[e] = "Complete" =>
            /\ end[e] < now
            /\ \A o \in Event : status[o] = "Active" => end[e] <= end[o]]_vars

THEOREM EarliestFirst == FeedsDisjoint => (Spec => InOrder)
<1> SUFFICES ASSUME FeedsDisjoint PROVE Spec => InOrder
  OBVIOUS
<1> DEFINE Ordered(e) ==
      /\ status[e] = "Scheduled" /\ status'[e] = "Active" =>
           /\ start[e] < now
           /\ \A o \in Event : status[o] = "Scheduled" => start[e] <= start[o]
      /\ status[e] = "Active" /\ status'[e] = "Complete" =>
           /\ end[e] < now
           /\ \A o \in Event : status[o] = "Active" => end[e] <= end[o]
<1>1. ASSUME NEW key \in [Event -> Int], NEW want, NEW n \in Nexts(status, key, want),
             TypeOK, Due(n)
      PROVE  /\ key[n[2]] < now
             /\ \A o \in Event : status[o] = want => key[n[2]] <= key[o]
  <2>1. n # None /\ n[1] < now
    BY <1>1 DEF Due, TaskTime, CloneOffset, TypeOK
  <2> QED BY <2>1 DEF Nexts
<1>2. ASSUME IInv, [Next]_vars, NEW e \in Event PROVE Ordered(e)
  <2>0. /\ TypeOK /\ NextsValid /\ PendingInv
        /\ status \in [Event -> EIStatus \cup {"Absent"}]
        /\ start \in [Event -> Int] /\ end \in [Event -> Int]
    BY <1>2 DEF IInv, TypeOK
  <2>1. CASE StartTask
    <3>1. /\ Due(next_start)
          /\ status' = [status EXCEPT ![next_start[2]] = status'[next_start[2]]]
          /\ status'[next_start[2]] # "Complete"
      BY <2>0, <2>1, DueStored DEF StartTask, UpdateEvent, AfterAnswer
    <3>2. \/ e = next_start[2] /\ status[e] = "Scheduled"
          \/ status'[e] = status[e]
      BY <2>0, <3>1, DueStored
    <3> QED BY <1>1, <2>0, <3>1, <3>2 DEF NextsValid
  <2>2. CASE EndTask
    <3>1. /\ Due(next_end)
          /\ status' = [status EXCEPT ![next_end[2]] = "Complete"]
      BY <2>2 DEF EndTask, UpdateEvent
    <3>2. e = next_end[2] \/ status'[e] = status[e]
      BY <2>0, <3>1
    <3>3. e = next_end[2] => status[e] = "Active" /\ status'[e] = "Complete"
      BY <2>0, <3>1, DueStored
    <3> QED BY <1>1, <2>0, <3>1, <3>2, <3>3 DEF NextsValid
  <2>3. CASE Clean
    BY <2>3 DEF Clean
  <2>4. ASSUME NEW h \in Handle, Cancel(h) PROVE Ordered(e)
    <3>1. call[h].incoming \in {"Cancelled", "CancelledRandom", "Superseded"}
      BY <2>0, <2>4 DEF Cancel, PendingInv, CancelReason
    <3>2. /\ \A o \in Freed(call[h].event, HandleTime(h)) : status[o] = "Superseded"
          /\ status'[e] \in {"Scheduled", status[e], call[h].incoming}
      BY <2>0, <2>4 DEF Cancel, UpdateEvent, Freed
    <3> QED BY <3>1, <3>2
  <2>5. ASSUME NEW h \in Handle, NEW s, NEW t, Store(h, s, t) PROVE Ordered(e)
    <3>1. status[call[h].event] = "Absent"
      BY <2>0, <2>5 DEF Store, Inserting, PendingInv
    <3>2. e # call[h].event => status'[e] \in {"Superseded", status[e]}
      BY <2>0, <2>5 DEF Store
    <3> QED BY <3>1, <3>2
  <2>6. CASE UNCHANGED status
    BY <2>6
  <2> QED BY <1>2, <2>1, <2>2, <2>3, <2>4, <2>5, <2>6
          DEF Next, Finish, Tick, Shutdown, TaskExit, Read, RejectWithdrawn,
              RejectExpired, UpdateTime, events, vars
<1>3. IInv /\ [Next]_vars => [\A e \in Event : Ordered(e)]_vars
  BY <1>2
<1> QED BY <1>3, Inductive, PTL DEF Spec, InOrder

\* Of two stored events that compete for a target in overlapping windows, the
\* one that loses never stays live, unless the server has withdrawn the one
\* that wins: for any primacies, creation times, randomisation and clocks.
THEOREM ConflictFree == FeedsDisjoint => (Spec => []NoConflict)
<1> SUFFICES ASSUME FeedsDisjoint PROVE Spec => []NoConflict
  OBVIOUS
<1>1. IInv => NoConflict
  BY DEF IInv, SupersessionInv, NoConflict, Stored
<1> QED BY <1>1, Inductive, PTL
=============================================================================
