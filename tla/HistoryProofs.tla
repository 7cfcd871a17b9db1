--------------------------- MODULE HistoryProofs ---------------------------
(***************************************************************************)
(* Theorems about what the client and the server have been told, for any   *)
(* events, handles and resources of Schedule: nothing is superseded        *)
(* without a cause, the server is told what is so, and no event that has   *)
(* been started is ever started again.  The last needs that no event is    *)
(* longer than the time between two prunes: event.rs forgets an event that *)
(* is over a week after its last change, and then knows it no longer when  *)
(* a poll brings it again.                                                 *)
(***************************************************************************)
EXTENDS ScheduleProofs

\* No handle is ahead of the clock of the tasks, or none is behind it.
NeverAhead == \A d \in Drift : d <= 0
NeverBehind == \A d \in Drift : d >= 0

\* Retrieved events have not started yet.
ArriveScheduled == "Active" \notin Incoming

\* However the start and the end of an event are drawn, and drawn again, the
\* end comes n after the start at the latest.
LastsAtMost(n) ==
  \A e \in Event : \A s1, s2 \in RandomStart(e) : \A t \in RandomEnd(e, s2) :
    t <= s1 + n

\* An event that is forgotten after it has started is over: a task starts it at
\* least one tick late, and a prune is at least one tick late too.
FitsWeek == LastsAtMost(Week + 2)

-----------------------------------------------------------------------------
(* Supersession has a cause.                                               *)

Behind == \A h \in Handle : time_offset[h] <= 0

\* What is held lists a cause; what is not superseded lists none, unless the
\* server has withdrawn it; and only stored events count as withdrawn.
CauseInv ==
  /\ \A e \in Event : Held(e) => superseded_by[e] # {}
  /\ \A e \in Event :
       status[e] \notin {"Absent", "Superseded"} /\ e \notin cancelled
         => superseded_by[e] = {}
  /\ \A e \in cancelled : status[e] # "Absent"

\* A step that moves events on without superseding anything.
LEMMA MovedCause ==
  ASSUME TypeOK, CauseInv,
         \A o \in Event : \/ status'[o] = status[o]
                          \/ /\ status[o] \in {"Scheduled", "Active"}
                             /\ status'[o] \in {"Active", "Cancelled", "Complete"},
         UNCHANGED <<now, start, superseded_by, cancelled>>
  PROVE  CauseInv' /\ HeldRightly
<1>1. \A o \in Event : Held(o)' => Held(o)
  BY DEF Held
<1>2. CauseInv'
  BY <1>1 DEF CauseInv, TypeOK
<1> QED BY <1>1, <1>2 DEF CauseInv, HeldRightly, Held

\* A cancel takes what it withdraws off every list, and leaves held by nothing
\* only what is too late to start.
LEMMA CancelCause ==
  ASSUME IInv, CauseInv, Behind, NEW h \in Handle, Cancel(h)
  PROVE  CauseInv' /\ HeldRightly
<1> DEFINE e == call[h].event
           freed == Freed(e, HandleTime(h))
           st == [o \in Event |-> IF o \in freed THEN "Scheduled" ELSE status[o]]
<1>1. /\ status' = [st EXCEPT ![e] = call[h].incoming]
      /\ superseded_by' = [o \in Event |->
           IF status[o] = "Superseded" THEN superseded_by[o] \ {e}
           ELSE superseded_by[o]]
      /\ cancelled' = cancelled \cup {e}
      /\ UNCHANGED <<now, start>>
  BY DEF Cancel, UpdateEvent
<1>2. e \in Event /\ call[h].incoming # "Absent"
  BY CallType DEF Cancel, IInv, PendingInv, CancelReason
<1>3. HandleTime(h) <= now
  BY DEF Behind, HandleTime, IInv, TypeOK
<1>4. \A o \in Event : /\ status[o] = "Superseded"
                       /\ superseded_by[o] \subseteq {e}
                       /\ o \notin freed
                       => start[o] <= now
  BY <1>3 DEF Freed, IInv, TypeOK, HandleTime
<1>5. \A o \in freed : status[o] = "Superseded" /\ superseded_by[o] \subseteq {e}
  BY DEF Freed
<1>6. status'[e] = call[h].incoming
  BY <1>1, <1>2
<1> HIDE DEF e, freed
<1>7. \A o \in Event : o # e =>
        status'[o] = IF o \in freed THEN "Scheduled" ELSE status[o]
  BY <1>1
<1>8. ASSUME NEW o \in Event, Held(o)'
      PROVE  Held(o) /\ superseded_by'[o] = superseded_by[o] \ {e}
                     /\ superseded_by'[o] # {}
  <2>1. o # e /\ o \notin cancelled /\ start[o] > now
    BY <1>1, <1>8 DEF Held
  <2>2. status[o] = "Superseded" /\ o \notin freed
    BY <1>7, <1>8, <2>1 DEF Held
  <2>3. superseded_by'[o] = superseded_by[o] \ {e}
    BY <1>1, <2>2
  <2>4. ~(superseded_by[o] \subseteq {e})
    BY <1>4, <2>1, <2>2 DEF IInv, TypeOK
  <2> QED BY <2>1, <2>2, <2>3, <2>4 DEF Held
<1>9. ASSUME NEW o \in Event,
             status'[o] \notin {"Absent", "Superseded"}, o \notin cancelled'
      PROVE  superseded_by'[o] = {}
  <2>1. o # e /\ o \notin cancelled
    BY <1>1, <1>9
  <2>2. CASE o \in freed
    BY <1>1, <1>5, <2>2
  <2>3. CASE o \notin freed
    BY <1>1, <1>7, <1>9, <2>1, <2>3 DEF CauseInv
  <2> QED BY <2>2, <2>3
<1>10. ASSUME NEW o \in cancelled' PROVE status'[o] # "Absent"
  <2>1. o \in Event
    BY <1>1, <1>2, <1>10 DEF IInv, TypeOK
  <2> QED BY <1>1, <1>2, <1>6, <1>7, <1>10, <2>1 DEF CauseInv
<1>11. CauseInv'
  BY <1>8, <1>9, <1>10 DEF CauseInv
<1> QED BY <1>1, <1>8, <1>11 DEF HeldRightly

\* What the loop supersedes is held by the new event, which nobody has withdrawn.
LEMMA StoreCause ==
  ASSUME IInv, CauseInv, NEW h \in Handle,
         NEW s \in RandomStart(call[h].event),
         NEW t \in RandomEnd(call[h].event, s),
         Store(h, s, t)
  PROVE  CauseInv' /\ HeldRightly
<1> DEFINE e == call[h].event
           losers == Losers(e, s, t)
           winners == Winners(e, s, t)
           final == IF winners = {} THEN call[h].incoming ELSE "Superseded"
           st == [o \in Event |-> IF o \in losers THEN "Superseded" ELSE status[o]]
<1>1. /\ status' = [st EXCEPT ![e] = final]
      /\ start' = [start EXCEPT ![e] = s]
      /\ superseded_by' = [o \in Event |->
           IF o = e THEN winners
           ELSE IF o \in losers THEN superseded_by[o] \cup {e}
           ELSE superseded_by[o]]
      /\ UNCHANGED <<now, cancelled>>
  BY DEF Store
<1>2. /\ e \in Event /\ status[e] = "Absent"
      /\ call[h].incoming \in {"Scheduled", "Active"}
  BY CallType DEF Store, Inserting, IInv, PendingInv, EventStatusType
<1>3. e \notin cancelled
  BY <1>2 DEF CauseInv
<1>4. \A o \in losers : status[o] # "Absent"
  BY DEF Losers, Stored
<1> HIDE DEF e, losers, winners
<1>5. status'[e] = final /\ superseded_by'[e] = winners
  BY <1>1, <1>2
<1>6. \A o \in Event : o # e =>
        /\ status'[o] = IF o \in losers THEN "Superseded" ELSE status[o]
        /\ superseded_by'[o] = IF o \in losers THEN superseded_by[o] \cup {e}
                               ELSE superseded_by[o]
        /\ start'[o] = start[o]
  BY <1>1 DEF IInv, TypeOK
<1>7. ASSUME NEW o \in Event, Held(o)'
      PROVE  /\ superseded_by'[o] # {}
             /\ \A x \in superseded_by'[o] \cap cancelled' :
                  /\ x \in cancelled
                  /\ status[o] # "Absent" => Held(o) /\ x \in superseded_by[o]
  <2>1. CASE o = e
    <3>1. winners # {}
      BY <1>2, <1>5, <1>7, <2>1 DEF Held
    <3> QED BY <1>1, <1>2, <1>5, <2>1, <3>1
  <2>2. CASE o # e /\ o \notin losers
    <3>1. Held(o) /\ superseded_by'[o] = superseded_by[o]
      BY <1>1, <1>6, <1>7, <2>2 DEF Held
    <3> QED BY <1>1, <3>1 DEF CauseInv
  <2>3. CASE o # e /\ o \in losers
    <3>1. superseded_by'[o] = superseded_by[o] \cup {e}
      BY <1>6, <2>3
    <3>2. ASSUME NEW x \in superseded_by'[o], x \in cancelled
          PROVE  Held(o) /\ x \in superseded_by[o]
      <4>1. x \in superseded_by[o]
        BY <1>3, <3>1, <3>2
      <4>2. o \notin cancelled /\ start[o] > now
        BY <1>1, <1>6, <1>7, <2>3 DEF Held
      <4>3. status[o] = "Superseded"
        BY <1>4, <2>3, <4>1, <4>2 DEF CauseInv
      <4> QED BY <4>1, <4>2, <4>3 DEF Held
    <3> QED BY <1>1, <3>1, <3>2
  <2> QED BY <2>1, <2>2, <2>3
<1>8. ASSUME NEW o \in Event,
             status'[o] \notin {"Absent", "Superseded"}, o \notin cancelled'
      PROVE  superseded_by'[o] = {}
  BY <1>1, <1>5, <1>6, <1>8 DEF CauseInv
<1>9. ASSUME NEW o \in cancelled' PROVE status'[o] # "Absent"
  <2>1. o \in Event /\ o # e /\ status[o] # "Absent"
    BY <1>1, <1>3, <1>9 DEF IInv, TypeOK, CauseInv
  <2> QED BY <1>6, <2>1
<1> QED BY <1>7, <1>8, <1>9 DEF CauseInv, HeldRightly

\* No handle gets ahead.
LEMMA NextBehind ==
  ASSUME NeverAhead, TypeOK, Behind, [Next]_vars
  PROVE  Behind'
<1>1. ASSUME NEW h \in Handle, NEW d \in Drift, UpdateTime(h, d) PROVE Behind'
  BY <1>1 DEF UpdateTime, NeverAhead, Behind, TypeOK
<1>2. CASE UNCHANGED time_offset
  BY <1>2 DEF Behind
<1>3. ASSUME NEW h \in Handle, Finish(h) PROVE Behind'
  BY <1>2, <1>3 DEF Finish, Cancel, RejectWithdrawn, RejectExpired, Store
<1>4. CASE \/ Tick \/ StartTask \/ EndTask \/ Clean \/ Shutdown
           \/ \E t \in Task : TaskExit(t)
           \/ \E h \in Handle : \E e \in Feed[h] : \E s \in Incoming :
                Read(h, e, s)
           \/ UNCHANGED vars
  BY <1>2, <1>4 DEF Tick, StartTask, EndTask, Clean, Shutdown, TaskExit,
                    Read, vars
<1> QED BY <1>1, <1>3, <1>4 DEF Next

\* Every step keeps the causes, as long as no handle is ahead.
LEMMA NextCause ==
  ASSUME IInv, CauseInv, Behind, [Next]_vars
  PROVE  CauseInv' /\ HeldRightly
<1>1. CASE StartTask
  <2> DEFINE e == next_start[2]
  <2>1. e \in Event /\ status[e] = "Scheduled"
    BY <1>1, DueStored DEF StartTask, IInv
  <2>2. PICK a \in {"Active", "Cancelled"} : status' = [status EXCEPT ![e] = a]
    BY <1>1 DEF StartTask, UpdateEvent, AfterAnswer
  <2>3. now' = now /\ start' = start /\ superseded_by' = superseded_by
          /\ cancelled' = cancelled
    BY <1>1 DEF StartTask
  <2> HIDE DEF e
  <2>4. \A o \in Event : o # e => status'[o] = status[o]
    BY <2>2 DEF IInv, TypeOK
  <2>5. status'[e] \in {"Active", "Cancelled", "Complete"}
    BY <2>1, <2>2 DEF IInv, TypeOK
  <2> QED BY <2>1, <2>3, <2>4, <2>5, MovedCause DEF IInv
<1>2. CASE EndTask
  <2> DEFINE e == next_end[2]
  <2>1. e \in Event /\ status[e] = "Active"
    BY <1>2, DueStored DEF EndTask, IInv
  <2>2. status' = [status EXCEPT ![e] = "Complete"]
    BY <1>2 DEF EndTask, UpdateEvent
  <2>3. now' = now /\ start' = start /\ superseded_by' = superseded_by
          /\ cancelled' = cancelled
    BY <1>2 DEF EndTask
  <2> HIDE DEF e
  <2>4. \A o \in Event : o # e => status'[o] = status[o]
    BY <2>2 DEF IInv, TypeOK
  <2>5. status'[e] \in {"Active", "Cancelled", "Complete"}
    BY <2>1, <2>2 DEF IInv, TypeOK
  <2> QED BY <2>1, <2>3, <2>4, <2>5, MovedCause DEF IInv
<1>3. CASE Clean
  <2>1. \A o \in Event :
          IF o \in Pruned THEN status'[o] = "Absent"
          ELSE /\ status'[o] = status[o] /\ start'[o] = start[o]
               /\ superseded_by'[o] = superseded_by[o]
    BY <1>3 DEF Clean
  <2>2. now' = now /\ cancelled' = cancelled \ Pruned
    BY <1>3 DEF Clean
  <2>3. \A o \in Event : Held(o)' =>
          Held(o) /\ superseded_by'[o] = superseded_by[o]
    BY <2>1, <2>2 DEF Held
  <2>4. cancelled \subseteq Event
    BY DEF IInv, TypeOK
  <2>5. CauseInv'
    BY <2>1, <2>2, <2>3, <2>4 DEF CauseInv
  <2> QED BY <2>2, <2>3, <2>5 DEF CauseInv, HeldRightly
<1>4. ASSUME NEW h \in Handle, Cancel(h) PROVE CauseInv' /\ HeldRightly
  BY <1>4, CancelCause
<1>5. ASSUME NEW h \in Handle, NEW s \in RandomStart(call[h].event),
             NEW t \in RandomEnd(call[h].event, s), Store(h, s, t)
      PROVE  CauseInv' /\ HeldRightly
  BY <1>5, StoreCause
<1>6. CASE /\ UNCHANGED <<status, start, superseded_by, cancelled>>
           /\ now' \in {now, now + 1}
  <2>1. \A o \in Event : Held(o)' => Held(o)
    BY <1>6 DEF Held, IInv, TypeOK
  <2>2. CauseInv'
    BY <1>6, <2>1 DEF CauseInv
  <2> QED BY <1>6, <2>1, <2>2 DEF CauseInv, HeldRightly
<1>7. CASE \/ Tick \/ Shutdown \/ \E t \in Task : TaskExit(t)
           \/ \E h \in Handle : \/ \E d \in Drift : UpdateTime(h, d)
                                \/ \E e \in Feed[h] : \E s \in Incoming :
                                     Read(h, e, s)
                                \/ RejectWithdrawn(h) \/ RejectExpired(h)
           \/ UNCHANGED vars
  BY <1>6, <1>7 DEF Tick, Shutdown, TaskExit, UpdateTime, Read,
                    RejectWithdrawn, RejectExpired, events, vars
<1> QED BY <1>1, <1>2, <1>3, <1>4, <1>5, <1>7 DEF Next, Finish

\* An event that could still be run stays superseded only because of another
\* one, and never because of one that is withdrawn while it waits, whatever is
\* cancelled, pruned or added, and in which order, if feeds are disjoint and no
\* handle is ahead of the tasks.
THEOREM SupersededCaused ==
  NeverAhead /\ FeedsDisjoint => (Spec => SupersededHasCause)
<1> SUFFICES ASSUME NeverAhead, FeedsDisjoint PROVE Spec => SupersededHasCause
  OBVIOUS
<1>1. Init => CauseInv /\ Behind
  BY DEF Init, CauseInv, Held, Behind
<1>2. IInv /\ CauseInv /\ Behind /\ [Next]_vars => (CauseInv /\ Behind)'
  BY NextCause, NextBehind DEF IInv
<1>3. IInv /\ CauseInv /\ Behind /\ [Next]_vars => [HeldRightly]_vars
  BY NextCause
<1> QED BY <1>1, <1>2, <1>3, Inductive, PTL DEF Spec, SupersededHasCause

-----------------------------------------------------------------------------
(* The server is told what is so.                                          *)

SupersededReplies ==
  {"EventSuperseded", "EventAbortedServer", "EventAbortedProgram"}

\* The last response for a stored event in status s.
Fits(s, r) ==
  /\ s = "Scheduled" => r \in {"EventReceived"} \cup SupersededReplies
  /\ s = "Active" => r \in {"EventStarted", "EventOptOut"}
  /\ s = "Complete" => r = "EventCompleted"
  /\ s \in {"Cancelled", "CancelledRandom"}
       => r \in {"EventCancelled", "EventOptOut"}
  /\ s = "Superseded" => r \in SupersededReplies

Synced == \A e \in Event : status[e] # "Absent" => Fits(status[e], reply[e])

\* A call in progress carries what a retrieval may carry.
Offered == \A h \in Handle : call[h] # None => call[h].incoming \in Incoming

LEMMA SyncedIs == Synced <=> ServerInSync
  BY DEF Synced, ServerInSync, Fits, SupersededReplies, Stored, Cancelled

\* The answers of the loop.
LEMMA LoopReplies ==
  ASSUME NEW e, NEW prev, NEW winners, NEW w
  PROVE  /\ SupersededReply(e, prev, w) \in SupersededReplies
         /\ LoopReply(e, prev, winners, w) \in SupersededReplies
<1>1. \A p : SupersededReply(e, p, w) \in SupersededReplies
  BY DEF SupersededReply, SupersededReplies
<1> QED BY <1>1 DEF LoopReply

\* A withdrawal is reported, and what is rescheduled was last superseded.
LEMMA CancelSynced ==
  ASSUME TypeOK, Synced, NEW h \in Handle, PendingInv, Cancel(h),
         call[h].cur = "Scheduled" => call[h].incoming # "Superseded"
  PROVE  Synced'
<1> DEFINE e == call[h].event
           reason == call[h].incoming
           freed == Freed(e, HandleTime(h))
           st == [o \in Event |-> IF o \in freed THEN "Scheduled" ELSE status[o]]
           answer == IF call[h].cur = "Active" THEN ToResponse[reason]
                     ELSE "EventCancelled"
<1>1. status' = [st EXCEPT ![e] = reason] /\ reply' = [reply EXCEPT ![e] = answer]
  BY DEF Cancel, UpdateEvent
<1>2. e \in Event /\ reason \in CancelReason
  BY CallType DEF Cancel, PendingInv
<1>3. \A o \in freed : status[o] = "Superseded"
  BY DEF Freed
<1>4. call[h].cur \in {"Scheduled", "Active"}
  BY CallType DEF Cancel
<1>5. Fits(reason, answer)
  BY <1>2, <1>4 DEF Fits, ToResponse, CancelReason, SupersededReplies
<1> HIDE DEF e, reason, freed, answer
<1>6. ASSUME NEW o \in Event, status'[o] # "Absent"
      PROVE  Fits(status'[o], reply'[o])
  <2>1. CASE o = e
    BY <1>1, <1>2, <1>5, <2>1 DEF TypeOK
  <2>2. CASE o # e /\ o \in freed
    <3>1. status'[o] = "Scheduled" /\ reply'[o] = reply[o]
      BY <1>1, <2>2 DEF TypeOK
    <3>2. Fits("Superseded", reply[o])
      BY <1>3, <2>2 DEF Synced
    <3> QED BY <3>1, <3>2 DEF Fits
  <2>3. CASE o # e /\ o \notin freed
    <3>1. status'[o] = status[o] /\ reply'[o] = reply[o]
      BY <1>1, <2>3 DEF TypeOK
    <3> QED BY <1>6, <3>1 DEF Synced
  <2> QED BY <2>1, <2>2, <2>3
<1> QED BY <1>6 DEF Synced

\* The loop answers for every event it marks, and for the new one.
LEMMA StoreSynced ==
  ASSUME ArriveScheduled, TypeOK, Synced, Offered, NEW h \in Handle,
         NEW s \in RandomStart(call[h].event),
         NEW t \in RandomEnd(call[h].event, s),
         Store(h, s, t)
  PROVE  Synced'
<1> DEFINE e == call[h].event
           losers == Losers(e, s, t)
           winners == Winners(e, s, t)
           arrives == call[h].incoming
           final == IF winners = {} THEN arrives ELSE "Superseded"
           st == [o \in Event |-> IF o \in losers THEN "Superseded" ELSE status[o]]
<1>1. status' = [st EXCEPT ![e] = final]
  BY DEF Store
<1>2. PICK own \in IF winners = {} THEN {"EventReceived"}
                   ELSE {LoopReply(e, arrives, winners, w) : w \in winners} :
        reply' = [o \in Event |->
                   IF o = e THEN own
                   ELSE IF o \in losers THEN SupersededReply(o, status[o], e)
                   ELSE reply[o]]
  BY DEF Store
<1>3. e \in Event
  BY CallType DEF Store, Inserting
<1>4. arrives = "Scheduled"
  BY CallType DEF Store, Inserting, Offered, ArriveScheduled, EventStatusType
<1> HIDE DEF e, losers, winners, arrives
<1>5. IF winners = {} THEN own = "EventReceived" ELSE own \in SupersededReplies
  BY <1>2, LoopReplies
<1>6. Fits(final, own)
  BY <1>4, <1>5 DEF Fits
<1> HIDE DEF final
<1>7. ASSUME NEW o \in Event, status'[o] # "Absent"
      PROVE  Fits(status'[o], reply'[o])
  <2>1. CASE o = e
    BY <1>1, <1>2, <1>3, <1>6, <2>1
  <2>2. CASE o # e /\ o \in losers
    <3>1. status'[o] = "Superseded"
          /\ reply'[o] = SupersededReply(o, status[o], e)
      BY <1>1, <1>2, <2>2
    <3>2. reply'[o] \in SupersededReplies
      BY <3>1, LoopReplies
    <3> QED BY <3>1, <3>2 DEF Fits
  <2>3. CASE o # e /\ o \notin losers
    <3>1. status'[o] = status[o] /\ reply'[o] = reply[o]
      BY <1>1, <1>2, <2>3
    <3> QED BY <1>7, <3>1 DEF Synced
  <2> QED BY <2>1, <2>2, <2>3
<1> QED BY <1>7 DEF Synced

\* A call stays what it was until it is finished, and a new one carries what
\* was retrieved, as a withdrawal of what it found.
Wanted ==
  \A h \in Handle :
    call[h] # None => (call[h].cur = "Scheduled"
                         => call[h].incoming # "Superseded")

LEMMA NextOffered ==
  ASSUME TypeOK, Offered, Wanted, [Next]_vars
  PROVE  Offered' /\ Wanted'
<1>1. CASE \A h \in Handle : call'[h] # None => call'[h] = call[h]
  BY <1>1 DEF Offered, Wanted
<1>2. ASSUME NEW h \in Handle, NEW e \in Feed[h], NEW s \in Incoming, Read(h, e, s)
      PROVE  Offered' /\ Wanted'
  <2>1. call' = [call EXCEPT ![h] =
                   [event |-> e, cur |-> status[e], incoming |-> s]]
        /\ (status[e] = "Absent" \/ Withdraws(status[e], s))
    BY <1>2 DEF Read
  <2>2. \A g \in Handle : g # h => call'[g] = call[g]
    BY <2>1 DEF TypeOK
  <2>3. call'[h] = [event |-> e, cur |-> status[e], incoming |-> s]
    BY <2>1 DEF TypeOK
  <2>4. status[e] = "Scheduled" => s # "Superseded"
    BY <2>1 DEF Withdraws
  <2> QED BY <2>2, <2>3, <2>4 DEF Offered, Wanted
<1>3. ASSUME NEW h \in Handle, Finish(h) PROVE Offered' /\ Wanted'
  <2>1. call' = [call EXCEPT ![h] = None]
    BY <1>3 DEF Finish, Cancel, RejectWithdrawn, RejectExpired, Store
  <2> QED BY <1>1, <2>1 DEF TypeOK
<1>4. CASE UNCHANGED call
  BY <1>1, <1>4
<1> QED BY <1>2, <1>3, <1>4 DEF Next, Tick, StartTask, EndTask, Clean, Shutdown,
                                TaskExit, UpdateTime, vars

LEMMA NextSynced ==
  ASSUME ArriveScheduled, IInv, Offered, Wanted, Synced, [Next]_vars
  PROVE  Synced'
<1>0. TypeOK /\ PendingInv
  BY DEF IInv
<1>1. CASE StartTask
  <2>1. PICK answer \in {"EventStarted", "EventOptOut"} :
          /\ status' = [status EXCEPT ![next_start[2]] = AfterAnswer(answer)]
          /\ reply' = [reply EXCEPT ![next_start[2]] = answer]
    BY <1>1 DEF StartTask, UpdateEvent
  <2>2. Fits(AfterAnswer(answer), answer)
    BY DEF Fits, AfterAnswer
  <2> QED BY <1>0, <2>1, <2>2 DEF Synced, TypeOK
<1>2. CASE EndTask
  <2>1. /\ status' = [status EXCEPT ![next_end[2]] = "Complete"]
        /\ reply' = [reply EXCEPT ![next_end[2]] = "EventCompleted"]
    BY <1>2 DEF EndTask, UpdateEvent, ToResponse
  <2>2. Fits("Complete", "EventCompleted")
    BY DEF Fits
  <2> QED BY <1>0, <2>1, <2>2 DEF Synced, TypeOK
<1>3. CASE Clean
  BY <1>3 DEF Clean, Synced, outside
<1>4. ASSUME NEW h \in Handle, Finish(h) PROVE Synced'
  <2>1. CASE Cancel(h)
    BY <1>0, <2>1, CancelSynced DEF Wanted, Cancel
  <2>2. CASE RejectWithdrawn(h) \/ RejectExpired(h)
    <3> DEFINE e == call[h].event
    <3>1. /\ \E r : reply' = [reply EXCEPT ![e] = r]
          /\ status' = status
          /\ call[h] # None /\ call[h].cur = "Absent"
      BY <2>2 DEF RejectWithdrawn, RejectExpired, Inserting, events
    <3>2. e \in Event /\ status[e] = "Absent"
      BY <1>0, <3>1, CallType DEF PendingInv
    <3> QED BY <1>0, <3>1, <3>2 DEF Synced, TypeOK
  <2>3. ASSUME NEW s \in RandomStart(call[h].event),
               NEW t \in RandomEnd(call[h].event, s), Store(h, s, t)
        PROVE  Synced'
    BY <1>0, <2>3, StoreSynced
  <2> QED BY <1>4, <2>1, <2>2, <2>3 DEF Finish
<1>5. CASE UNCHANGED <<status, reply>>
  BY <1>5 DEF Synced
<1> QED BY <1>1, <1>2, <1>3, <1>4, <1>5
        DEF Next, Tick, Shutdown, TaskExit, UpdateTime, Read, events, outside,
            vars

\* What the server was last told of each stored event is what the schedule
\* believes of it, when no event arrives already active or through two
\* handles: for any interleaving of starts, ends, cancels, supersessions and
\* prunes.
THEOREM ServerToldSo ==
  FeedsDisjoint /\ ArriveScheduled => (Spec => []ServerInSync)
<1> SUFFICES ASSUME FeedsDisjoint, ArriveScheduled PROVE Spec => []ServerInSync
  OBVIOUS
<1>1. Init => Synced /\ Offered /\ Wanted
  BY DEF Init, Synced, Offered, Wanted
<1>2. IInv /\ Synced /\ Offered /\ Wanted /\ [Next]_vars
        => Synced' /\ Offered' /\ Wanted'
  BY NextSynced, NextOffered DEF IInv
<1> QED BY <1>1, <1>2, Inductive, SyncedIs, PTL DEF Spec

-----------------------------------------------------------------------------
(* Nothing starts twice.                                                   *)

\* How long an event has at least started when that is noticed: a task is late
\* by a tick, but an event may arrive just when it becomes active.
Lag == IF ArriveScheduled THEN 1 ELSE 0

\* Stored windows are among those that could be drawn.
Placed == \A e \in Event : status[e] # "Absent" => start[e] \in RandomStart(e)

Started(e) == client[e] # "Unaware" \/ status[e] = "Active"

\* What has started started in the past, and if nothing has happened to it
\* since the last prune it started before that.
Begun ==
  \A e \in Event : status[e] # "Absent" /\ Started(e) =>
    /\ start[e] + Lag <= now
    /\ e \notin touched => start[e] + Lag <= last_prune

\* So has what a pending cancel found active.
Broken ==
  \A h \in Handle : call[h] # None /\ call[h].cur = "Active" =>
    start[call[h].event] + Lag <= now

\* What has started and is forgotten cannot be stored again: it is over.
Gone ==
  \A e \in Event : status[e] = "Absent" /\ Started(e) =>
    \A s \in RandomStart(e) : \A t \in RandomEnd(e, s) : t <= now

Ahead == \A h \in Handle : time_offset[h] >= 0

OnceInv == Placed /\ Begun /\ Broken /\ Gone /\ NoRestart /\ Ahead

\* An event that is retrieved as active has started, whatever start is drawn.
ActiveBegun ==
  \A h \in Handle : call[h] # None /\ call[h].incoming = "Active" =>
    \A s \in RandomStart(call[h].event) : s + Lag <= now

\* One or none.
LEMMA LagType == Lag \in {0, 1}
  BY DEF Lag

\* Steps that touch no event keep it; time only helps.
LEMMA StillOnce ==
  ASSUME TypeOK, OnceInv, now' \in {now, now + 1},
         UNCHANGED <<status, start, touched, last_prune, client>>,
         \A h \in Handle : call'[h] # None => call'[h] = call[h],
         Ahead'
  PROVE  OnceInv'
<1>0. \A h \in Handle : call[h] # None => call[h].event \in Event
  BY CallType
<1>1. Placed' /\ NoRestart'
  BY DEF OnceInv, Placed, NoRestart
<1>2. Begun' /\ Broken'
  BY <1>0, LagType DEF OnceInv, Begun, Broken, Started, TypeOK
<1>3. Gone'
  <2> SUFFICES ASSUME NEW e \in Event, status[e] = "Absent", Started(e),
                      NEW s \in RandomStart(e), NEW t \in RandomEnd(e, s)
               PROVE  t <= now'
    BY DEF Gone, Started
  <2>1. t <= now /\ t \in Int
    BY RandomType DEF OnceInv, Gone
  <2> QED BY <2>1 DEF TypeOK
<1> QED BY <1>1, <1>2, <1>3 DEF OnceInv

\* The start task announces an event whose start has passed.
LEMMA StartOnce ==
  ASSUME IInv, OnceInv, StartTask
  PROVE  OnceInv'
<1> DEFINE e == next_start[2]
<1>1. e \in Event /\ status[e] = "Scheduled"
  BY DueStored DEF IInv, StartTask
<1>2. start[e] + Lag <= now
  <2>1. next_start # None /\ next_start[1] < now
    BY DEF StartTask, Due, TaskTime, CloneOffset, IInv, TypeOK
  <2>2. start[e] < now
    BY <2>1, NextsEvent DEF IInv, NextsValid, TypeOK
  <2>3. start[e] \in Int /\ now \in Nat
    BY <1>1 DEF IInv, TypeOK
  <2> QED BY <2>2, <2>3, LagType
<1>3. PICK answer \in {"EventStarted", "EventOptOut"} :
        /\ status' = [status EXCEPT ![e] = AfterAnswer(answer)]
        /\ client' = [client EXCEPT ![e] =
             IF answer = "EventOptOut" THEN "Declined" ELSE "Active"]
  BY DEF StartTask, UpdateEvent
<1>4. /\ touched' = touched \cup {e}
      /\ UNCHANGED <<now, start, last_prune, call, time_offset>>
  BY DEF StartTask
<1>5. /\ status \in [Event -> EIStatus \cup {"Absent"}]
      /\ client \in [Event -> EIStatus \cup {"Unaware", "Declined"}]
      /\ \A h \in Handle : call[h] # None => call[h].event \in Event
  BY CallType DEF IInv, TypeOK
<1> HIDE DEF e
<1>6. \A o \in Event : o # e => status'[o] = status[o] /\ client'[o] = client[o]
  BY <1>3, <1>5
<1>7. /\ status'[e] \in {"Active", "Cancelled"}
      /\ client'[e] \in {"Active", "Declined"}
  BY <1>1, <1>3, <1>5 DEF AfterAnswer
<1>8. Placed' /\ Begun' /\ Broken'
  BY <1>1, <1>2, <1>4, <1>5, <1>6, <1>7
     DEF OnceInv, Placed, Begun, Broken, Started, Lag
<1>9. Gone'
  BY <1>4, <1>6, <1>7 DEF OnceInv, Gone, Started
<1>10. NoRestart' /\ Ahead'
  BY <1>4, <1>6, <1>7 DEF OnceInv, NoRestart, Ahead
<1> QED BY <1>8, <1>9, <1>10 DEF OnceInv

\* The end task ends what has begun.
LEMMA EndOnce ==
  ASSUME IInv, OnceInv, EndTask
  PROVE  OnceInv'
<1> DEFINE e == next_end[2]
<1>1. e \in Event /\ status[e] = "Active"
  BY DueStored DEF IInv, EndTask
<1>2. /\ status' = [status EXCEPT ![e] = "Complete"]
      /\ client' = [client EXCEPT ![e] = "Complete"]
      /\ touched' = touched \cup {e}
      /\ UNCHANGED <<now, start, last_prune, call, time_offset>>
  BY DEF EndTask, UpdateEvent
<1>3. /\ status \in [Event -> EIStatus \cup {"Absent"}]
      /\ client \in [Event -> EIStatus \cup {"Unaware", "Declined"}]
      /\ \A h \in Handle : call[h] # None => call[h].event \in Event
  BY CallType DEF IInv, TypeOK
<1> HIDE DEF e
<1>4. \A o \in Event : o # e => status'[o] = status[o] /\ client'[o] = client[o]
  BY <1>2, <1>3
<1>5. status'[e] = "Complete" /\ client'[e] = "Complete"
  BY <1>1, <1>2, <1>3
<1>6. Placed' /\ Begun' /\ Broken'
  BY <1>1, <1>2, <1>3, <1>4, <1>5
     DEF OnceInv, Placed, Begun, Broken, Started, Lag
<1>7. Gone' /\ NoRestart' /\ Ahead'
  BY <1>2, <1>4, <1>5 DEF OnceInv, Gone, Started, NoRestart, Ahead
<1> QED BY <1>6, <1>7 DEF OnceInv

\* What a prune forgets is over, because it has been left alone since before
\* the last prune; it forgets nothing that a pending cancel has found.
LEMMA CleanOnce ==
  ASSUME LastsAtMost(Week + 1 + Lag), IInv, OnceInv, Clean
  PROVE  OnceInv'
<1>1. \A o \in Event :
        IF o \in Pruned THEN status'[o] = "Absent"
        ELSE status'[o] = status[o] /\ start'[o] = start[o]
  BY DEF Clean
<1>2. /\ now > last_prune + Week /\ touched' = {} /\ last_prune' = now
      /\ UNCHANGED <<now, client, call, time_offset>>
  BY DEF Clean, outside
<1>3. /\ now \in Nat /\ last_prune \in Nat /\ Week \in Nat
      /\ start \in [Event -> Int]
      /\ \A h \in Handle : call[h] # None => call[h].event \in Event
  BY InputAssumption, CallType DEF IInv, TypeOK
<1>4. \A h \in Handle : call[h] # None /\ call[h].cur = "Active"
                         => call[h].event \notin Pruned
  BY DEF Clean
<1>5. Placed' /\ Begun' /\ Broken'
  BY <1>1, <1>2, <1>3, <1>4 DEF OnceInv, Placed, Begun, Broken, Started, Lag
<1>6. ASSUME NEW e \in Pruned, Started(e),
             NEW s \in RandomStart(e), NEW t \in RandomEnd(e, s)
      PROVE  t <= now
  <2>1. e \in Event /\ status[e] # "Absent" /\ e \notin touched
    BY DEF Pruned, Stored
  <2>2. start[e] + Lag <= last_prune /\ start[e] \in RandomStart(e)
    BY <1>6, <2>1 DEF OnceInv, Begun, Placed
  <2>3. t <= start[e] + (Week + 1 + Lag)
    BY <2>1, <2>2 DEF LastsAtMost
  <2>4. t \in Int /\ start[e] \in Int
    BY <1>3, <2>1, RandomType
  <2> QED BY <1>2, <1>3, <2>2, <2>3, <2>4, LagType
<1>7. \A o \in Pruned : status[o] # "Active" /\ o \in Event
  BY DEF Pruned, Stored
<1>8. Gone'
  BY <1>1, <1>2, <1>6, <1>7 DEF OnceInv, Gone, Started
<1>9. NoRestart' /\ Ahead'
  BY <1>1, <1>2 DEF OnceInv, NoRestart, Ahead
<1> QED BY <1>5, <1>8, <1>9 DEF OnceInv

\* A cancel reschedules only what has not started.
LEMMA CancelOnce ==
  ASSUME IInv, OnceInv, NEW h \in Handle, Cancel(h)
  PROVE  OnceInv'
<1>0. PICK e \in Event : e = call[h].event
  BY CallType DEF Cancel, IInv
<1> DEFINE reason == call[h].incoming
           freed == Freed(e, HandleTime(h))
           st == [o \in Event |-> IF o \in freed THEN "Scheduled" ELSE status[o]]
<1>1. /\ status' = [st EXCEPT ![e] = reason]
      /\ client' = IF call[h].cur = "Active"
                   THEN [client EXCEPT ![e] = reason] ELSE client
      /\ touched' = touched \cup freed \cup {e}
      /\ call' = [call EXCEPT ![h] = None]
      /\ UNCHANGED <<now, start, last_prune, time_offset>>
  BY <1>0 DEF Cancel, UpdateEvent
<1>2. /\ status[e] # "Absent"
      /\ reason \in {"Cancelled", "CancelledRandom", "Superseded"}
  BY <1>0, CallType DEF Cancel, IInv, PendingInv, CancelReason
<1>3. call[h].cur = "Active" => start[e] + Lag <= now
  BY <1>0 DEF Cancel, OnceInv, Broken
<1>4. \A o \in freed : status[o] = "Superseded" /\ start[o] > HandleTime(h)
  BY DEF Freed
<1>5. HandleTime(h) >= now /\ HandleTime(h) \in Int
  BY DEF HandleTime, OnceInv, Ahead, IInv, TypeOK
<1>6. /\ status \in [Event -> EIStatus \cup {"Absent"}]
      /\ client \in [Event -> EIStatus \cup {"Unaware", "Declined"}]
      /\ start \in [Event -> Int] /\ now \in Nat
      /\ call \in [Handle -> Call \cup {None}]
  BY DEF IInv, TypeOK
<1>7. \A o \in freed : o \in Event
  BY DEF Freed
<1> HIDE DEF reason, freed
<1>8. \A o \in freed : client[o] = "Unaware"
  <2> SUFFICES ASSUME NEW o \in freed, client[o] # "Unaware" PROVE FALSE
    OBVIOUS
  <2>1. start[o] + Lag <= now
    BY <1>4, <1>7 DEF OnceInv, Begun, Started
  <2> QED BY <1>4, <1>5, <1>6, <1>7, <2>1, LagType
<1>9. \A o \in Event : o # e =>
        /\ client'[o] = client[o]
        /\ status'[o] = IF o \in freed THEN "Scheduled" ELSE status[o]
  BY <1>1, <1>6
<1>10. /\ status'[e] = reason
       /\ client'[e] = IF call[h].cur = "Active" THEN reason ELSE client[e]
  BY <1>1, <1>2, <1>6
<1>11. Placed'
  BY <1>1, <1>2, <1>4, <1>9 DEF OnceInv, Placed
<1>12. Begun'
  <2>1. Started(e)' => start'[e] + Lag <= now'
    BY <1>1, <1>2, <1>3, <1>10 DEF OnceInv, Begun, Started
  <2>2. \A o \in Event : o # e /\ status'[o] # "Absent" /\ Started(o)'
          => status[o] # "Absent" /\ Started(o)
    BY <1>4, <1>8, <1>9 DEF Started
  <2> QED BY <1>1, <2>1, <2>2 DEF OnceInv, Begun, Lag
<1>13. Gone'
  BY <1>1, <1>2, <1>9, <1>10 DEF OnceInv, Gone, Started
<1>14. NoRestart'
  BY <1>1, <1>2, <1>8, <1>9, <1>10 DEF OnceInv, NoRestart
<1>15. Broken' /\ Ahead'
  <2>1. \A g \in Handle : call'[g] # None => g # h /\ call'[g] = call[g]
    BY <1>1, <1>6
  <2> QED BY <1>1, <2>1 DEF OnceInv, Broken, Ahead, Lag
<1> QED BY <1>11, <1>12, <1>13, <1>14, <1>15 DEF OnceInv

\* What has started is not stored again: its end is past for every handle.
LEMMA StoreFresh ==
  ASSUME IInv, OnceInv, NEW h \in Handle,
         NEW s \in RandomStart(call[h].event),
         NEW t \in RandomEnd(call[h].event, s),
         Store(h, s, t)
  PROVE  client[call[h].event] = "Unaware"
<1>0. PICK e \in Event : e = call[h].event
  BY CallType DEF Store, Inserting, IInv
<1>1. status[e] = "Absent" /\ t > HandleTime(h)
  BY <1>0, CallType DEF Store, Inserting, IInv, PendingInv
<1> SUFFICES ASSUME client[e] # "Unaware" PROVE FALSE
  BY <1>0
<1>2. t <= now
  BY <1>0, <1>1 DEF OnceInv, Gone, Started
<1>3. HandleTime(h) >= now /\ HandleTime(h) \in Int /\ now \in Nat
  BY DEF HandleTime, OnceInv, Ahead, IInv, TypeOK
<1>4. t \in Int
  BY <1>0, RandomType
<1> QED BY <1>1, <1>2, <1>3, <1>4

\* What is stored has never started, or just now, and what the loop stops has.
LEMMA StoreOnce ==
  ASSUME ActiveBegun, IInv, OnceInv, NEW h \in Handle,
         NEW s \in RandomStart(call[h].event),
         NEW t \in RandomEnd(call[h].event, s),
         Store(h, s, t)
  PROVE  OnceInv'
<1>0. PICK e \in Event : e = call[h].event
  BY CallType DEF Store, Inserting, IInv
<1> DEFINE losers == Losers(e, s, t)
           winners == Winners(e, s, t)
           arrives == call[h].incoming
           final == IF winners = {} THEN arrives ELSE "Superseded"
           st == [o \in Event |-> IF o \in losers THEN "Superseded" ELSE status[o]]
           stopped == Interrupted(e, losers, winners, arrives)
<1>1. /\ status' = [st EXCEPT ![e] = final]
      /\ start' = [start EXCEPT ![e] = s]
      /\ touched' = touched \cup losers \cup {e}
      /\ client' = [o \in Event |->
           IF o \in stopped THEN "Superseded" ELSE client[o]]
      /\ call' = [call EXCEPT ![h] = None]
      /\ UNCHANGED <<now, last_prune, time_offset>>
  BY <1>0 DEF Store
<1>2. /\ status[e] = "Absent"
      /\ losers \subseteq Event
  BY <1>0, CallType DEF Store, Inserting, IInv, PendingInv, Losers, Stored
<1>3. /\ arrives \in {"Scheduled", "Active"}
      /\ arrives = "Active" => s + Lag <= now
  BY <1>0, CallType
     DEF Store, Inserting, IInv, ActiveBegun, EventStatusType
<1>4. \A o : o \in stopped <=> \/ o \in losers /\ status[o] = "Active"
                               \/ o = e /\ arrives = "Active" /\ winners # {}
  BY DEF Interrupted
<1>5. /\ final \in {arrives, "Superseded"}
      /\ winners # {} => final = "Superseded"
  OBVIOUS
<1>6. \A o \in losers : status[o] # "Absent"
  BY DEF Losers, Stored
<1>7. /\ status \in [Event -> EIStatus \cup {"Absent"}]
      /\ client \in [Event -> EIStatus \cup {"Unaware", "Declined"}]
      /\ start \in [Event -> Int] /\ now \in Nat
      /\ call \in [Handle -> Call \cup {None}]
  BY DEF IInv, TypeOK
<1>8. client[e] = "Unaware"
  BY <1>0, StoreFresh
<1>9. s \in RandomStart(e)
  BY <1>0
<1>10. \A g \in Handle : call'[g] # None /\ call'[g].cur = "Active" =>
         /\ call'[g] = call[g]
         /\ call[g].event \in Event /\ call[g].event # e
  <2>1. \A g \in Handle : call'[g] # None => g # h /\ call'[g] = call[g]
    BY <1>1, <1>7
  <2>2. \A g \in Handle : call[g] # None /\ call[g].cur = "Active" =>
          call[g].event \in Event /\ status[call[g].event] # "Absent"
    BY CallType DEF IInv, PendingInv
  <2> QED BY <1>2, <2>1, <2>2
<1> HIDE DEF losers, winners, arrives, final, stopped
<1>11. /\ status'[e] = final /\ start'[e] = s
       /\ client'[e] = IF e \in stopped THEN "Superseded" ELSE "Unaware"
  BY <1>1, <1>2, <1>7, <1>8
<1>12. \A o \in Event : o # e =>
         /\ status'[o] = IF o \in losers THEN "Superseded" ELSE status[o]
         /\ client'[o] = IF o \in losers /\ status[o] = "Active"
                         THEN "Superseded" ELSE client[o]
         /\ start'[o] = start[o]
  BY <1>1, <1>4, <1>7
<1>13. e \in stopped => arrives = "Active" /\ winners # {}
  BY <1>2, <1>4, <1>6
<1>14. Placed'
  BY <1>6, <1>9, <1>11, <1>12 DEF OnceInv, Placed
<1>15. \A o \in Event : o # e /\ Started(o)' => Started(o)
  BY <1>12 DEF Started
<1>16. Started(e)' => s + Lag <= now
  BY <1>3, <1>5, <1>11, <1>13 DEF Started
<1>17. Begun'
  <2>1. \A o \in Event : o # e /\ status'[o] # "Absent" => status[o] # "Absent"
    BY <1>6, <1>12
  <2>2. now' = now /\ last_prune' = last_prune /\ e \in touched'
        /\ touched \subseteq touched'
    BY <1>1
  <2> QED BY <1>11, <1>12, <1>15, <1>16, <2>1, <2>2 DEF OnceInv, Begun, Lag
<1>18. Gone'
  <2>1. \A o \in Event : status'[o] = "Absent" => o # e /\ status[o] = "Absent"
    BY <1>3, <1>5, <1>6, <1>11, <1>12
  <2> QED BY <1>1, <1>15, <2>1 DEF OnceInv, Gone
<1>19. NoRestart'
  BY <1>3, <1>5, <1>11, <1>12, <1>13 DEF OnceInv, NoRestart
<1>20. Broken' /\ Ahead'
  BY <1>1, <1>10, <1>12 DEF OnceInv, Broken, Ahead, Lag
<1> QED BY <1>14, <1>17, <1>18, <1>19, <1>20 DEF OnceInv

\* Reading an event that is active finds one that has begun.
LEMMA OtherOnce ==
  ASSUME IInv, OnceInv, Ahead',
         \/ Tick \/ Shutdown \/ \E t \in Task : TaskExit(t)
         \/ \E h \in Handle :
              \/ \E d \in Drift : UpdateTime(h, d)
              \/ \E e \in Feed[h] : \E s \in Incoming : Read(h, e, s)
              \/ RejectWithdrawn(h) \/ RejectExpired(h)
         \/ UNCHANGED vars
  PROVE  OnceInv'
<1>0. TypeOK
  BY DEF IInv
<1>1. CASE Tick \/ Shutdown \/ (\E t \in Task : TaskExit(t)) \/ UNCHANGED vars
  BY <1>0, <1>1, StillOnce DEF Tick, Shutdown, TaskExit, vars, events, outside
<1>2. ASSUME NEW h \in Handle, NEW d \in Drift, UpdateTime(h, d)
      PROVE  OnceInv'
  BY <1>0, <1>2, StillOnce DEF UpdateTime, events, outside
<1>3. ASSUME NEW h \in Handle, NEW e \in Feed[h], NEW s \in Incoming, Read(h, e, s)
      PROVE  OnceInv'
  <2>1. /\ call' = [call EXCEPT ![h] =
                      [event |-> e, cur |-> status[e], incoming |-> s]]
        /\ UNCHANGED <<now, status, start, touched, last_prune, client>>
    BY <1>3 DEF Read, events, outside
  <2>2. e \in Event
    BY InputAssumption
  <2>3. Broken'
    <3>1. \A g \in Handle : g # h => call'[g] = call[g]
      BY <1>0, <2>1 DEF TypeOK
    <3>2. call'[h] = [event |-> e, cur |-> status[e], incoming |-> s]
      BY <1>0, <2>1 DEF TypeOK
    <3>3. status[e] = "Active" => start[e] + Lag <= now
      BY <2>2 DEF OnceInv, Begun, Started
    <3> QED BY <2>1, <3>1, <3>2, <3>3 DEF OnceInv, Broken, Lag
  <2> QED BY <2>1, <2>3
          DEF OnceInv, Placed, Begun, Gone, NoRestart, Started, Lag
<1>4. ASSUME NEW h \in Handle, RejectWithdrawn(h) \/ RejectExpired(h)
      PROVE  OnceInv'
  <2>1. /\ call' = [call EXCEPT ![h] = None]
        /\ UNCHANGED <<now, status, start, touched, last_prune, client>>
    BY <1>4 DEF RejectWithdrawn, RejectExpired, events
  <2>2. \A g \in Handle : call'[g] # None => call'[g] = call[g]
    BY <1>0, <2>1 DEF TypeOK
  <2> QED BY <1>0, <2>1, <2>2, StillOnce
<1> QED BY <1>1, <1>2, <1>3, <1>4

\* Every step keeps it, as long as no handle turns behind.
LEMMA NextOnce ==
  ASSUME LastsAtMost(Week + 1 + Lag), IInv, OnceInv, ActiveBegun, Ahead',
         [Next]_vars
  PROVE  OnceInv'
<1>1. ASSUME NEW h \in Handle, Finish(h) PROVE OnceInv'
  <2>1. ASSUME NEW s \in RandomStart(call[h].event),
               NEW t \in RandomEnd(call[h].event, s), Store(h, s, t)
        PROVE  OnceInv'
    BY <2>1, StoreOnce
  <2> QED BY <1>1, <2>1, CancelOnce, OtherOnce DEF Finish
<1>2. CASE StartTask \/ EndTask \/ Clean
  BY <1>2, StartOnce, EndOnce, CleanOnce
<1>3. CASE \/ Tick \/ Shutdown \/ (\E t \in Task : TaskExit(t))
           \/ \E h \in Handle :
                \/ \E d \in Drift : UpdateTime(h, d)
                \/ \E e \in Feed[h] : \E s \in Incoming : Read(h, e, s)
           \/ UNCHANGED vars
  BY <1>3, OtherOnce
<1> QED BY <1>1, <1>2, <1>3 DEF Next

\* No handle turns behind if no Time resource is.
LEMMA NextAhead ==
  ASSUME NeverBehind, TypeOK, Ahead, [Next]_vars
  PROVE  Ahead'
<1>1. ASSUME NEW h \in Handle, NEW d \in Drift, UpdateTime(h, d) PROVE Ahead'
  BY <1>1 DEF UpdateTime, NeverBehind, Ahead, TypeOK
<1>2. CASE UNCHANGED time_offset
  BY <1>2 DEF Ahead
<1>3. ASSUME NEW h \in Handle, Finish(h) PROVE Ahead'
  BY <1>2, <1>3 DEF Finish, Cancel, RejectWithdrawn, RejectExpired, Store
<1>4. CASE \/ Tick \/ StartTask \/ EndTask \/ Clean \/ Shutdown
           \/ \E t \in Task : TaskExit(t)
           \/ \E h \in Handle : \E e \in Feed[h] : \E s \in Incoming :
                Read(h, e, s)
           \/ UNCHANGED vars
  BY <1>2, <1>4 DEF Tick, StartTask, EndTask, Clean, Shutdown, TaskExit, Read,
                    vars
<1> QED BY <1>1, <1>3, <1>4 DEF Next

\* At first nothing has started.
LEMMA InitOnce == Init => OnceInv
  BY DEF Init, OnceInv, Placed, Begun, Broken, Gone, NoRestart, Ahead, Started

Proviso ==
  /\ FeedsDisjoint
  /\ ArriveScheduled
  /\ NeverBehind
  /\ FitsWeek

\* The inductive invariant: what the schedule keeps right, and that it starts
\* nothing twice.
LEMMA OnceInductive ==
  Proviso => (Spec => [](IInv /\ Offered /\ Wanted /\ OnceInv))
<1> SUFFICES ASSUME Proviso
             PROVE  Spec => [](IInv /\ Offered /\ Wanted /\ OnceInv)
  OBVIOUS
<1>1. FeedsDisjoint
  BY DEF Proviso
<1>2. Init => Offered /\ Wanted /\ OnceInv
  BY InitOnce DEF Init, Offered, Wanted
<1>3. LastsAtMost(Week + 1 + Lag)
  <2>1. Week + 1 + Lag = Week + 2
    BY InputAssumption DEF Lag, Proviso
  <2> QED BY <2>1 DEF Proviso, FitsWeek
<1>4. Offered => ActiveBegun
  BY DEF Offered, ActiveBegun, Proviso, ArriveScheduled
<1>5. IInv /\ Offered /\ Wanted /\ OnceInv /\ [Next]_vars
        => Offered' /\ Wanted' /\ OnceInv'
  <2> SUFFICES ASSUME IInv, Offered, Wanted, OnceInv, [Next]_vars
               PROVE  Offered' /\ Wanted' /\ OnceInv'
    OBVIOUS
  <2>1. Ahead'
    BY NextAhead DEF Proviso, IInv, OnceInv
  <2> QED BY <1>3, <1>4, <2>1, NextOffered, NextOnce DEF IInv
<1> QED BY <1>1, <1>2, <1>5, Inductive, PTL DEF Spec

\* An event that the client was ever told of is never scheduled again, by
\* un-supersession, by another copy of it, or after a prune, whether it was
\* accepted or opted out of: if no event is longer than the time between two
\* prunes.
THEOREM StartsOnce == Proviso => (Spec => []NoRestart)
<1> SUFFICES ASSUME Proviso PROVE Spec => []NoRestart
  OBVIOUS
<1>1. OnceInv => NoRestart
  BY DEF OnceInv
<1> QED BY <1>1, OnceInductive, PTL

-----------------------------------------------------------------------------
(* The client knows what it runs.                                          *)

\* What is active was announced; what was announced is active until the client
\* is told otherwise or the server withdraws it.
Known ==
  \A e \in Event :
    /\ status[e] = "Active" => client[e] \in {"Active", "Declined"}
    /\ status[e] # "Absent" /\ client[e] = "Active"
         => status[e] = "Active" \/ e \in cancelled

LEMMA NextKnown ==
  ASSUME ArriveScheduled, IInv, Offered, OnceInv, Known, [Next]_vars
  PROVE  Known'
<1>0. /\ status \in [Event -> EIStatus \cup {"Absent"}]
      /\ client \in [Event -> EIStatus \cup {"Unaware", "Declined"}]
  BY DEF IInv, TypeOK
<1>1. CASE StartTask
  <2>1. PICK answer \in {"EventStarted", "EventOptOut"} :
          /\ status' = [status EXCEPT ![next_start[2]] = AfterAnswer(answer)]
          /\ client' = [client EXCEPT ![next_start[2]] =
               IF answer = "EventOptOut" THEN "Declined" ELSE "Active"]
          /\ cancelled' = cancelled
    BY <1>1 DEF StartTask, UpdateEvent
  <2> QED BY <1>0, <2>1 DEF Known, AfterAnswer
<1>2. CASE EndTask
  <2>1. /\ status' = [status EXCEPT ![next_end[2]] = "Complete"]
        /\ client' = [client EXCEPT ![next_end[2]] = "Complete"]
        /\ cancelled' = cancelled
    BY <1>2 DEF EndTask, UpdateEvent
  <2> QED BY <1>0, <2>1 DEF Known
<1>3. CASE Clean
  BY <1>3 DEF Clean, Known, outside
<1>4. ASSUME NEW h \in Handle, Cancel(h) PROVE Known'
  <2>0. PICK e \in Event : e = call[h].event
    BY <1>4, CallType DEF Cancel, IInv
  <2> DEFINE freed == Freed(e, HandleTime(h))
  <2>1. /\ call[h].incoming \in {"Cancelled", "CancelledRandom", "Superseded"}
        /\ \A o \in freed : status[o] = "Superseded"
    BY <1>4, <2>0, CallType DEF Cancel, IInv, PendingInv, CancelReason, Freed
  <2>2. /\ status' = [[o \in Event |-> IF o \in freed THEN "Scheduled"
                                       ELSE status[o]]
                        EXCEPT ![e] = call[h].incoming]
        /\ client' = IF call[h].cur = "Active"
                     THEN [client EXCEPT ![e] = call[h].incoming] ELSE client
        /\ cancelled' = cancelled \cup {e}
    BY <1>4, <2>0 DEF Cancel, UpdateEvent
  <2> HIDE DEF freed
  <2> QED BY <1>0, <2>1, <2>2 DEF Known
<1>5. ASSUME NEW h \in Handle, NEW s \in RandomStart(call[h].event),
             NEW t \in RandomEnd(call[h].event, s), Store(h, s, t)
      PROVE  Known'
  <2>0. PICK e \in Event : e = call[h].event
    BY <1>5, CallType DEF Store, Inserting, IInv
  <2> DEFINE losers == Losers(e, s, t)
             winners == Winners(e, s, t)
             final == IF winners = {} THEN "Scheduled" ELSE "Superseded"
  <2>1. call[h].incoming = "Scheduled"
    BY <1>5, CallType DEF Store, Inserting, IInv, Offered, ArriveScheduled,
                          EventStatusType
  <2>2. /\ status' = [[o \in Event |-> IF o \in losers THEN "Superseded"
                                       ELSE status[o]] EXCEPT ![e] = final]
        /\ client' = [o \in Event |->
             IF o \in losers /\ status[o] = "Active" THEN "Superseded"
             ELSE client[o]]
        /\ cancelled' = cancelled
    BY <1>5, <2>0, <2>1 DEF Store, Interrupted
  <2>3. client[e] = "Unaware" /\ final # "Active"
    BY <1>5, <2>0, StoreFresh
  <2>4. \A o \in losers : status[o] # "Absent"
    BY DEF Losers, Stored
  <2> HIDE DEF losers, final
  <2> QED BY <1>0, <2>2, <2>3, <2>4 DEF Known
<1>6. CASE UNCHANGED <<status, client, cancelled>>
  BY <1>6 DEF Known
<1> QED BY <1>1, <1>2, <1>3, <1>4, <1>5, <1>6
        DEF Next, Finish, Tick, Shutdown, TaskExit, UpdateTime, Read,
            RejectWithdrawn, RejectExpired, events, outside, vars

LEMMA KnownInductive ==
  Proviso => (Spec => [](IInv /\ Offered /\ OnceInv /\ Known))
<1> SUFFICES ASSUME Proviso
             PROVE  Spec => [](IInv /\ Offered /\ OnceInv /\ Known)
  OBVIOUS
<1>1. Init => Known
  BY DEF Init, Known
<1>2. IInv /\ Offered /\ OnceInv /\ Known /\ [Next]_vars => Known'
  BY NextKnown DEF Proviso
<1> QED BY <1>1, <1>2, OnceInductive, PTL DEF Spec

\* The client knows what it runs: an active event was announced to it, and an
\* event it was told to run is active until it is told otherwise or the server
\* cancels it; under the same conditions.
THEOREM ClientToldSo == Proviso => (Spec => []ClientInSync)
<1> SUFFICES ASSUME Proviso PROVE Spec => []ClientInSync
  OBVIOUS
<1>1. Known => ClientInSync
  BY DEF Known, ClientInSync, Stored
<1> QED BY <1>1, KnownInductive, PTL

-----------------------------------------------------------------------------
(* The handler is called in an order it can follow.                        *)

\* Only what the client has accepted is active, and a cancel that found its
\* event active is about one that the client runs, or has run until it ended or
\* was superseded.
Heeded ==
  /\ \A e \in Event : status[e] = "Active" => client[e] = "Active"
  /\ \A h \in Handle : call[h] # None /\ call[h].cur = "Active" =>
       client[call[h].event] \in {"Active", "Complete", "Superseded"}

\* Every step tells the handler what it may be told.

LEMMA NextHeeded ==
  ASSUME OptOutCancels, ArriveScheduled, CallsApart, IInv, Offered, OnceInv,
         Heeded, [Next]_vars
  PROVE  Heeded' /\ [N!Next]_client
<1>0. /\ status \in [Event -> EIStatus \cup {"Absent"}]
      /\ client \in [Event -> EIStatus \cup {"Unaware", "Declined"}]
      /\ call \in [Handle -> Call \cup {None}]
      /\ \A h \in Handle : call[h] # None => call[h].event \in Event
  BY CallType DEF IInv, TypeOK
<1> DEFINE Kept == Heeded' /\ [N!Next]_client
<1>1. CASE StartTask
  <2>0. PICK e \in Event : e = next_start[2] /\ status[e] = "Scheduled"
    BY <1>1, DueStored DEF IInv, StartTask
  <2>1. PICK answer \in {"EventStarted", "EventOptOut"} :
          /\ status' = [status EXCEPT ![e] = AfterAnswer(answer)]
          /\ client' = [client EXCEPT ![e] =
               IF answer = "EventOptOut" THEN "Declined" ELSE "Active"]
          /\ call' = call
    BY <1>1, <2>0 DEF StartTask, UpdateEvent
  <2>2. client[e] = "Unaware"
    BY <2>0 DEF OnceInv, NoRestart
  <2>3. Heeded'
    BY <1>0, <2>1, <2>2 DEF Heeded, AfterAnswer
  <2>4. N!Start(e)
    BY <2>1, <2>2 DEF N!Start, N!Tell
  <2> QED BY <2>3, <2>4 DEF N!Next
<1>2. CASE EndTask
  <2>0. PICK e \in Event : e = next_end[2] /\ status[e] = "Active"
    BY <1>2, DueStored DEF IInv, EndTask
  <2>1. /\ status' = [status EXCEPT ![e] = "Complete"]
        /\ client' = [client EXCEPT ![e] = "Complete"]
        /\ call' = call
    BY <1>2, <2>0 DEF EndTask, UpdateEvent
  <2>2. client[e] = "Active"
    BY <2>0 DEF Heeded
  <2>3. Heeded'
    BY <1>0, <2>1, <2>2 DEF Heeded
  <2>4. N!End(e)
    BY <2>1, <2>2 DEF N!End, N!Tell
  <2> QED BY <2>3, <2>4 DEF N!Next
<1>3. CASE Clean
  <2>1. /\ \A o \in Event : status'[o] \in {"Absent", status[o]}
        /\ UNCHANGED <<client, call>>
    BY <1>3 DEF Clean, outside
  <2> QED BY <1>0, <2>1 DEF Heeded
<1>4. ASSUME NEW h \in Handle, Cancel(h) PROVE Kept
  <2>0. PICK e \in Event : e = call[h].event
    BY <1>4, CallType DEF Cancel, IInv
  <2> DEFINE freed == Freed(e, HandleTime(h))
             reason == call[h].incoming
  <2>1. /\ reason \in {"Cancelled", "CancelledRandom", "Superseded"}
        /\ call[h].cur = "Active" => client[e] \in {"Active", "Complete", "Superseded"}
        /\ call[h] # None
    BY <1>4, <2>0, CallType DEF Cancel, IInv, PendingInv, CancelReason, Heeded
  <2>2. /\ status' = [[o \in Event |-> IF o \in freed THEN "Scheduled"
                                       ELSE status[o]] EXCEPT ![e] = reason]
        /\ client' = IF call[h].cur = "Active"
                     THEN [client EXCEPT ![e] = reason] ELSE client
        /\ call' = [call EXCEPT ![h] = None]
    BY <1>4, <2>0 DEF Cancel, UpdateEvent
  <2> HIDE DEF freed, reason
  <2>3. \A o \in Event : o # e => client'[o] = client[o]
    BY <1>0, <2>2
  <2>4. \A o \in Event : status'[o] = "Active" => o # e /\ status[o] = "Active"
    BY <1>0, <2>1, <2>2
  <2>5. \A g \in Handle : call'[g] # None =>
          call'[g] = call[g] /\ call[g].event # e
    BY <1>0, <2>0, <2>1, <2>2 DEF CallsApart
  <2>6. Heeded'
    BY <1>0, <2>3, <2>4, <2>5 DEF Heeded
  <2>7. CASE call[h].cur = "Active"
    <3>1. N!Withdraw(e)
      BY <2>1, <2>2, <2>7 DEF N!Withdraw, N!Tell, N!Reason
    <3> QED BY <2>6, <3>1 DEF N!Next
  <2> QED BY <2>2, <2>6, <2>7
<1>5. ASSUME NEW h \in Handle, NEW s \in RandomStart(call[h].event),
             NEW t \in RandomEnd(call[h].event, s), Store(h, s, t)
      PROVE  Kept
  <2>0. PICK e \in Event : e = call[h].event
    BY <1>5, CallType DEF Store, Inserting, IInv
  <2> DEFINE losers == Losers(e, s, t)
             winners == Winners(e, s, t)
             final == IF winners = {} THEN "Scheduled" ELSE "Superseded"
  <2>1. call[h].incoming = "Scheduled"
    BY <1>5, CallType DEF Store, Inserting, IInv, Offered, ArriveScheduled,
                          EventStatusType
  <2>2. /\ status' = [[o \in Event |-> IF o \in losers THEN "Superseded"
                                       ELSE status[o]] EXCEPT ![e] = final]
        /\ client' = [o \in Event |->
             IF o \in losers /\ status[o] = "Active" THEN "Superseded"
             ELSE client[o]]
        /\ call' = [call EXCEPT ![h] = None]
    BY <1>5, <2>0, <2>1 DEF Store, Interrupted
  <2>3. final # "Active"
    OBVIOUS
  <2>4. losers \subseteq Event
    BY DEF Losers, Stored
  <2> HIDE DEF losers, final
  <2>5. \A o \in Event : status'[o] = "Active" =>
          status[o] = "Active" /\ client'[o] = client[o]
    BY <1>0, <2>2, <2>3
  <2>6. \A g \in Handle : call'[g] # None => call'[g] = call[g]
    BY <1>0, <2>2
  <2>7. Heeded'
    BY <1>0, <2>2, <2>5, <2>6 DEF Heeded
  <2>8. N!Displace
    <3>1. {o \in losers : status[o] = "Active"}
            \in SUBSET {o \in Event : client[o] = "Active"}
      BY <2>4 DEF Heeded
    <3> QED BY <2>2, <3>1 DEF N!Displace
  <2> QED BY <2>7, <2>8 DEF N!Next
<1>6. ASSUME NEW h \in Handle, NEW e \in Feed[h], NEW s \in Incoming, Read(h, e, s)
      PROVE  Kept
  <2>1. /\ call' = [call EXCEPT ![h] =
                      [event |-> e, cur |-> status[e], incoming |-> s]]
        /\ UNCHANGED <<status, client>>
    BY <1>6 DEF Read, events, outside
  <2>2. e \in Event
    BY InputAssumption
  <2>3. status[e] = "Active" => client[e] = "Active"
    BY <2>2 DEF Heeded
  <2>4. \A g \in Handle :
          call'[g] = IF g = h THEN [event |-> e, cur |-> status[e], incoming |-> s]
                     ELSE call[g]
    BY <1>0, <2>1
  <2> QED BY <2>1, <2>3, <2>4 DEF Heeded
<1>7. CASE /\ UNCHANGED <<status, client>>
           /\ \A g \in Handle : call'[g] # None => call'[g] = call[g]
  BY <1>7 DEF Heeded
<1>8. ASSUME NEW h \in Handle, RejectWithdrawn(h) \/ RejectExpired(h)
      PROVE  Kept
  <2>1. UNCHANGED <<status, client>> /\ call' = [call EXCEPT ![h] = None]
    BY <1>8 DEF RejectWithdrawn, RejectExpired, events
  <2> QED BY <1>0, <1>7, <2>1
<1>9. CASE \/ Tick \/ Shutdown \/ (\E t \in Task : TaskExit(t))
           \/ \E h \in Handle : \E d \in Drift : UpdateTime(h, d)
           \/ UNCHANGED vars
  BY <1>7, <1>9 DEF Tick, Shutdown, TaskExit, UpdateTime, events, outside, vars
<1> QED BY <1>1, <1>2, <1>3, <1>4, <1>5, <1>6, <1>8, <1>9 DEF Next, Finish

\* What the handler is told of an event is one of the stories that Notices tells:
\* it is asked once, is told of the end of what it runs only, and of nothing
\* after that but a withdrawal; under the same conditions, and where the answer
\* of the client is heeded.
THEOREM HandlerFollows == Proviso /\ OptOutCancels => (Spec => HandlerProtocol)
<1> SUFFICES ASSUME Proviso, OptOutCancels PROVE Spec => HandlerProtocol
  OBVIOUS
<1>1. Init => Heeded /\ N!Init
  BY DEF Init, Heeded, N!Init
<1>2. IInv /\ Offered /\ OnceInv /\ Heeded /\ [Next]_vars
        => Heeded' /\ [N!Next]_client
  <2>1. IInv => CallsApart
    BY DEF IInv, PendingInv, Proviso, FeedsDisjoint, CallsApart
  <2> QED BY <2>1, NextHeeded DEF Proviso
<1> QED BY <1>1, <1>2, OnceInductive, PTL DEF Spec, HandlerProtocol, N!Spec

\* The handler is never called again for an event that the client has opted
\* out of, as the doc of EventCallback promises; under the same conditions.
THEOREM OptOutKept == Proviso /\ OptOutCancels => (Spec => OptOutIsFinal)
<1> SUFFICES ASSUME Proviso, OptOutCancels PROVE Spec => OptOutIsFinal
  OBVIOUS
<1> DEFINE Kept == \A e \in Event : client[e] = "Declined" => client'[e] = "Declined"
<1>1. ASSUME TypeOK, [N!Next]_client PROVE [Kept]_vars
  <2>1. client \in [Event -> EIStatus \cup {"Unaware", "Declined"}]
    BY <1>1 DEF TypeOK
  <2>2. CASE N!Displace
    BY <2>2 DEF N!Displace
  <2>3. ASSUME NEW e \in Event, N!Start(e) \/ N!End(e) \/ N!Withdraw(e) PROVE Kept
    BY <2>1, <2>3 DEF N!Start, N!End, N!Withdraw, N!Tell
  <2> QED BY <1>1, <2>2, <2>3 DEF N!Next
<1>2. FeedsDisjoint
  BY DEF Proviso
<1>3. IInv => TypeOK
  BY DEF IInv
<1> QED BY <1>1, <1>2, <1>3, HandlerFollows, Inductive, PTL
        DEF HandlerProtocol, N!Spec, OptOutIsFinal
=============================================================================
