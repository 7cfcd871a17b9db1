------------------------------ MODULE Schedule ------------------------------
(***************************************************************************)
(* The event schedule of the client: the event map of event.rs and the     *)
(* tasks and calls that share it, as der.rs writes them.  drlc.rs,         *)
(* pricing.rs and messaging.rs follow the same shape; DRLCSchedule,        *)
(* PricingSchedule and MessagingSchedule instantiate this module for them. *)
(*                                                                         *)
(* Three background tasks (start, end, clean) and any number of handles    *)
(* calling add_event share Events behind one RwLock.  What a task or a     *)
(* call does while it holds the write lock is one step here.  add_event    *)
(* first reads the status of the event under the read lock, drops it, and  *)
(* takes the write lock later: the two halves are two steps, and `call`    *)
(* keeps what the first half read.                                         *)
(***************************************************************************)
EXTENDS Integers

CONSTANTS
  Event,          \* mRIDs
  Handle,         \* clones of the Schedule on which add_event is called
  Feed,           \* Feed[h]: the events that the retrievals behind h deliver
  Resource,       \* Resource[e]: what the server says of e, see ResourceType
  SameTarget,     \* pairs of events that compete for the same target
  OptOutCancels,  \* an event the client opts out of is marked as cancelled
  RespondExpired, \* an event that arrives after its end is answered
  Incoming,       \* the current_status values that a retrieval may carry
  Drift,          \* the offsets that a Time resource may give a handle
  ShutdownAt,     \* bound: when the client may shut the schedule down
  Week,           \* time between two prunes
  MaxTime,        \* bound: the clock stops here
  None            \* Option::None

EIStatus == {"Scheduled", "Active", "Cancelled", "Complete",
             "CancelledRandom", "Superseded"}

\* The reason a server gives for withdrawing an event.
CancelReason == {"Cancelled", "CancelledRandom", "Superseded"}

EventStatusType == {"Scheduled", "Active"} \cup CancelReason

ResponseStatus == {"EventReceived", "EventStarted", "EventCompleted",
                   "EventOptOut", "EventCancelled", "EventSuperseded",
                   "EventAbortedServer", "EventAbortedProgram",
                   "EventExpired"}

ToResponse == [Scheduled       |-> "EventReceived",
               Active          |-> "EventStarted",
               Cancelled       |-> "EventCancelled",
               Complete        |-> "EventCompleted",
               CancelledRandom |-> "EventCancelled",
               Superseded      |-> "EventSuperseded"]

\* An add_event between its read and its write: the event, the status found
\* and the status retrieved.
Call == [event : Event, cur : {"Absent", "Scheduled", "Active"},
         incoming : EventStatusType]

IsResource(r) ==
  /\ r.start \in Int /\ r.duration \in Nat
  /\ r.creation \in Int /\ r.primacy \in Int
  /\ r.randDuration \in Int /\ r.randStart \in Int

ASSUME ResourceAssumption == \A e \in Event : IsResource(Resource[e])

ASSUME InputAssumption ==
  /\ Feed \in [Handle -> SUBSET Event]
  /\ Incoming \subseteq EventStatusType
  /\ Drift \subseteq Int
  /\ Week \in Nat /\ MaxTime \in Nat
  /\ OptOutCancels \in BOOLEAN /\ RespondExpired \in BOOLEAN
  /\ ShutdownAt \subseteq Nat

\* None is neither a pair <<time, mRID>> nor the record of a call.
ASSUME NoneAssumption == None \notin Int \X Event /\ None \notin Call

VARIABLES
  now,            \* the system clock
  status,         \* status of the stored EventInstance, "Absent" if none
  start, end,     \* its times after randomisation
  superseded_by,  \* the events it is superseded by
  next_start,     \* cached next event to start, or None
  next_end,       \* cached next event to end, or None
  time_offset,    \* the offset of each handle
  call,           \* the add_event in progress on each handle, or None
  running,        \* background tasks that have not ended
  sd,             \* shutdown has been broadcast
  touched,        \* events with last_updated > last (the previous prune)
  last_prune,     \* when the clean task last pruned
  client,         \* what the handler was last told of each event
  reply,          \* the last response POST attempted for each event
  cancelled       \* history: stored events the server has withdrawn

events == <<status, start, end, superseded_by, next_start, next_end, touched>>
outside == <<client, reply>>
vars == <<now, events, time_offset, call, running, sd, last_prune,
          outside, cancelled>>

Task == {"start", "end", "clean"}
Stored == {e \in Event : status[e] # "Absent"}

\* The types of the variables: what EIStatus, the two cached pointers, the
\* status an add_event has read and the responses may be.
TypeOK ==
  /\ now \in Nat
  /\ status \in [Event -> EIStatus \cup {"Absent"}]
  /\ start \in [Event -> Int]
  /\ end \in [Event -> Int]
  /\ superseded_by \in [Event -> SUBSET Event]
  /\ next_start \in (Int \X Event) \cup {None}
  /\ next_end \in (Int \X Event) \cup {None}
  /\ time_offset \in [Handle -> Int]
  /\ call \in [Handle -> Call \cup {None}]
  /\ running \subseteq Task
  /\ sd \in BOOLEAN
  /\ touched \subseteq Event
  /\ last_prune \in Nat
  /\ client \in [Event -> EIStatus \cup {"Unaware", "Declined"}]
  /\ reply \in [Event -> ResponseStatus \cup {"Nothing"}]
  /\ cancelled \subseteq Event

Init ==
  /\ now = 0
  /\ status = [e \in Event |-> "Absent"]
  /\ start = [e \in Event |-> 0]
  /\ end = [e \in Event |-> 0]
  /\ superseded_by = [e \in Event |-> {}]
  /\ next_start = None
  /\ next_end = None
  /\ time_offset = [h \in Handle |-> 0]
  /\ call = [h \in Handle |-> None]
  /\ running = Task
  /\ sd = FALSE
  /\ touched = {}
  /\ last_prune = 0
  /\ client = [e \in Event |-> "Unaware"]
  /\ reply = [e \in Event |-> "Nothing"]
  /\ cancelled = {}

-----------------------------------------------------------------------------
(* Time.  Every task runs on a clone of the schedule, and Clone gives the  *)
(* clone an offset of its own that starts at zero.                         *)

CloneOffset == 0
TaskTime == now + CloneOffset
HandleTime(h) == now + time_offset[h]

\* The offsets randomize may draw for a bound.
Randomize(bound) == IF bound >= 0 THEN 0 .. bound ELSE bound .. 0

\* new_rand, as written: the start moves by the bound on the duration and
\* the end by the bound on the start.
RandomStart(e) ==
  {Resource[e].start + r : r \in Randomize(Resource[e].randDuration)}
RandomEnd(e, s) ==
  {s + Resource[e].duration + r : r \in Randomize(Resource[e].randStart)}

-----------------------------------------------------------------------------
(* Supersession.  Windows are closed intervals <<first, last>>.            *)

Outranks(a, b) ==
  \/ Resource[a].primacy < Resource[b].primacy
  \/ /\ Resource[a].primacy = Resource[b].primacy
     /\ Resource[a].creation > Resource[b].creation

Overlap(s1, t1, s2, t2) == s1 <= t2 /\ t1 >= s2

\* Does a, placed at s .. t, supersede b, placed at s2 .. t2?
Supersedes(a, s, t, b, s2, t2) ==
  Overlap(s, t, s2, t2) /\ Outranks(a, b) /\ <<a, b>> \in SameTarget

\* Only what is running is superseded.
LosersActive(e, s, t) ==
  {o \in Stored : status[o] = "Active"
                   /\ Supersedes(e, s, t, o, start[o], end[o])}

\* The stored events, whatever their status, that e at s .. t supersedes,
\* and those that supersede it.
Losers(e, s, t) == {o \in Stored : Supersedes(e, s, t, o, start[o], end[o])}
Winners(e, s, t) == {o \in Stored : Supersedes(o, start[o], end[o], e, s, t)}

\* The response for an event that was in status prev when by superseded it.
SupersededReply(e, prev, by) ==
  CASE prev # "Active" -> "EventSuperseded"
    [] prev = "Active" /\ Resource[e].program # Resource[by].program ->
         "EventAbortedProgram"
    [] prev = "Active" /\ Resource[e].program = Resource[by].program
         /\ Resource[e].server # Resource[by].server -> "EventAbortedServer"
    [] OTHER -> "EventSuperseded"

-----------------------------------------------------------------------------
(* The map and its two cached pointers.                                    *)

\* What min_by_key may return over the events with status want: the map is
\* a HashMap, so any of several earliest events.
Nexts(st, key, want) ==
  LET E == {e \in Event : st[e] = want}
  IN  IF E = {} THEN {None}
      ELSE {<<key[e], e>> : e \in {x \in E : \A y \in E : key[x] <= key[y]}}

\* The end pointer is forgotten.
UpdateNextStart(st) ==
  /\ next_start' \in Nexts(st, start, "Scheduled")
  /\ next_end' = next_end

UpdateNexts(st) ==
  /\ next_start' \in Nexts(st, start, "Scheduled")
  /\ next_end' \in Nexts(st, end, "Active")

\* With the comparison reversed, and without the case None.
InsertNextLater(n, counts, k, e) ==
  IF counts /\ (IF n = None THEN TRUE ELSE k > n[1]) THEN <<k, e>> ELSE n
InsertNextSome(n, counts, k, e) ==
  IF counts /\ (IF n = None THEN FALSE ELSE k < n[1]) THEN <<k, e>> ELSE n

\* How insert moves a cached pointer n for a new event e with key k that
\* counts for it if counts.
InsertNext(n, counts, k, e) ==
  IF counts /\ (IF n = None THEN TRUE ELSE k < n[1]) THEN <<k, e>> ELSE n

\* Marks e with s: update_event on a map whose statuses are st.
UpdateEvent(st, e, s) ==
  /\ status' = [st EXCEPT ![e] = s]
  /\ UpdateNexts([st EXCEPT ![e] = s])

\* Without the check of the start, and with it off by one.
FreedLate(e, t) ==
  {o \in Event : status[o] = "Superseded" /\ superseded_by[o] \subseteq {e}}
FreedEarly(e, t) ==
  {o \in Event : /\ status[o] = "Superseded"
                 /\ superseded_by[o] \subseteq {e}
                 /\ start[o] > t + 1}

\* The superseded events that cancel_event reschedules at time t.
Freed(e, t) == {o \in Event : /\ status[o] = "Superseded"
                              /\ superseded_by[o] \subseteq {e}
                              /\ start[o] > t}

-----------------------------------------------------------------------------
(* The background tasks.  A pointer is due when its time is strictly past. *)

Due(n) == IF n = None THEN FALSE ELSE n[1] < TaskTime

\* An opt-out that is taken for an acceptance.
AfterAnswerIgnored(answer) == "Active"

\* What the handler's answer leaves a started event in.
AfterAnswer(answer) ==
  IF answer = "EventOptOut" /\ OptOutCancels THEN "Cancelled" ELSE "Active"

\* The client's handler answers that it follows the event, or opts out.
StartTask ==
  /\ "start" \in running
  /\ Due(next_start)
  /\ LET e == next_start[2]
     IN  /\ \E answer \in {"EventStarted", "EventOptOut"} :
              /\ UpdateEvent(status, e, AfterAnswer(answer))
              /\ client' = [client EXCEPT ![e] =
                   IF answer = "EventOptOut" THEN "Declined" ELSE "Active"]
              /\ reply' = [reply EXCEPT ![e] = answer]
         /\ touched' = touched \cup {e}
  /\ UNCHANGED <<now, start, end, superseded_by, time_offset, call, running,
                 sd, last_prune, cancelled>>

EndTask ==
  /\ "end" \in running
  /\ Due(next_end)
  /\ LET e == next_end[2]
     IN  /\ UpdateEvent(status, e, "Complete")
         /\ client' = [client EXCEPT ![e] = "Complete"]
         /\ reply' = [reply EXCEPT ![e] = ToResponse["Complete"]]
         /\ touched' = touched \cup {e}
  /\ UNCHANGED <<now, start, end, superseded_by, time_offset, call, running,
                 sd, last_prune, cancelled>>

\* retain: what the clean task forgets.
Pruned == {e \in Stored : status[e] \notin {"Active", "Scheduled"}
                          /\ e \notin touched}

\* A prune never comes a week after a cancel that is still waiting for the
\* write lock read its event.
Clean ==
  /\ "clean" \in running
  /\ now > last_prune + Week
  /\ \A h \in Handle : call[h] # None /\ call[h].cur # "Absent"
                         => call[h].event \notin Pruned
  /\ status' = [e \in Event |-> IF e \in Pruned THEN "Absent" ELSE status[e]]
  /\ start' = [e \in Event |-> IF e \in Pruned THEN 0 ELSE start[e]]
  /\ end' = [e \in Event |-> IF e \in Pruned THEN 0 ELSE end[e]]
  /\ superseded_by' = [e \in Event |-> IF e \in Pruned THEN {}
                                       ELSE superseded_by[e]]
  /\ cancelled' = cancelled \ Pruned
  /\ touched' = {}
  /\ last_prune' = now
  /\ UNCHANGED <<now, next_start, next_end, time_offset, call, running, sd,
                 outside>>

Shutdown ==
  /\ now \in ShutdownAt
  /\ ~sd
  /\ sd' = TRUE
  /\ UNCHANGED <<now, events, time_offset, call, running, last_prune, outside,
                 cancelled>>

\* A task sees the broadcast when it next waits in its select!.
TaskExit(t) ==
  /\ sd
  /\ t \in running
  /\ running' = running \ {t}
  /\ UNCHANGED <<now, events, time_offset, call, sd, last_prune, outside,
                 cancelled>>

-----------------------------------------------------------------------------
(* add_event.                                                              *)

\* The server may also withdraw what is superseded here, or supersede what is
\* scheduled here, or it may only withdraw what is active.
WithdrawsSuperseded(cur, incoming) ==
  \/ cur \in {"Active", "Superseded"} /\ incoming \in CancelReason
  \/ cur = "Scheduled" /\ incoming \in {"Cancelled", "CancelledRandom"}
WithdrawsAll(cur, incoming) ==
  cur \in {"Active", "Scheduled"} /\ incoming \in CancelReason
WithdrawsActive(cur, incoming) == cur = "Active" /\ incoming \in CancelReason

\* The arms of add_event's match that end in a cancel; the others only log.
Withdraws(cur, incoming) ==
  \/ cur = "Active" /\ incoming \in CancelReason
  \/ cur = "Scheduled" /\ incoming \in {"Cancelled", "CancelledRandom"}

\* The read lock: e has been retrieved with status s.
Read(h, e, s) ==
  /\ call[h] = None
  /\ status[e] = "Absent" \/ Withdraws(status[e], s)
  /\ call' = [call EXCEPT ![h] =
                [event |-> e, cur |-> status[e], incoming |-> s]]
  /\ UNCHANGED <<now, events, time_offset, running, sd, last_prune, outside,
                 cancelled>>

\* cancel_dercontrol: the event was known when it was read.
Cancel(h) ==
  /\ call[h] # None
  /\ call[h].cur # "Absent"
  /\ LET e == call[h].event
         reason == call[h].incoming
         freed == Freed(e, HandleTime(h))
         st == [o \in Event |-> IF o \in freed THEN "Scheduled" ELSE status[o]]
     IN  /\ UpdateEvent(st, e, reason)
         /\ superseded_by' = [o \in Event |->
              IF status[o] = "Superseded" THEN superseded_by[o] \ {e}
              ELSE superseded_by[o]]
         /\ touched' = touched \cup freed \cup {e}
         /\ cancelled' = cancelled \cup {e}
         /\ client' = IF call[h].cur = "Active"
                      THEN [client EXCEPT ![e] = reason] ELSE client
         /\ reply' = [reply EXCEPT ![e] =
              IF call[h].cur = "Active" THEN ToResponse[reason]
              ELSE "EventCancelled"]
  /\ call' = [call EXCEPT ![h] = None]
  /\ UNCHANGED <<now, start, end, time_offset, running, sd, last_prune>>

\* The event was not known when it was read.
Inserting(h) == call[h] # None /\ call[h].cur = "Absent"

\* It arrives withdrawn: answered, not stored.
RejectWithdrawn(h) ==
  /\ Inserting(h)
  /\ call[h].incoming \in CancelReason
  /\ reply' = [reply EXCEPT ![call[h].event] = ToResponse[call[h].incoming]]
  /\ call' = [call EXCEPT ![h] = None]
  /\ UNCHANGED <<now, events, time_offset, running, sd, last_prune, client,
                 cancelled>>

\* It arrives after its end: not stored.
RejectExpired(h) ==
  /\ Inserting(h)
  /\ call[h].incoming \notin CancelReason
  /\ LET e == call[h].event
     IN  /\ \E s \in RandomStart(e) : \E t \in RandomEnd(e, s) :
              t <= HandleTime(h)
         /\ reply' = [reply EXCEPT ![e] =
              IF RespondExpired THEN "EventExpired" ELSE "EventReceived"]
  /\ call' = [call EXCEPT ![h] = None]
  /\ UNCHANGED <<now, events, time_offset, running, sd, last_prune, client,
                 cancelled>>

\* The last response of the supersession loop for the new event, when w is
\* the winner it meets last: only a lone winner finds it as it arrived.
LoopReply(e, arrives, winners, w) ==
  SupersededReply(e, IF winners = {w} THEN arrives ELSE "Superseded", w)

\* prev_status read after the event has been marked, and not read at all.
InterruptedNone(e, losers, winners, arrives) == {}
InterruptedAll(e, losers, winners, arrives) == losers

\* The events whose handler is called because they were active, or arrived
\* active, and are superseded now.
Interrupted(e, losers, winners, arrives) ==
  {o \in losers : status[o] = "Active"}
    \cup (IF winners # {} /\ arrives = "Active" THEN {e} ELSE {})

\* It is stored at s .. t, after the loop has marked what it supersedes and,
\* when something supersedes it, itself.
Store(h, s, t) ==
  /\ Inserting(h)
  /\ call[h].incoming \notin CancelReason
  /\ t > HandleTime(h)
  /\ LET e == call[h].event
         losers == Losers(e, s, t)
         winners == Winners(e, s, t)
         arrives == call[h].incoming
         final == IF winners = {} THEN arrives ELSE "Superseded"
         st == [o \in Event |-> IF o \in losers THEN "Superseded" ELSE status[o]]
     IN  /\ status' = [st EXCEPT ![e] = final]
         /\ start' = [start EXCEPT ![e] = s]
         /\ end' = [end EXCEPT ![e] = t]
         /\ superseded_by' = [o \in Event |->
              IF o = e THEN winners
              ELSE IF o \in losers THEN superseded_by[o] \cup {e}
              ELSE superseded_by[o]]
         /\ \E n \in Nexts(st, start, "Scheduled") :
              next_start' = InsertNext(n, final = "Scheduled", s, e)
         /\ \E n \in Nexts(st, end, "Active") :
              next_end' = InsertNext(n, final = "Active", t, e)
         /\ touched' = touched \cup losers \cup {e}
         /\ client' = [o \in Event |->
              IF o \in Interrupted(e, losers, winners, arrives)
              THEN "Superseded" ELSE client[o]]
         /\ \E own \in IF winners = {} THEN {"EventReceived"}
                       ELSE {LoopReply(e, arrives, winners, w) : w \in winners} :
              reply' = [o \in Event |->
                IF o = e THEN own
                ELSE IF o \in losers THEN SupersededReply(o, status[o], e)
                ELSE reply[o]]
  /\ call' = [call EXCEPT ![h] = None]
  /\ UNCHANGED <<now, time_offset, running, sd, last_prune, cancelled>>

\* The rest of an add_event that has made its read.
Finish(h) ==
  \/ Cancel(h)
  \/ RejectWithdrawn(h)
  \/ RejectExpired(h)
  \/ /\ Inserting(h)
     /\ \E s \in RandomStart(call[h].event) :
          \E t \in RandomEnd(call[h].event, s) : Store(h, s, t)

\* update_time and add_event both borrow the handle mutably.
UpdateTime(h, d) ==
  /\ call[h] = None
  /\ time_offset' = [time_offset EXCEPT ![h] = d]
  /\ UNCHANGED <<now, events, call, running, sd, last_prune, outside, cancelled>>

Tick ==
  /\ now < MaxTime
  /\ now' = now + 1
  /\ UNCHANGED <<events, time_offset, call, running, sd, last_prune, outside,
                 cancelled>>

Next ==
  \/ Tick
  \/ StartTask
  \/ EndTask
  \/ Clean
  \/ Shutdown
  \/ \E t \in Task : TaskExit(t)
  \/ \E h \in Handle : \E e \in Feed[h] : \E s \in Incoming : Read(h, e, s)
  \/ \E h \in Handle : Finish(h)
  \/ \E h \in Handle : \E d \in Drift : UpdateTime(h, d)

Spec == Init /\ [][Next]_vars

\* Timers fire, the lock is fair, handlers and POSTs return, and the
\* executor runs every task.  Nothing makes a server send anything.
Fairness ==
  /\ WF_vars(Tick)
  /\ WF_vars(StartTask)
  /\ WF_vars(EndTask)
  /\ \A t \in Task : WF_vars(TaskExit(t))
  /\ \A h \in Handle : WF_vars(Finish(h))

FairSpec == Spec /\ Fairness

-----------------------------------------------------------------------------
(* Safety.                                                                 *)

Live(e) == status[e] \in {"Scheduled", "Active"}
Cancelled(e) == status[e] \in {"Cancelled", "CancelledRandom"}

\* Events "maintains next_start and next_end validity": each pointer names an
\* earliest stored event of its status with the time of that event, whatever
\* order the tasks, inserts, cancels and prunes came in.
NextsValid ==
  /\ next_start \in Nexts(status, start, "Scheduled")
  /\ next_end \in Nexts(status, end, "Active")

\* Direct control: of two events that compete for a target at the same time,
\* the one that loses is not left to run, unless the server has withdrawn
\* the one that wins.
NoConflict ==
  \A a, b \in Stored :
    /\ Live(a) /\ Live(b)
    /\ Supersedes(a, start[a], end[a], b, start[b], end[b])
    => a \in cancelled

\* No event starts twice: one whose handler was called is never scheduled
\* again, by un-supersession, by a later copy of it, or after a prune.
NoRestart ==
  \A e \in Event : status[e] = "Scheduled" => client[e] = "Unaware"

\* The client knows what it is running: an active event was announced to its
\* handler, and an event it was told to run is no longer active only if the
\* handler was told so, or the server cancelled it.
ClientInSync ==
  \A e \in Stored :
    /\ status[e] = "Active" => client[e] \in {"Active", "Declined"}
    /\ client[e] = "Active" => status[e] = "Active" \/ e \in cancelled

\* What the server was last told of a stored event is what the schedule
\* believes of it, across every order of starts, ends, cancels and
\* supersessions; a rescheduled event is still superseded for the server.
ServerInSync ==
  LET superseded == {"EventSuperseded", "EventAbortedServer",
                     "EventAbortedProgram"}
  IN  \A e \in Stored :
        /\ status[e] = "Scheduled" => reply[e] \in {"EventReceived"} \cup superseded
        /\ status[e] = "Active" => reply[e] \in {"EventStarted", "EventOptOut"}
        /\ status[e] = "Complete" => reply[e] = "EventCompleted"
        /\ Cancelled(e) => reply[e] \in {"EventCancelled", "EventOptOut"}
        /\ status[e] = "Superseded" => reply[e] \in superseded

\* An event that could still be run, and that the server has not withdrawn.
Held(e) ==
  status[e] = "Superseded" /\ e \notin cancelled /\ start[e] > now

\* What is held after a step is held by something, and by no event that the
\* server has withdrawn, unless that was so when the held one came.
HeldRightly ==
  \A e \in Event : Held(e)' =>
    /\ superseded_by'[e] # {}
    /\ \A o \in superseded_by'[e] \cap cancelled' :
         /\ o \in cancelled
         /\ status[e] # "Absent" => Held(e) /\ o \in superseded_by[e]

\* An event is given back when the last event superseding it is cancelled: one
\* that stays superseded in time is so by an event the server has not
\* withdrawn, whatever order of withdrawals, arrivals and prunes led there,
\* unless that was withdrawn before this one came (see GivenBack).
SupersededHasCause == [][HeldRightly]_vars

\* "The client will no longer receive updates on it" (EventCallback): the
\* handler is not called again for an event the client has opted out of.
OptOutIsFinal ==
  [][\A e \in Event : client[e] = "Declined" => client'[e] = "Declined"]_vars

\* The handler is called in an order it can follow: asked once, told of the
\* end only of what it runs, and of a supersession only if that interrupts it,
\* whichever tasks and calls race for the event.
N == INSTANCE Notices WITH told <- client
HandlerProtocol == N!Spec

(* What the documentation or the comments say and the code does not do.    *)

\* "It has been marked as cancelled by the server.  It will not be started."
CancelledNeverRuns == \A e \in cancelled : ~Live(e)

\* Events are rescheduled "when they are no longer superseded, if their
\* superseding event is cancelled" (Scheduler for DERControl): none waits for an
\* event that the server has withdrawn or that is forgotten.
GivenBack ==
  \A e \in Stored :
    Held(e) => \E o \in superseded_by[e] : o \in Stored \ cancelled

\* The schedule starts events by the Time resource it was last given.
StartsByTimeResource ==
  [][\A e \in Event : client[e] # "Active" /\ client'[e] = "Active"
       => \A h \in Handle : start[e] < HandleTime(h)]_vars

(* Liveness.                                                               *)

\* Every scheduled event is dealt with once its time has come, one per tick,
\* unless the schedule is shut down.
EventuallyStarts ==
  \A e \in Event : status[e] = "Scheduled" ~> status[e] # "Scheduled" \/ sd

\* Every active event ends, unless the schedule is shut down.
EventuallyEnds ==
  \A e \in Event : status[e] = "Active" ~> status[e] # "Active" \/ sd
=============================================================================
