--------------------------- MODULE DeliveryProofs ---------------------------
(***************************************************************************)
(* Theorems about Delivery: every step of the composed client is a step of *)
(* Schedule or leaves it alone, so that what is proved of Schedule holds   *)
(* of it; its type; that calls never overlap, so that its pointers are     *)
(* valid and its events apart; and that a server is misled about what runs *)
(* and what is over only by a POST that does not get through.              *)
(***************************************************************************)
EXTENDS Delivery, HistoryProofs

\* What has been fetched can be given to add_event.
Fetched == work.items \subseteq Event \X {"Scheduled", "Active", "Cancelled"}

\* A server that has heard more than a receipt asked to hear of what becomes
\* of the control.
AskedFor ==
  \A e \in Event : heard[e] \notin {"Nothing", "EventReceived"}
                    => "SpecificResponse" \in Required[e]

NetType ==
  /\ server \in [Event -> ServerStatus]
  /\ work \in [left : Seq(Program), items : SUBSET (Event \X EventStatusType)]
  /\ receipt \in BOOLEAN
  /\ heard \in [Event -> ResponseStatus \cup {"Nothing"}]
  /\ lost \subseteq Event
  /\ over \subseteq Event

\* The steps of DeliveryNext that change nothing but the server and the work.
Talk ==
  \/ \E e \in Event : Publish(e) \/ Activate(e) \/ Withdraw(e)
  \/ TakeList
  \/ \E p \in Program : Fetch(p)
  \/ FetchError

-----------------------------------------------------------------------------
(* What is fetched, and the simulation of Schedule.                        *)

\* What the server lists has a status that add_event knows.
LEMMA ControlListType ==
  ASSUME NEW p, server \in [Event -> ServerStatus]
  PROVE  ControlList(p) \subseteq Event \X {"Scheduled", "Active", "Cancelled"}
  BY DEF ControlList, ServerStatus

\* Steps that talk to the server leave the schedule and the responses alone.
LEMMA TalkSame == Talk => UNCHANGED <<vars, receipt, heard, lost, over>>
  BY DEF Talk, Publish, Activate, Withdraw, Becomes, TakeList, Fetch, FetchError

\* The types of the server and of the work are kept by the steps that change
\* them.
LEMMA TalkType ==
  ASSUME NetType, Talk
  PROVE  NetType' /\ (Fetched => Fetched')
<1>1. UNCHANGED <<receipt, heard, lost, over>>
  BY TalkSame
<1>2. ASSUME NEW e \in Event, Publish(e) \/ Activate(e) \/ Withdraw(e)
      PROVE  NetType' /\ (Fetched => Fetched')
  BY <1>2 DEF Publish, Activate, Withdraw, Becomes, NetType, ServerStatus, Fetched
<1>3. CASE TakeList
  BY <1>3, DeliveryAssumption DEF TakeList, NetType, Fetched
<1>4. ASSUME NEW p \in Program, Fetch(p)
      PROVE  NetType' /\ (Fetched => Fetched')
  <2>1. ControlList(p) \subseteq Event \X {"Scheduled", "Active", "Cancelled"}
    BY ControlListType DEF NetType
  <2>2. ControlList(p) \subseteq Event \X EventStatusType
    BY <2>1 DEF EventStatusType, CancelReason
  <2>3. Tail(work.left) \in Seq(Program)
    BY <1>4 DEF Fetch, Ready, NetType
  <2>4. work' = [left |-> Tail(work.left), items |-> ControlList(p)]
        /\ server' = server
    BY <1>4 DEF Fetch
  <2> QED BY <1>1, <2>1, <2>2, <2>3, <2>4 DEF NetType, Fetched
<1>5. CASE FetchError
  BY <1>5 DEF FetchError, NoWork, NetType, Fetched
<1> QED BY <1>2, <1>3, <1>4, <1>5 DEF Talk

\* add_event on what was fetched is add_event on what a retrieval may bring.
LEMMA AddSimulates ==
  ASSUME Fetched, NEW h \in Handle, Add(h)
  PROVE  [Next]_vars
<1>1. PICK e \in Event, s \in {"Scheduled", "Active", "Cancelled"} :
        AddEvent(h, e, s)
  BY DEF Add, Fetched
<1>2. e \in Feed[h] /\ s \in Incoming
  BY DeliveryAssumption
<1>3. Read(h, e, s) \/ UNCHANGED vars
  BY <1>1 DEF AddEvent
<1> QED BY <1>2, <1>3 DEF Next

\* The steps that answer are steps of the schedule.
LEMMA RespondSimulates ==
  ASSUME NEW h \in Handle, Respond(h)
  PROVE  Finish(h) \/ UNCHANGED vars
  BY DEF Respond, Cancels, Receives, Rejects, Stores, Finish

\* Every step of the composed client is a step of the schedule, or changes
\* nothing of it.
LEMMA Simulation == Fetched /\ [DeliveryNext]_allVars => [Next]_vars
<1> SUFFICES ASSUME Fetched, [DeliveryNext]_allVars PROVE [Next]_vars
  OBVIOUS
<1>1. CASE Talk
  BY <1>1, TalkSame
<1>2. ASSUME NEW h \in Handle, Add(h) PROVE [Next]_vars
  BY <1>2, AddSimulates
<1>3. ASSUME NEW h \in Handle, Respond(h) PROVE [Next]_vars
  BY <1>3, RespondSimulates DEF Next
<1>4. CASE Starts \/ Ends \/ Quiet
  BY <1>4 DEF Starts, Ends, Quiet, Next
<1>5. CASE UNCHANGED allVars
  BY <1>5 DEF allVars
<1> QED BY <1>1, <1>2, <1>3, <1>4, <1>5 DEF DeliveryNext, Talk

-----------------------------------------------------------------------------
(* What the server hears.                                                  *)

\* The responses keep the type of what the server has heard, and it only hears
\* of more than a receipt when it asked to.
LEMMA PostType ==
  ASSUME NetType, AskedFor, receipt' \in BOOLEAN, NEW to \in SUBSET Event,
         NEW r \in [Event -> ResponseStatus \cup {"Nothing"}], Post(to, r)
  PROVE  NetType' /\ AskedFor'
<1> DEFINE sent == {e \in to : Sends(e, r[e])}
<1>1. PICK failed \in SUBSET (sent \cap Losable) :
        /\ heard' = [e \in Event |-> IF e \in sent \ failed THEN r[e] ELSE heard[e]]
        /\ lost' = (lost \ sent) \cup failed
        /\ over' = over \cup {e \in sent \ failed :
                               r[e] \in {"EventCompleted", "EventOptOut"}}
  BY DEF Post
<1>2. server' = server /\ work' = work
  BY DEF Post
<1>3. NetType'
  BY <1>1, <1>2, DeliveryAssumption DEF NetType
<1>4. ASSUME NEW e \in sent, r[e] \notin {"Nothing", "EventReceived"}
      PROVE  "SpecificResponse" \in Required[e]
  BY <1>4 DEF Sends, SendsDER, ResponseStatus
<1>5. AskedFor'
  BY <1>1, <1>4 DEF AskedFor
<1> QED BY <1>3, <1>5

\* What the server believes after the responses it believed before, or one of
\* them says so, or the last POST about it did not get through.
LEMMA PostHeard ==
  ASSUME NetType, AskedFor, NEW to \in SUBSET Event,
         NEW r \in [Event -> ResponseStatus \cup {"Nothing"}], Post(to, r),
         NEW e \in Event, heard'[e] \notin {"Nothing", "EventReceived"}
  PROVE  \/ e \in lost'
         \/ e \in to /\ r[e] = heard'[e]
         \/ e \notin to /\ heard[e] = heard'[e] /\ (e \in lost => e \in lost')
<1> DEFINE sent == {o \in to : Sends(o, r[o])}
<1>1. PICK failed \in SUBSET (sent \cap Losable) :
        /\ heard' = [o \in Event |-> IF o \in sent \ failed THEN r[o] ELSE heard[o]]
        /\ lost' = (lost \ sent) \cup failed
  BY DEF Post
<1>2. CASE e \in sent
  BY <1>1, <1>2
<1>3. CASE e \notin sent /\ e \in to
  <2>1. heard[e] = heard'[e]
    BY <1>1, <1>3
  <2>2. "SpecificResponse" \in Required[e]
    BY <2>1 DEF AskedFor
  <2>3. Sends(e, r[e])
    BY <1>3, <2>2 DEF Sends, SendsDER, ResponseStatus
  <2> QED BY <1>3, <2>3
<1>4. CASE e \notin to
  BY <1>1, <1>4
<1> QED BY <1>2, <1>3, <1>4

NetInv == NetType /\ Fetched /\ AskedFor /\ HeardRunning

\* The invariant of the network survives a step that answers, if it leaves
\* running what it does not answer for, and answers a start only for what runs.
LEMMA PostInv ==
  ASSUME NetInv, receipt' \in BOOLEAN, NEW to \in SUBSET Event,
         NEW r \in [Event -> ResponseStatus \cup {"Nothing"}], Post(to, r),
         \A e \in to : r[e] = "EventStarted" => status'[e] = "Active",
         \A e \in Event : e \notin to /\ status[e] = "Active"
                           => status'[e] = "Active"
  PROVE  NetInv'
<1>1. NetType' /\ AskedFor'
  BY PostType DEF NetInv
<1>2. work' = work
  BY DEF Post
<1>3. ASSUME NEW e \in Event, heard'[e] = "EventStarted"
      PROVE  status'[e] = "Active" \/ e \in lost'
  <2>1. \/ e \in lost'
        \/ e \in to /\ r[e] = heard'[e]
        \/ e \notin to /\ heard[e] = heard'[e] /\ (e \in lost => e \in lost')
    BY <1>3, PostHeard DEF NetInv
  <2> QED BY <1>3, <2>1 DEF NetInv, HeardRunning
<1> QED BY <1>1, <1>2, <1>3 DEF NetInv, Fetched, HeardRunning

\* Steps of the server and of the fetching keep it.
LEMMA TalkInv == NetInv /\ Talk => NetInv'
  BY TalkSame, TalkType DEF NetInv, AskedFor, HeardRunning, vars, events

\* So does the first half of add_event.
LEMMA AddInv ==
  ASSUME NetInv, NEW h \in Handle, Add(h)
  PROVE  NetInv'
<1>1. PICK x \in work.items : AddEvent(h, x[1], x[2])
  BY DEF Add
<1>2. /\ work' = [work EXCEPT !.items = @ \ {<<x[1], x[2]>>}]
      /\ UNCHANGED <<server, receipt, heard, lost, over>>
  BY <1>1 DEF AddEvent
<1>3. NetType' /\ Fetched'
  BY <1>2 DEF NetInv, NetType, Fetched
<1>4. status' = status
  BY <1>1 DEF AddEvent, Read, vars, events
<1> QED BY <1>2, <1>3, <1>4 DEF NetInv, AskedFor, HeardRunning

\* The start task answers what it has done.
LEMMA StartsInv == TypeOK /\ TypeOK' /\ NetInv /\ Starts => NetInv'
<1> SUFFICES ASSUME TypeOK, TypeOK', NetInv, Starts PROVE NetInv'
  OBVIOUS
<1> DEFINE e == next_start[2]
<1>1. e \in Event /\ StartTask /\ Post({e}, reply') /\ receipt' \in BOOLEAN
  BY DueType DEF TypeOK, Starts, StartTask, Unlocked, NetInv, NetType
<1>0. reply' \in [Event -> ResponseStatus \cup {"Nothing"}]
  BY DEF TypeOK
<1>2. PICK answer \in {"EventStarted", "EventOptOut"} :
        /\ status' = [status EXCEPT ![e] = AfterAnswer(answer)]
        /\ reply' = [reply EXCEPT ![e] = answer]
  BY <1>1 DEF StartTask, UpdateEvent
<1> HIDE DEF e
<1>3. reply'[e] = "EventStarted" => status'[e] = "Active"
  BY <1>1, <1>2 DEF TypeOK, AfterAnswer
<1>4. \A o \in Event : o # e => status'[o] = status[o]
  BY <1>2 DEF TypeOK
<1> QED BY <1>0, <1>1, <1>3, <1>4, PostInv

\* The end task reports the end.
LEMMA EndsInv == TypeOK /\ TypeOK' /\ NetInv /\ Ends => NetInv'
<1> SUFFICES ASSUME TypeOK, TypeOK', NetInv, Ends PROVE NetInv'
  OBVIOUS
<1> DEFINE e == next_end[2]
<1>1. e \in Event /\ EndTask /\ Post({e}, reply') /\ receipt' \in BOOLEAN
  BY DueType DEF TypeOK, Ends, EndTask, Unlocked, NetInv, NetType
<1>0. reply' \in [Event -> ResponseStatus \cup {"Nothing"}]
  BY DEF TypeOK
<1>2. /\ status' = [status EXCEPT ![e] = "Complete"]
      /\ reply' = [reply EXCEPT ![e] = ToResponse["Complete"]]
  BY <1>1 DEF EndTask, UpdateEvent
<1> HIDE DEF e
<1>3. reply'[e] # "EventStarted"
  BY <1>1, <1>2 DEF TypeOK, ToResponse
<1>4. \A o \in Event : o # e => status'[o] = status[o]
  BY <1>2 DEF TypeOK
<1> QED BY <1>0, <1>1, <1>3, <1>4, PostInv

\* A cancel is reported, and what it frees was not running.
LEMMA CancelsInv ==
  ASSUME TypeOK, TypeOK', NetInv, NEW h \in Handle, Cancels(h)
  PROVE  NetInv'
<1> DEFINE e == call[h].event
           reason == call[h].incoming
           freed == Freed(e, HandleTime(h))
           st == [o \in Event |-> IF o \in freed THEN "Scheduled" ELSE status[o]]
<1>1. /\ e \in Event /\ reason \in EventStatusType
      /\ Post({e}, reply') /\ receipt' \in BOOLEAN
  BY CallType DEF Cancels, Cancel, Unlocked, NetInv, NetType
<1>0. reply' \in [Event -> ResponseStatus \cup {"Nothing"}]
  BY DEF TypeOK
<1>2. status' = [st EXCEPT ![e] = reason]
  BY DEF Cancels, Cancel, UpdateEvent
<1>3. reply' = [reply EXCEPT ![e] = IF call[h].cur = "Active"
                                    THEN ToResponse[reason] ELSE "EventCancelled"]
  BY DEF Cancels, Cancel
<1>4. \A o \in freed : status[o] = "Superseded"
  BY DEF Freed
<1> HIDE DEF e, reason, freed
<1>5. reply'[e] = "EventStarted" => status'[e] = "Active"
  BY <1>1, <1>2, <1>3
     DEF TypeOK, ToResponse, EventStatusType, CancelReason
<1>6. \A o \in Event : o # e /\ status[o] = "Active" => status'[o] = "Active"
  BY <1>2, <1>4
<1> QED BY <1>0, <1>1, <1>5, <1>6, PostInv

\* A receipt says nothing of a start.
LEMMA ReceivesInv ==
  ASSUME TypeOK, NetInv, NEW h \in Handle, Receives(h)
  PROVE  NetInv'
<1> DEFINE e == call[h].event
           r == [o \in Event |-> "EventReceived"]
<1>1. e \in Event /\ Post({e}, r) /\ receipt' \in BOOLEAN /\ status' = status
  BY CallType DEF Receives, Inserting, vars, events
<1>2. r \in [Event -> ResponseStatus \cup {"Nothing"}]
  BY DEF ResponseStatus
<1>3. \A o \in {e} : r[o] # "EventStarted"
  BY <1>1
<1> HIDE DEF e, r
<1> QED BY <1>1, <1>2, <1>3, PostInv

\* An early return answers that the event is withdrawn or expired.
LEMMA RejectsInv ==
  ASSUME TypeOK, TypeOK', NetInv, NEW h \in Handle, Rejects(h)
  PROVE  NetInv'
<1> DEFINE e == call[h].event
<1>1. e \in Event /\ Post({e}, reply') /\ receipt' \in BOOLEAN
  BY CallType DEF Rejects, RejectWithdrawn, RejectExpired, Inserting, AfterReceipt
<1>0. reply' \in [Event -> ResponseStatus \cup {"Nothing"}]
  BY DEF TypeOK
<1>2. UNCHANGED status
  BY DEF Rejects, RejectWithdrawn, RejectExpired, events
<1>3. reply'[e] # "EventStarted"
  BY <1>1 DEF Rejects, RejectWithdrawn, RejectExpired, TypeOK, ToResponse,
              CancelReason
<1> HIDE DEF e
<1> QED BY <1>0, <1>1, <1>2, <1>3, PostInv

\* The supersession loop answers for everything it stops.
LEMMA StoresInv ==
  ASSUME TypeOK, TypeOK', PendingInv, NetInv, NEW h \in Handle, Stores(h)
  PROVE  NetInv'
<1> DEFINE e == call[h].event
<1>0. PICK s \in RandomStart(e) : \E t \in RandomEnd(e, s) :
        /\ Store(h, s, t)
        /\ Post(Losers(e, s, t) \cup (IF Winners(e, s, t) = {} THEN {} ELSE {e}), reply')
  BY DEF Stores
<1>1. PICK t \in RandomEnd(e, s) :
        /\ Store(h, s, t)
        /\ Post(Losers(e, s, t) \cup (IF Winners(e, s, t) = {} THEN {} ELSE {e}), reply')
  BY <1>0
<1> DEFINE losers == Losers(e, s, t)
           winners == Winners(e, s, t)
           arrives == call[h].incoming
           final == IF winners = {} THEN arrives ELSE "Superseded"
           st == [o \in Event |-> IF o \in losers THEN "Superseded" ELSE status[o]]
<1>2. e \in Event /\ losers \in SUBSET Event
  BY <1>1, CallType DEF Store, Inserting, Losers, Stored
<1>3. status' = [st EXCEPT ![e] = final]
  BY <1>1 DEF Store
<1>4. \E own \in IF winners = {} THEN {"EventReceived"}
                 ELSE {LoopReply(e, arrives, winners, w) : w \in winners} :
        reply' = [o \in Event |->
                   IF o = e THEN own
                   ELSE IF o \in losers THEN SupersededReply(o, status[o], e)
                   ELSE reply[o]]
  BY <1>1 DEF Store
<1>5. \A o, prev, by : SupersededReply(o, prev, by) # "EventStarted"
  BY DEF SupersededReply
<1>6. \A w : LoopReply(e, arrives, winners, w) # "EventStarted"
  BY <1>5 DEF LoopReply
<1> DEFINE to == losers \cup (IF winners = {} THEN {} ELSE {e})
<1>9. /\ Post(to, reply') /\ to \subseteq {e} \cup losers /\ losers \subseteq to
      /\ e \notin to => winners = {}
      /\ receipt' \in BOOLEAN /\ status[e] = "Absent"
  BY <1>1 DEF Stores, AfterReceipt, Store, Inserting, PendingInv
<1>10. reply' \in [Event -> ResponseStatus \cup {"Nothing"}]
  BY DEF TypeOK
<1> HIDE DEF e, losers, winners, arrives, final, to
<1>7. \A o \in to : reply'[o] # "EventStarted"
  BY <1>2, <1>4, <1>5, <1>6, <1>9
<1>8. \A o \in Event : o \notin to /\ status[o] = "Active" => status'[o] = "Active"
  BY <1>2, <1>3, <1>9
<1> QED BY <1>2, <1>7, <1>8, <1>9, <1>10, PostInv

\* The clock and the prune answer nothing and stop nothing.
LEMMA QuietInv == NetInv /\ Quiet => NetInv'
<1> SUFFICES ASSUME NetInv, Quiet PROVE NetInv'
  OBVIOUS
<1>1. UNCHANGED net
  BY DEF Quiet
<1>2. \A e \in Event : status[e] = "Active" => status'[e] = "Active"
  BY DEF Quiet, Tick, Clean, Pruned, events
<1> QED BY <1>1, <1>2 DEF NetInv, NetType, Fetched, AskedFor, HeardRunning, net

\* Every step keeps the invariant of the network.
LEMMA NextNet ==
  ASSUME TypeOK, PendingInv, NetInv, [DeliveryNext]_allVars
  PROVE  TypeOK' /\ NetInv'
<1>1. TypeOK'
  BY Simulation, NextType DEF NetInv
<1>2. CASE Talk
  BY <1>2, TalkInv, <1>1
<1>3. ASSUME NEW h \in Handle, Add(h) \/ Respond(h) PROVE NetInv'
  BY <1>1, <1>3, AddInv, CancelsInv, ReceivesInv, RejectsInv, StoresInv DEF Respond
<1>4. CASE Starts
  BY <1>1, <1>4, StartsInv
<1>5. CASE Ends
  BY <1>1, <1>5, EndsInv
<1>6. CASE Quiet
  BY <1>1, <1>6, QuietInv
<1>7. CASE UNCHANGED allVars
  BY <1>1, <1>7 DEF allVars, net, vars, events, NetInv, NetType, Fetched, AskedFor,
              HeardRunning
<1> QED BY <1>1, <1>2, <1>3, <1>4, <1>5, <1>6, <1>7 DEF DeliveryNext, Talk

\* It holds at first.
LEMMA InitNet == DeliveryInit => TypeOK /\ NetInv
<1> SUFFICES ASSUME DeliveryInit PROVE TypeOK /\ NetInv
  OBVIOUS
<1>1. TypeOK
  BY InitType DEF DeliveryInit
<1>2. NetType
  <2>1. <<>> \in Seq(Program) /\ {} \in SUBSET (Event \X EventStatusType)
    OBVIOUS
  <2>2. work \in [left : Seq(Program), items : SUBSET (Event \X EventStatusType)]
    BY <2>1 DEF DeliveryInit, NoWork
  <2>3. server \in [Event -> ServerStatus]
    BY DEF DeliveryInit, ServerStatus
  <2> QED BY <2>2, <2>3 DEF DeliveryInit, NetType
<1>3. Fetched /\ AskedFor /\ HeardRunning
  BY DEF DeliveryInit, Fetched, AskedFor, HeardRunning, NoWork
<1> QED BY <1>1, <1>2, <1>3 DEF NetInv

-----------------------------------------------------------------------------
(* One call at a time, with what the server published.                     *)

\* e is on its way to the schedule, or in add_event, with status s.
Carried(e, s) ==
  \/ <<e, s>> \in work.items
  \/ \E h \in Handle : /\ call[h] # None
                       /\ call[h].event = e
                       /\ call[h].incoming = s

\* add_event is awaited before the next control is taken.
Serial == \A g, h \in Handle : call[g] # None /\ call[h] # None => g = h

\* No list names a control twice, and one in add_event has left the list.
Once ==
  /\ \A x, y \in work.items : x[1] = y[1] => x = y
  /\ \A h \in Handle : call[h] # None
                        => \A x \in work.items : x[1] # call[h].event

\* What is carried is what the server says, or said when it was fetched.
Published ==
  /\ \A e \in Event : server[e] = "Active" => Resource[e].start <= now
  /\ \A e \in Event : \A s \in EventStatusType : Carried(e, s) =>
       /\ s \in {"Scheduled", "Active", "Cancelled"}
       /\ s = "Cancelled" => server[e] = "Cancelled"
       /\ s = "Active" => Resource[e].start <= now

\* The client never learns of the clock of the server.
OnClock == \A h \in Handle : time_offset[h] = 0

QueueInv == Serial /\ Once /\ Published /\ OnClock

\* The server has withdrawn e, and nothing older about it is on its way.
Withdrawn(e) ==
  /\ server[e] = "Cancelled"
  /\ \A s \in EventStatusType : Carried(e, s) => s = "Cancelled"

\* A step that fetches nothing and begins no call.
LEMMA QueueSame ==
  ASSUME TypeOK, QueueInv, work'.items \subseteq work.items,
         \A h \in Handle : call'[h] # None => call'[h] = call[h],
         server' = server, now' \in {now, now + 1},
         time_offset' = time_offset
  PROVE  QueueInv' /\ \A e \in Event : Withdrawn(e) => Withdrawn(e)'
<1>1. \A e, s : Carried(e, s)' => Carried(e, s)
  BY DEF Carried
<1>2. Serial' /\ Once' /\ OnClock'
  BY DEF QueueInv, Serial, Once, OnClock
<1>3. ASSUME NEW e \in Event, Resource[e].start <= now
      PROVE  Resource[e].start <= now'
  BY <1>3, ResourceAssumption DEF IsResource, TypeOK
<1>4. Published'
  BY <1>1, <1>3 DEF QueueInv, Published
<1> QED BY <1>1, <1>2, <1>4 DEF QueueInv, Withdrawn

\* The server never takes a withdrawal back.
LEMMA ServerQueue ==
  ASSUME TypeOK, NetType, QueueInv, NEW e \in Event,
         Publish(e) \/ Activate(e) \/ Withdraw(e)
  PROVE  QueueInv' /\ \A o \in Event : Withdrawn(o) => Withdrawn(o)'
<1>1. UNCHANGED <<vars, work>>
  BY DEF Publish, Activate, Withdraw, Becomes
<1>2. UNCHANGED <<call, now, time_offset, work>>
  BY <1>1 DEF vars
<1>3. /\ \A o \in Event : o # e => server'[o] = server[o]
      /\ server[e] # "Cancelled"
      /\ server'[e] = "Active" => Resource[e].start <= now
  <2>1. CASE Publish(e)
    BY <2>1 DEF Publish, Becomes, NetType
  <2>2. CASE Activate(e)
    <3>1. now >= Resource[e].start
      BY <2>2 DEF Activate
    <3>2. Resource[e].start <= now
      BY <3>1, ResourceAssumption DEF IsResource, TypeOK
    <3> QED BY <2>2, <3>2 DEF Activate, Becomes, NetType
  <2>3. CASE Withdraw(e)
    BY <2>3 DEF Withdraw, Becomes, NetType
  <2> QED BY <2>1, <2>2, <2>3
<1>4. \A o, s : Carried(o, s)' <=> Carried(o, s)
  BY <1>2 DEF Carried
<1>5. Serial' /\ Once' /\ OnClock'
  BY <1>2 DEF QueueInv, Serial, Once, OnClock
<1>6. Published'
  BY <1>2, <1>3, <1>4 DEF QueueInv, Published
<1>7. \A o \in Event : Withdrawn(o) => Withdrawn(o)'
  BY <1>3, <1>4 DEF Withdrawn
<1> QED BY <1>5, <1>6, <1>7 DEF QueueInv

\* What a GET brings is what the server says, each control once.
LEMMA FetchQueue ==
  ASSUME TypeOK, NetType, QueueInv, NEW p \in Program, Fetch(p)
  PROVE  QueueInv' /\ \A e \in Event : Withdrawn(e) => Withdrawn(e)'
<1>1. /\ UNCHANGED <<call, now, time_offset, server>>
      /\ \A h \in Handle : call[h] = None
      /\ work'.items = ControlList(p)
  BY DEF Fetch, Ready, Idle, vars
<1>2. \A x \in ControlList(p) :
        x[1] \in Event /\ x = <<x[1], server[x[1]]>> /\ server[x[1]] # "Unlisted"
  BY DEF ControlList
<1>3. \A e, s : Carried(e, s)' => s = server[e] /\ server[e] # "Unlisted"
  BY <1>1, <1>2 DEF Carried
<1>4. Serial' /\ Once' /\ OnClock'
  BY <1>1, <1>2 DEF QueueInv, Serial, Once, OnClock
<1>5. Published'
  BY <1>1, <1>3 DEF QueueInv, Published, NetType, ServerStatus
<1>6. \A e \in Event : Withdrawn(e) => Withdrawn(e)'
  BY <1>1, <1>3 DEF Withdrawn
<1> QED BY <1>4, <1>5, <1>6 DEF QueueInv

\* A control moves from the list to the call, or is done with.
LEMMA AddQueue ==
  ASSUME TypeOK, NetType, QueueInv, NEW h \in Handle, Add(h)
  PROVE  QueueInv' /\ \A e \in Event : Withdrawn(e) => Withdrawn(e)'
<1>1. PICK x \in work.items : AddEvent(h, x[1], x[2])
  BY DEF Add
<1>2. /\ work' = [work EXCEPT !.items = @ \ {<<x[1], x[2]>>}]
      /\ UNCHANGED <<server, now, time_offset>>
      /\ \A g \in Handle : call[g] = None
  BY <1>1 DEF AddEvent, Idle, Read, vars
<1>3. work'.items = work.items \ {x} /\ x = <<x[1], x[2]>>
  BY <1>2 DEF NetType
<1>4. CASE UNCHANGED call
  BY <1>2, <1>3, <1>4, QueueSame
<1>5. CASE Read(h, x[1], x[2])
  <2>1. call' = [call EXCEPT ![h] = [event |-> x[1], cur |-> status[x[1]],
                                     incoming |-> x[2]]]
    BY <1>5 DEF Read
  <2>2. /\ call'[h] = [event |-> x[1], cur |-> status[x[1]], incoming |-> x[2]]
        /\ \A g \in Handle : g # h => call'[g] = None
    BY <1>2, <2>1 DEF TypeOK
  <2>3. ASSUME NEW e, NEW s, Carried(e, s)'
        PROVE  Carried(e, s)
    <3>1. <<e, s>> \in work'.items \/ (e = x[1] /\ s = x[2])
      BY <2>2, <2>3 DEF Carried
    <3> QED BY <1>3, <3>1 DEF Carried
  <2>4. Serial' /\ OnClock'
    BY <1>2, <2>2 DEF QueueInv, Serial, OnClock
  <2>5. Once'
    BY <1>3, <2>2 DEF QueueInv, Once
  <2>6. Published'
    BY <1>2, <2>3 DEF QueueInv, Published
  <2>7. \A e \in Event : Withdrawn(e) => Withdrawn(e)'
    BY <1>2, <2>3 DEF Withdrawn
  <2> QED BY <2>4, <2>5, <2>6, <2>7 DEF QueueInv
<1> QED BY <1>1, <1>4, <1>5 DEF AddEvent, vars

\* Every step keeps the queue in order, and what is withdrawn withdrawn.
LEMMA NextQueue ==
  ASSUME TypeOK, NetType, QueueInv, [DeliveryNext]_allVars
  PROVE  QueueInv' /\ \A e \in Event : Withdrawn(e) => Withdrawn(e)'
<1>1. CASE \/ Starts \/ Ends \/ Quiet \/ UNCHANGED allVars
  <2>1. UNCHANGED <<call, server, work, time_offset>> /\ now' \in {now, now + 1}
    BY <1>1 DEF Starts, Ends, Quiet, StartTask, EndTask, Tick, Clean, Post, net,
                allVars, vars
  <2> QED BY <2>1, QueueSame
<1>2. ASSUME NEW h \in Handle, Respond(h)
      PROVE  QueueInv' /\ \A e \in Event : Withdrawn(e) => Withdrawn(e)'
  <2>1. /\ call' = [call EXCEPT ![h] = None] \/ call' = call
        /\ UNCHANGED <<server, work, now, time_offset>>
    BY <1>2 DEF Respond, Cancels, Receives, Rejects, Stores, Cancel,
                RejectWithdrawn, RejectExpired, Store, Post, vars
  <2>2. \A g \in Handle : call'[g] # None => call'[g] = call[g]
    BY <2>1 DEF TypeOK
  <2> QED BY <2>1, <2>2, QueueSame
<1>3. CASE TakeList \/ FetchError
  <2>1. UNCHANGED <<call, server, time_offset, now>> /\ work'.items = {}
    BY <1>3 DEF TakeList, FetchError, NoWork, vars
  <2> QED BY <2>1, QueueSame
<1> QED BY <1>1, <1>2, <1>3, ServerQueue, FetchQueue, AddQueue DEF DeliveryNext

\* What a call holds when it is withdrawn was withdrawn, and is alone.
LEMMA AnsweredWithdrawn ==
  ASSUME TypeOK, QueueInv, NEW h \in Handle, call[h] # None,
         NEW e, e = call[h].event, call[h].incoming \in CancelReason,
         call' = [call EXCEPT ![h] = None], UNCHANGED <<server, work>>
  PROVE  Withdrawn(e)'
<1>1. e \in Event /\ call[h].incoming \in EventStatusType
  BY CallType
<1>2. Carried(e, call[h].incoming)
  BY DEF Carried
<1>3. server[e] = "Cancelled"
  BY <1>1, <1>2 DEF QueueInv, Published, CancelReason
<1>4. \A g \in Handle : call'[g] = None
  BY DEF QueueInv, Serial, TypeOK
<1>5. \A x \in work.items : x[1] # e
  BY DEF QueueInv, Once
<1> QED BY <1>3, <1>4, <1>5 DEF Withdrawn, Carried

-----------------------------------------------------------------------------
(* The invariant of the composition.                                       *)

CompositionInv == IInv /\ NetInv /\ QueueInv

\* Calls that never overlap are apart, whatever the handles are given.
LEMMA NextComposition ==
  CompositionInv /\ [DeliveryNext]_allVars => CompositionInv'
<1> SUFFICES ASSUME CompositionInv, [DeliveryNext]_allVars PROVE CompositionInv'
  OBVIOUS
<1>1. TypeOK /\ PendingInv /\ NetType /\ Fetched
  BY DEF CompositionInv, IInv, NetInv
<1>2. CallsApart
  BY DEF CompositionInv, QueueInv, Serial, CallsApart
<1>3. IInv'
  BY <1>1, <1>2, Simulation, NextInv DEF CompositionInv
<1>4. NetInv'
  BY <1>1, NextNet DEF CompositionInv
<1>5. QueueInv'
  BY <1>1, NextQueue DEF CompositionInv
<1> QED BY <1>3, <1>4, <1>5 DEF CompositionInv

\* It holds at first.
LEMMA InitComposition == DeliveryInit => CompositionInv
<1> SUFFICES ASSUME DeliveryInit PROVE CompositionInv
  OBVIOUS
<1>1. IInv /\ NetInv
  BY InitInv, InitNet DEF DeliveryInit
<1>2. QueueInv
  BY DEF DeliveryInit, Init, NoWork, QueueInv, Serial, Once, Published, Carried,
         OnClock
<1> QED BY <1>1, <1>2 DEF CompositionInv

\* The inductive invariant of the composition.
LEMMA NetInductive == DeliverySpec => []CompositionInv
  BY InitComposition, NextComposition, PTL DEF DeliverySpec

-----------------------------------------------------------------------------
(* What is over stays over.                                                *)

\* However the window of a control is drawn, it does not end before it starts.
Forward == \A e \in Event : \A s \in RandomStart(e) : \A t \in RandomEnd(e, s) :
             s <= t

\* However it is drawn again, the window of e has ended.
Spent(e) ==
  \A s \in RandomStart(e) : \A t \in RandomEnd(e, s) : t <= now

\* e has started, before the last prune if it was left alone since, and does not
\* wait to start.
HasBegun(e) ==
  /\ status[e] # "Scheduled"
  /\ start[e] < now
  /\ e \in touched \/ start[e] < last_prune

\* No stored window ends before it starts.
Ordered == \A e \in Event : status[e] # "Absent" => start[e] <= end[e]

\* What the server knows to be over was its to know, has begun, and is only
\* forgotten when no window that is drawn for it again can still be open.
Past ==
  \A e \in over :
    /\ "SpecificResponse" \in Required[e]
    /\ IF status[e] = "Absent" THEN Spent(e) ELSE HasBegun(e)

OverInv == Placed /\ Ordered /\ Past /\ OverIsOver

\* A start that may be drawn is an integer.
LEMMA StartType ==
  ASSUME NEW e \in Event
  PROVE  RandomStart(e) \subseteq Int
<1>1. \A b \in Int : Randomize(b) \subseteq Int
  BY DEF Randomize
<1>2. Resource[e].start \in Int /\ Resource[e].randDuration \in Int
  BY ResourceAssumption DEF IsResource
<1> QED BY <1>1, <1>2 DEF RandomStart

\* What is POSTed about what is over neither restarts it nor leaves it received,
\* and what is over from now on has been said to be.
LEMMA PostOver ==
  ASSUME OverInv, NEW to \in SUBSET Event,
         NEW r \in [Event -> ResponseStatus \cup {"Nothing"}], Post(to, r),
         NetType, NEW e \in over',
         e \in over /\ e \in to =>
           r[e] # "EventStarted" /\ (r[e] = "EventReceived" => Between(e)'),
         e \notin to /\ Between(e) => Between(e)'
  PROVE  /\ e \in Event /\ "SpecificResponse" \in Required[e]
         /\ heard'[e] # "EventStarted"
         /\ heard'[e] = "EventReceived" => e \in lost' \/ Between(e)'
         /\ e \notin over => e \in to /\ r[e] \in {"EventCompleted", "EventOptOut"}
<1> DEFINE sent == {o \in to : Sends(o, r[o])}
<1>1. PICK failed \in SUBSET (sent \cap Losable) :
        /\ heard' = [o \in Event |-> IF o \in sent \ failed THEN r[o] ELSE heard[o]]
        /\ lost' = (lost \ sent) \cup failed
        /\ over' = over \cup {o \in sent \ failed :
                               r[o] \in {"EventCompleted", "EventOptOut"}}
  BY DEF Post
<1>2. e \in Event
  BY <1>1 DEF NetType
<1>3. CASE e \notin over
  <2>1. e \in sent \ failed /\ r[e] \in {"EventCompleted", "EventOptOut"}
    BY <1>1, <1>3
  <2>2. "SpecificResponse" \in Required[e]
    BY <2>1 DEF Sends, SendsDER
  <2>3. heard'[e] = r[e]
    BY <1>1, <1>2, <2>1
  <2> QED BY <1>2, <2>1, <2>2, <2>3
<1>4. CASE e \in over
  <2>1. /\ "SpecificResponse" \in Required[e] /\ heard[e] # "EventStarted"
        /\ heard[e] = "EventReceived" => e \in lost \/ Between(e)
    BY <1>4 DEF OverInv, Past, OverIsOver
  <2>2. e \in to => e \in sent
    BY <1>2, <2>1 DEF Sends, SendsDER, ResponseStatus
  <2>3. CASE e \in sent \ failed
    BY <1>1, <1>2, <1>4, <2>1, <2>3
  <2>4. CASE e \in failed
    BY <1>1, <1>2, <1>4, <2>1, <2>4
  <2>5. CASE e \notin sent
    BY <1>1, <1>2, <1>4, <2>1, <2>2, <2>5
  <2> QED BY <1>4, <2>3, <2>4, <2>5
<1> QED BY <1>3, <1>4

\* The state of the schedule keeps it, if what the server knew to be over stays
\* so and what it learns is over has begun.
LEMMA StillPast ==
  ASSUME TypeOK, OverInv, now' \in {now, now + 1}, last_prune' = last_prune,
         touched \subseteq touched', NEW e \in over, e \in Event,
         status[e] # "Absent" => status'[e] \notin {"Absent", "Scheduled"},
         status[e] = "Absent" => status'[e] = "Absent",
         status[e] # "Absent" => start'[e] = start[e]
  PROVE  IF status'[e] = "Absent" THEN Spent(e)' ELSE HasBegun(e)'
<1>1. now \in Nat /\ start[e] \in Int
  BY DEF TypeOK
<1>2. CASE status[e] = "Absent"
  <2>1. Spent(e)
    BY <1>2 DEF OverInv, Past
  <2>2. Spent(e)'
    BY <1>1, <2>1, RandomType DEF Spent
  <2> QED BY <1>2, <2>2
<1>3. CASE status[e] # "Absent"
  <2>1. HasBegun(e)
    BY <1>3 DEF OverInv, Past
  <2>2. start[e] < now'
    BY <1>1, <2>1 DEF HasBegun
  <2> QED BY <1>3, <2>1, <2>2 DEF HasBegun
<1> QED BY <1>2, <1>3

\* Steps that touch no control and tell the server nothing keep it.
LEMMA StillOver ==
  ASSUME TypeOK, NetType, OverInv, now' \in {now, now + 1},
         UNCHANGED <<status, start, end, touched, last_prune>>,
         UNCHANGED <<heard, lost, over>>,
         \A e \in Event : Between(e) => Between(e)'
  PROVE  OverInv'
<1>1. over \subseteq Event
  BY DEF NetType
<1>2. Placed' /\ Ordered'
  BY DEF OverInv, Placed, Ordered
<1>3. ASSUME NEW e \in over
      PROVE  IF status'[e] = "Absent" THEN Spent(e)' ELSE HasBegun(e)'
  <2>1. status[e] # "Absent" => status[e] # "Scheduled"
    BY DEF OverInv, Past, HasBegun
  <2> QED BY <1>1, <2>1, StillPast
<1>4. Past'
  BY <1>3 DEF OverInv, Past
<1>5. OverIsOver'
  BY <1>1 DEF OverInv, OverIsOver
<1> QED BY <1>2, <1>4, <1>5 DEF OverInv

\* A step of a task tells the server of what it does, when what it leaves of
\* the control that it is about has begun.
LEMMA TaskOver ==
  ASSUME TypeOK, TypeOK', NetType, OverInv, Unlocked, NEW e \in Event,
         Post({e}, reply'),
         e \in over => reply'[e] \notin {"EventStarted", "EventReceived"},
         \A o \in Event : o # e => status'[o] = status[o],
         status[e] # "Absent", status'[e] \notin {"Absent", "Scheduled"},
         e \in over \/ reply'[e] \in {"EventCompleted", "EventOptOut"} =>
           start[e] < now,
         touched' = touched \cup {e},
         UNCHANGED <<now, start, end, last_prune>>
  PROVE  OverInv'
<1>0. reply' \in [Event -> ResponseStatus \cup {"Nothing"}]
  BY DEF TypeOK
<1>1. Placed' /\ Ordered'
  BY DEF OverInv, Placed, Ordered
<1>2. ASSUME NEW o \in over'
      PROVE  /\ o \in Event /\ "SpecificResponse" \in Required[o]
             /\ heard'[o] # "EventStarted"
             /\ heard'[o] = "EventReceived" => o \in lost' \/ Between(o)'
             /\ o \notin over =>
                  o = e /\ reply'[o] \in {"EventCompleted", "EventOptOut"}
  <2>1. ~Between(o)
    BY DEF Between, Unlocked
  <2>2. o \in over /\ o \in {e} => reply'[o] # "EventStarted"
                                  /\ reply'[o] # "EventReceived"
    OBVIOUS
  <2> QED BY <1>0, <2>1, <2>2, PostOver
<1>3. ASSUME NEW o \in over'
      PROVE  IF status'[o] = "Absent" THEN Spent(o)' ELSE HasBegun(o)'
  <2>1. CASE o = e
    <3>1. e \in over \/ reply'[e] \in {"EventCompleted", "EventOptOut"}
      BY <1>2, <2>1
    <3> QED BY <2>1, <3>1 DEF HasBegun
  <2>2. CASE o # e
    <3>1. o \in over /\ o \in Event
      BY <1>2, <2>2
    <3>2. status[o] # "Absent" => status[o] # "Scheduled"
      BY <3>1 DEF OverInv, Past, HasBegun
    <3> QED BY <2>2, <3>1, <3>2, StillPast
  <2> QED BY <2>1, <2>2
<1>4. Past'
  BY <1>2, <1>3 DEF Past
<1>5. OverIsOver'
  BY <1>2 DEF OverIsOver
<1> QED BY <1>1, <1>4, <1>5 DEF OverInv

\* What waits to start is not over, and what is opted out of has started.
LEMMA StartsOver ==
  ASSUME IInv, IInv', NetType, OverInv, Starts
  PROVE  OverInv'
<1>1. PICK e \in Event : e = next_start[2] /\ status[e] = "Scheduled"
  BY DueStored DEF IInv, Starts, StartTask
<1>2. start[e] < now
  <2>1. next_start # None /\ next_start[1] < now
    BY DEF Starts, StartTask, Due, TaskTime, CloneOffset, IInv, TypeOK
  <2> QED BY <1>1, <2>1, NextsEvent DEF IInv, NextsValid, TypeOK
<1>3. PICK answer \in {"EventStarted", "EventOptOut"} :
        status' = [status EXCEPT ![e] = AfterAnswer(answer)]
  BY <1>1 DEF Starts, StartTask, UpdateEvent
<1>4. /\ touched' = touched \cup {e}
      /\ UNCHANGED <<now, start, end, last_prune>>
      /\ Unlocked /\ Post({e}, reply')
  BY <1>1 DEF Starts, StartTask
<1>5. status \in [Event -> EIStatus \cup {"Absent"}] /\ TypeOK /\ TypeOK'
  BY DEF IInv, TypeOK
<1>6. \A o \in Event : o # e => status'[o] = status[o]
  BY <1>3, <1>5
<1>7. status'[e] \in {"Active", "Cancelled"}
  BY <1>3, <1>5 DEF AfterAnswer
<1>8. e \notin over
  BY <1>1 DEF OverInv, Past, HasBegun
<1> QED BY <1>1, <1>2, <1>4, <1>5, <1>6, <1>7, <1>8, TaskOver

\* What has ended has started.
LEMMA EndsOver ==
  ASSUME IInv, IInv', NetType, OverInv, Ends
  PROVE  OverInv'
<1>1. PICK e \in Event : e = next_end[2] /\ status[e] = "Active"
  BY DueStored DEF IInv, Ends, EndTask
<1>2. end[e] < now
  <2>1. next_end # None /\ next_end[1] < now
    BY DEF Ends, EndTask, Due, TaskTime, CloneOffset, IInv, TypeOK
  <2> QED BY <1>1, <2>1, NextsEvent DEF IInv, NextsValid, TypeOK
<1>3. /\ status' = [status EXCEPT ![e] = "Complete"]
      /\ reply' = [reply EXCEPT ![e] = ToResponse["Complete"]]
      /\ touched' = touched \cup {e}
      /\ UNCHANGED <<now, start, end, last_prune>>
      /\ Unlocked /\ Post({e}, reply')
  BY <1>1 DEF Ends, EndTask, UpdateEvent
<1>4. /\ status \in [Event -> EIStatus \cup {"Absent"}]
      /\ reply \in [Event -> ResponseStatus \cup {"Nothing"}]
      /\ start[e] \in Int /\ end[e] \in Int /\ now \in Nat /\ TypeOK /\ TypeOK'
  BY DEF IInv, TypeOK
<1>5. \A o \in Event : o # e => status'[o] = status[o]
  BY <1>3, <1>4
<1>6. status'[e] = "Complete" /\ reply'[e] = "EventCompleted"
  BY <1>3, <1>4 DEF ToResponse
<1>7. start[e] < now
  <2>1. start[e] <= end[e]
    BY <1>1 DEF OverInv, Ordered
  <2> QED BY <1>2, <1>4, <2>1
<1> QED BY <1>1, <1>3, <1>4, <1>5, <1>6, <1>7, TaskOver

\* What is forgotten has been left alone for a week, and its window is over.
LEMMA CleanOver ==
  ASSUME FitsWeek, TypeOK, NetType, OverInv, Clean, ~receipt, UNCHANGED net
  PROVE  OverInv'
<1>1. \A o \in Event :
        IF o \in Pruned THEN status'[o] = "Absent"
        ELSE status'[o] = status[o] /\ start'[o] = start[o] /\ end'[o] = end[o]
  BY DEF Clean
<1>2. now > last_prune + Week /\ last_prune' = now /\ now' = now
  BY DEF Clean
<1>3. now \in Nat /\ last_prune \in Nat /\ Week \in Nat
  BY InputAssumption DEF TypeOK
<1>4. Placed' /\ Ordered'
  BY <1>1 DEF OverInv, Placed, Ordered
<1>5. over' = over /\ heard' = heard /\ lost' = lost /\ over \subseteq Event
  BY DEF net, NetType
<1>6. ASSUME NEW e \in over
      PROVE  IF status'[e] = "Absent" THEN Spent(e)' ELSE HasBegun(e)'
  <2>0. /\ e \in Event
        /\ IF status[e] = "Absent" THEN Spent(e) ELSE HasBegun(e)
    BY <1>5 DEF OverInv, Past
  <2>1. CASE e \in Pruned
    <3>1. start[e] \in RandomStart(e) /\ start[e] < last_prune
      BY <2>0, <2>1 DEF Pruned, Stored, HasBegun, OverInv, Placed
    <3>2. ASSUME NEW s \in RandomStart(e), NEW t \in RandomEnd(e, s)
          PROVE  t <= now
      <4>1. t <= start[e] + (Week + 2)
        BY <2>0, <3>1, <3>2 DEF FitsWeek, LastsAtMost
      <4>2. start[e] \in Int /\ t \in Int
        BY <2>0, <3>1, <3>2, StartType, RandomType
      <4> QED BY <1>2, <1>3, <3>1, <4>1, <4>2
    <3> QED BY <1>1, <1>2, <2>0, <2>1, <3>2 DEF Spent
  <2>2. CASE e \notin Pruned /\ status[e] = "Absent"
    BY <1>1, <1>2, <2>0, <2>2 DEF Spent
  <2>3. CASE e \notin Pruned /\ status[e] # "Absent"
    BY <1>1, <1>2, <2>0, <2>3 DEF HasBegun
  <2> QED BY <2>1, <2>2, <2>3
<1>7. Past'
  BY <1>5, <1>6 DEF OverInv, Past
<1>8. \A e : ~Between(e)
  BY DEF Between
<1>9. OverIsOver'
  BY <1>5, <1>8 DEF OverInv, OverIsOver
<1> QED BY <1>4, <1>7, <1>9 DEF OverInv

\* A withdrawal of what is over says so, and what it reschedules is not over.
LEMMA CancelsOver ==
  ASSUME IInv, IInv', NetType, QueueInv, OverInv, NEW h \in Handle, Cancels(h)
  PROVE  OverInv'
<1>0. PICK e \in Event : e = call[h].event
  BY CallType DEF Cancels, Cancel, IInv
<1> DEFINE reason == call[h].incoming
           freed == Freed(e, HandleTime(h))
           st == [o \in Event |-> IF o \in freed THEN "Scheduled" ELSE status[o]]
<1>1. /\ status' = [st EXCEPT ![e] = reason]
      /\ reply' = [reply EXCEPT ![e] = IF call[h].cur = "Active"
                                       THEN ToResponse[reason] ELSE "EventCancelled"]
      /\ touched' = touched \cup freed \cup {e}
      /\ UNCHANGED <<now, start, end, last_prune>>
      /\ Unlocked /\ Post({e}, reply')
  BY <1>0 DEF Cancels, Cancel, UpdateEvent
<1>2. /\ call[h] # None /\ status[e] # "Absent" /\ reason \in CancelReason
  BY <1>0 DEF Cancels, Cancel, IInv, PendingInv
<1>3. /\ status \in [Event -> EIStatus \cup {"Absent"}]
      /\ reply \in [Event -> ResponseStatus \cup {"Nothing"}]
      /\ reply' \in [Event -> ResponseStatus \cup {"Nothing"}]
      /\ now \in Nat /\ \A o \in Event : start[o] \in Int
      /\ TypeOK
  BY DEF IInv, TypeOK
<1>4. reply'[e] \notin {"EventStarted", "EventReceived", "EventCompleted",
                        "EventOptOut"}
  BY <1>1, <1>2, <1>3 DEF ToResponse, CancelReason
<1>5. \A o \in freed : /\ o \in Event /\ status[o] = "Superseded"
                       /\ start[o] > now
  <2>1. HandleTime(h) = now
    BY <1>3 DEF HandleTime, QueueInv, OnClock
  <2> QED BY <2>1 DEF Freed
<1> HIDE DEF reason, freed
<1>6. /\ status'[e] \in CancelReason
      /\ \A o \in Event : o # e =>
           status'[o] = IF o \in freed THEN "Scheduled" ELSE status[o]
  BY <1>1, <1>2, <1>3
<1>7. Placed' /\ Ordered'
  BY <1>1, <1>2, <1>5, <1>6 DEF OverInv, Placed, Ordered
<1>8. ASSUME NEW o \in over'
      PROVE  /\ o \in Event /\ o \in over /\ "SpecificResponse" \in Required[o]
             /\ heard'[o] # "EventStarted"
             /\ heard'[o] = "EventReceived" => o \in lost' \/ Between(o)'
  <2>1. ~Between(o)
    BY <1>1 DEF Between, Unlocked
  <2>2. o \in over /\ o \in {e} => reply'[o] # "EventStarted"
                                  /\ reply'[o] # "EventReceived"
    BY <1>4
  <2>3. /\ o \in Event /\ "SpecificResponse" \in Required[o]
        /\ heard'[o] # "EventStarted"
        /\ heard'[o] = "EventReceived" => o \in lost' \/ Between(o)'
        /\ o \notin over =>
             o \in {e} /\ reply'[o] \in {"EventCompleted", "EventOptOut"}
    <3>1. Post({e}, reply') /\ reply' \in [Event -> ResponseStatus \cup {"Nothing"}]
      BY <1>1, <1>3
    <3> QED BY <2>1, <2>2, <3>1, PostOver
  <2>4. ASSUME o \notin over PROVE FALSE
    <3>1. o = e /\ reply'[o] \in {"EventCompleted", "EventOptOut"}
      BY <2>3, <2>4
    <3> QED BY <1>4, <3>1
  <2> QED BY <2>3, <2>4
<1>9. ASSUME NEW o \in over'
      PROVE  IF status'[o] = "Absent" THEN Spent(o)' ELSE HasBegun(o)'
  <2>1. o \in over /\ o \in Event
    BY <1>8
  <2>2. o \notin freed /\ (status[o] # "Absent" => status[o] # "Scheduled")
    <3>1. status[o] # "Absent" => HasBegun(o)
      BY <2>1 DEF OverInv, Past
    <3>2. ASSUME o \in freed PROVE FALSE
      <4>1. start[o] < now /\ start[o] > now /\ start[o] \in Int
        BY <1>3, <1>5, <2>1, <3>1, <3>2 DEF HasBegun
      <4> QED BY <1>3, <4>1
    <3> QED BY <3>1, <3>2 DEF HasBegun
  <2>3. /\ status[o] # "Absent" => status'[o] \notin {"Absent", "Scheduled"}
        /\ status[o] = "Absent" => status'[o] = "Absent"
    BY <1>2, <1>6, <2>1, <2>2 DEF CancelReason
  <2> QED BY <1>1, <1>3, <2>1, <2>3, StillPast
<1>10. Past' /\ OverIsOver'
  BY <1>8, <1>9 DEF Past, OverIsOver
<1> QED BY <1>7, <1>10 DEF OverInv

\* The receipt of what was over, to be taken back.
LEMMA ReceivesOver ==
  ASSUME IInv, IInv', NetType, QueueInv, OverInv, NEW h \in Handle, Receives(h)
  PROVE  OverInv'
<1> DEFINE r == [o \in Event |-> "EventReceived"]
<1>0. PICK e \in Event : e = call[h].event /\ call[h] # None
  BY CallType DEF Receives, Inserting, IInv
<1>1. /\ Post({e}, r) /\ receipt' /\ ~receipt
      /\ UNCHANGED <<now, status, start, end, touched, last_prune, call>>
  BY <1>0 DEF Receives, vars, events
<1>2. r \in [Event -> ResponseStatus \cup {"Nothing"}] /\ TypeOK
  BY DEF ResponseStatus, IInv
<1>3. \A o \in Event : r[o] = "EventReceived"
  OBVIOUS
<1>4. Between(e)'
  BY <1>0, <1>1 DEF Between
<1> HIDE DEF r
<1>5. ASSUME NEW o \in over'
      PROVE  /\ o \in Event /\ o \in over /\ "SpecificResponse" \in Required[o]
             /\ heard'[o] # "EventStarted"
             /\ heard'[o] = "EventReceived" => o \in lost' \/ Between(o)'
  <2>1. ~Between(o)
    BY <1>1 DEF Between
  <2>2. o \in over /\ o \in {e} =>
          r[o] # "EventStarted" /\ (r[o] = "EventReceived" => Between(o)')
    BY <1>3, <1>4
  <2>3. /\ o \in Event /\ "SpecificResponse" \in Required[o]
        /\ heard'[o] # "EventStarted"
        /\ heard'[o] = "EventReceived" => o \in lost' \/ Between(o)'
        /\ o \notin over => o \in {e} /\ r[o] \in {"EventCompleted", "EventOptOut"}
    BY <1>1, <1>2, <2>1, <2>2, PostOver
  <2> QED BY <1>3, <2>3
<1>6. ASSUME NEW o \in over'
      PROVE  IF status'[o] = "Absent" THEN Spent(o)' ELSE HasBegun(o)'
  <2>1. status[o] # "Absent" => status[o] # "Scheduled"
    BY <1>5 DEF OverInv, Past, HasBegun
  <2> QED BY <1>1, <1>2, <1>5, <2>1, StillPast
<1>7. Placed' /\ Ordered'
  BY <1>1 DEF OverInv, Placed, Ordered
<1>8. Past' /\ OverIsOver'
  BY <1>5, <1>6 DEF Past, OverIsOver
<1> QED BY <1>7, <1>8 DEF OverInv

\* What is refused is said to be withdrawn, or expired.
LEMMA RejectsOver ==
  ASSUME IInv, IInv', NetType, QueueInv, OverInv, NEW h \in Handle, Rejects(h)
  PROVE  OverInv'
<1>0. PICK e \in Event : e = call[h].event /\ call[h] # None
  BY CallType DEF Rejects, RejectWithdrawn, RejectExpired, Inserting, IInv
<1>1. /\ Post({e}, reply')
      /\ UNCHANGED <<now, status, start, end, touched, last_prune>>
  BY <1>0 DEF Rejects, RejectWithdrawn, RejectExpired, events
<1>2. /\ reply \in [Event -> ResponseStatus \cup {"Nothing"}]
      /\ reply' \in [Event -> ResponseStatus \cup {"Nothing"}]
      /\ TypeOK
  BY DEF IInv, TypeOK
<1>3. reply'[e] \notin {"EventStarted", "EventReceived", "EventCompleted",
                        "EventOptOut"}
  BY <1>0, <1>2, DeliveryAssumption
     DEF Rejects, RejectWithdrawn, RejectExpired, ToResponse, CancelReason
<1>4. \A o : o # e => ~Between(o)
  BY <1>0 DEF Between, QueueInv, Serial
<1>5. ASSUME NEW o \in over'
      PROVE  /\ o \in Event /\ o \in over /\ "SpecificResponse" \in Required[o]
             /\ heard'[o] # "EventStarted"
             /\ heard'[o] = "EventReceived" => o \in lost' \/ Between(o)'
  <2>1. o \notin {e} => ~Between(o)
    BY <1>4
  <2>2. o \in over /\ o \in {e} => reply'[o] # "EventStarted"
                                  /\ reply'[o] # "EventReceived"
    BY <1>3
  <2>3. /\ o \in Event /\ "SpecificResponse" \in Required[o]
        /\ heard'[o] # "EventStarted"
        /\ heard'[o] = "EventReceived" => o \in lost' \/ Between(o)'
        /\ o \notin over =>
             o \in {e} /\ reply'[o] \in {"EventCompleted", "EventOptOut"}
    BY <1>1, <1>2, <2>1, <2>2, PostOver
  <2> QED BY <1>3, <2>3
<1>6. ASSUME NEW o \in over'
      PROVE  IF status'[o] = "Absent" THEN Spent(o)' ELSE HasBegun(o)'
  <2>1. status[o] # "Absent" => status[o] # "Scheduled"
    BY <1>5 DEF OverInv, Past, HasBegun
  <2> QED BY <1>1, <1>2, <1>5, <2>1, StillPast
<1>7. Placed' /\ Ordered'
  BY <1>1 DEF OverInv, Placed, Ordered
<1>8. Past' /\ OverIsOver'
  BY <1>5, <1>6 DEF Past, OverIsOver
<1> QED BY <1>7, <1>8 DEF OverInv

\* What is over is not stored again, and what the loop marks does not start.
LEMMA StoresOver ==
  ASSUME Forward, IInv, IInv', NetType, QueueInv, OverInv, NEW h \in Handle, Stores(h)
  PROVE  OverInv'
<1>0. PICK e \in Event : e = call[h].event /\ call[h] # None
  BY CallType DEF Stores, Inserting, IInv
<1>1. PICK s \in RandomStart(e) : \E t \in RandomEnd(e, s) :
        /\ Store(h, s, t)
        /\ Post(Losers(e, s, t) \cup (IF Winners(e, s, t) = {} THEN {} ELSE {e}), reply')
  BY <1>0 DEF Stores
<1>2. PICK t \in RandomEnd(e, s) :
        /\ Store(h, s, t)
        /\ Post(Losers(e, s, t) \cup (IF Winners(e, s, t) = {} THEN {} ELSE {e}), reply')
  BY <1>1
<1> DEFINE losers == Losers(e, s, t)
           winners == Winners(e, s, t)
           arrives == call[h].incoming
           final == IF winners = {} THEN arrives ELSE "Superseded"
           st == [o \in Event |-> IF o \in losers THEN "Superseded" ELSE status[o]]
           to == losers \cup (IF winners = {} THEN {} ELSE {e})
<1>3. /\ status' = [st EXCEPT ![e] = final]
      /\ start' = [start EXCEPT ![e] = s]
      /\ end' = [end EXCEPT ![e] = t]
      /\ touched' = touched \cup losers \cup {e}
      /\ UNCHANGED <<now, last_prune>>
      /\ Post(to, reply')
  BY <1>0, <1>2 DEF Store
<1>4. PICK own \in IF winners = {} THEN {"EventReceived"}
                   ELSE {LoopReply(e, arrives, winners, w) : w \in winners} :
        reply' = [o \in Event |->
                   IF o = e THEN own
                   ELSE IF o \in losers THEN SupersededReply(o, status[o], e)
                   ELSE reply[o]]
  BY <1>0, <1>2 DEF Store
<1>5. status[e] = "Absent" /\ t > now /\ s <= t
  <2>1. Inserting(h) /\ t > HandleTime(h)
    BY <1>2 DEF Store
  <2>2. HandleTime(h) = now
    BY DEF HandleTime, QueueInv, OnClock, IInv, TypeOK
  <2> QED BY <1>0, <2>1, <2>2 DEF Inserting, IInv, PendingInv, Forward
<1>6. /\ status \in [Event -> EIStatus \cup {"Absent"}]
      /\ reply' \in [Event -> ResponseStatus \cup {"Nothing"}]
      /\ start \in [Event -> Int] /\ end \in [Event -> Int] /\ now \in Nat
      /\ TypeOK
  BY DEF IInv, TypeOK
<1>7. e \notin over
  <2> SUFFICES ASSUME e \in over PROVE FALSE
    OBVIOUS
  <2>1. t <= now /\ t \in Int
    BY <1>5, RandomType DEF OverInv, Past, Spent
  <2> QED BY <1>5, <1>6, <2>1
<1>8. /\ losers \subseteq Event /\ \A o \in losers : status[o] # "Absent"
      /\ to \subseteq Event
  BY DEF Losers, Stored
<1>9. \A o \in to : reply'[o] \in SupersededReplies
  <2>1. ASSUME winners # {} PROVE own \in SupersededReplies
    BY <1>4, <2>1, LoopReplies
  <2>2. \A o : SupersededReply(o, status[o], e) \in SupersededReplies
    BY LoopReplies
  <2>3. /\ \A o \in losers : o # e =>
             reply'[o] = SupersededReply(o, status[o], e)
        /\ reply'[e] = own
    BY <1>4, <1>8
  <2>4. \A o \in to : o # e => o \in losers
    OBVIOUS
  <2>5. e \in to => winners # {}
    BY <1>5, <1>8
  <2> HIDE DEF losers, winners, to
  <2> QED BY <2>1, <2>2, <2>3, <2>4, <2>5
<1>10. \A o : o # e => ~Between(o)
  BY <1>0 DEF Between, QueueInv, Serial
<1> HIDE DEF losers, winners, arrives, to
<1>11. ASSUME NEW o \in over'
       PROVE  /\ o \in Event /\ o \in over /\ "SpecificResponse" \in Required[o]
              /\ heard'[o] # "EventStarted"
              /\ heard'[o] = "EventReceived" => o \in lost' \/ Between(o)'
  <2>1. o \in to => reply'[o] \notin {"EventStarted", "EventReceived",
                                      "EventCompleted", "EventOptOut"}
    BY <1>9 DEF SupersededReplies
  <2>2. CASE o = e /\ o \notin to
    <3>1. over' \subseteq over \cup to
      BY <1>3 DEF Post
    <3> QED BY <1>7, <2>2, <3>1
  <2>3. CASE o \in to \/ o # e
    <3>1. o \notin to => ~Between(o)
      BY <1>10, <2>3
    <3>2. /\ o \in Event /\ "SpecificResponse" \in Required[o]
          /\ heard'[o] # "EventStarted"
          /\ heard'[o] = "EventReceived" => o \in lost' \/ Between(o)'
          /\ o \notin over =>
               o \in to /\ reply'[o] \in {"EventCompleted", "EventOptOut"}
      BY <1>3, <1>6, <1>8, <2>1, <3>1, PostOver
    <3> QED BY <2>1, <3>2
  <2> QED BY <2>2, <2>3
<1>12. /\ status'[e] = final /\ start'[e] = s /\ end'[e] = t
       /\ \A o \in Event : o # e =>
            /\ status'[o] = IF o \in losers THEN "Superseded" ELSE status[o]
            /\ start'[o] = start[o] /\ end'[o] = end[o]
  BY <1>3, <1>6
<1>13. Placed' /\ Ordered'
  BY <1>5, <1>8, <1>12 DEF OverInv, Placed, Ordered
<1>14. ASSUME NEW o \in over'
       PROVE  IF status'[o] = "Absent" THEN Spent(o)' ELSE HasBegun(o)'
  <2>1. o \in over /\ o # e /\ o \in Event
    BY <1>7, <1>11
  <2>2. status[o] # "Absent" => status[o] # "Scheduled"
    BY <2>1 DEF OverInv, Past, HasBegun
  <2>3. /\ status[o] # "Absent" => status'[o] \notin {"Absent", "Scheduled"}
        /\ status[o] = "Absent" => status'[o] = "Absent"
        /\ start'[o] = start[o]
    BY <1>8, <1>12, <2>1, <2>2
  <2>4. now' \in {now, now + 1} /\ last_prune' = last_prune
        /\ touched \subseteq touched'
    BY <1>3
  <2> QED BY <1>6, <2>1, <2>3, <2>4, StillPast
<1>15. Past' /\ OverIsOver'
  BY <1>11, <1>14 DEF Past, OverIsOver
<1> QED BY <1>13, <1>15 DEF OverInv

\* Every step keeps it.
LEMMA NextOver ==
  ASSUME FitsWeek, Forward, CompositionInv, CompositionInv', OverInv,
         [DeliveryNext]_allVars
  PROVE  OverInv'
<1>1. TypeOK /\ IInv /\ IInv' /\ QueueInv /\ NetType
  BY DEF CompositionInv, IInv, NetInv
<1>2. CASE Starts \/ Ends
  BY <1>1, <1>2, StartsOver, EndsOver
<1>3. ASSUME NEW h \in Handle, Respond(h) PROVE OverInv'
  BY <1>1, <1>3, CancelsOver, ReceivesOver, RejectsOver, StoresOver DEF Respond
<1>4. CASE Quiet
  <2>1. CASE Clean /\ ~receipt
    BY <1>1, <1>4, <2>1, CleanOver DEF Quiet
  <2>2. CASE Tick
    <3>1. /\ now' \in {now, now + 1}
          /\ UNCHANGED <<status, start, end, touched, last_prune>>
          /\ UNCHANGED <<heard, lost, over>> /\ UNCHANGED <<call, receipt>>
      BY <1>4, <2>2 DEF Quiet, Tick, events, net
    <3>2. \A e \in Event : Between(e) => Between(e)'
      BY <3>1 DEF Between
    <3> QED BY <1>1, <3>1, <3>2, StillOver
  <2> QED BY <1>4, <2>1, <2>2 DEF Quiet
<1>5. CASE Talk \/ UNCHANGED allVars
  <2>1. /\ UNCHANGED <<now, status, start, end, touched, last_prune>>
        /\ UNCHANGED <<heard, lost, over>> /\ UNCHANGED <<call, receipt>>
    BY <1>5, TalkSame DEF allVars, net, vars, events
  <2>2. \A e \in Event : Between(e) => Between(e)'
    BY <2>1 DEF Between
  <2> QED BY <1>1, <2>1, <2>2, StillOver
<1>6. ASSUME NEW h \in Handle, Add(h) PROVE OverInv'
  <2>1. /\ UNCHANGED <<now, status, start, end, touched, last_prune>>
        /\ UNCHANGED <<heard, lost, over>> /\ Idle
    BY <1>6 DEF Add, AddEvent, Read, vars, events
  <2>2. \A e \in Event : ~Between(e)
    BY <2>1 DEF Between, Idle
  <2> QED BY <1>1, <2>1, <2>2, StillOver
<1> QED BY <1>2, <1>3, <1>4, <1>5, <1>6 DEF DeliveryNext, Talk

-----------------------------------------------------------------------------
(* The theorems.                                                           *)

\* Every variable of the composition keeps its type, the responses that reach
\* the server included.
THEOREM DeliveryTypeCorrect == DeliverySpec => []DeliveryTypeOK
<1>1. CompositionInv => DeliveryTypeOK
  BY DEF CompositionInv, IInv, NetInv, NetType, DeliveryTypeOK
<1> QED BY <1>1, NetInductive, PTL

\* The client of examples/der_client.rs uses the schedule as Schedule says it
\* may be used: what is proved of Schedule holds of every run of the client.
THEOREM ImplementsSchedule == DeliverySpec => Spec
<1>1. DeliveryInit => Init
  BY DEF DeliveryInit
<1>2. CompositionInv /\ [DeliveryNext]_allVars => [Next]_vars
  BY Simulation DEF CompositionInv, NetInv
<1> QED BY <1>1, <1>2, NetInductive, PTL DEF DeliverySpec, Spec

\* The pointers of the client are always valid: it fetches an event again and
\* again, and every handle is given every event, but add_event is awaited, so
\* that no two calls are about the same event.
THEOREM ClientNextsCorrect == DeliverySpec => []NextsValid
<1>1. CompositionInv => NextsValid
  BY DEF CompositionInv, IInv
<1> QED BY <1>1, NetInductive, PTL

\* Of two controls that compete for the device the client never leaves the one
\* that loses to run, however often they are fetched and in which order.
THEOREM ClientConflictFree == DeliverySpec => []NoConflict
<1>1. CompositionInv => NoConflict
  BY DEF CompositionInv, IInv, SupersessionInv, NoConflict, Stored
<1> QED BY <1>1, NetInductive, PTL

\* A server believes a control to be running that is not only if the last POST
\* about it did not get through: every way out of Active is answered.
THEOREM ServerNotMisled == DeliverySpec => []HeardRunning
<1>1. CompositionInv => HeardRunning
  BY DEF CompositionInv, NetInv
<1> QED BY <1>1, NetInductive, PTL

\* Once the server has heard that a control is over it hears of no start of it,
\* and hears of no receipt that is not taken back, unless the last POST about it
\* did not get through: although the client forgets the control, has older
\* copies of it in its queue, fetches it again, draws its window anew and may
\* mark it as superseded after its end.  No control may be longer than the time
\* between two prunes, nor end before it starts.
THEOREM OverStaysOver ==
  FitsWeek /\ Forward => (DeliverySpec => []OverIsOver)
<1> SUFFICES ASSUME FitsWeek, Forward PROVE DeliverySpec => []OverIsOver
  OBVIOUS
<1>1. DeliveryInit => OverInv
  BY DEF DeliveryInit, Init, OverInv, Placed, Ordered, Past, OverIsOver
<1>2. CompositionInv /\ CompositionInv' /\ OverInv /\ [DeliveryNext]_allVars
        => OverInv'
  BY NextOver
<1>3. OverInv => OverIsOver
  BY DEF OverInv
<1> QED BY <1>1, <1>2, <1>3, NetInductive, PTL DEF DeliverySpec

\* The safety half of Converges: a control that the server has withdrawn, of
\* which no older copy is on its way and which the client does not hold, is
\* never taken up again.
StaysAway ==
  [][\A e \in Event : Withdrawn(e) /\ status[e] = "Absent"
       => Withdrawn(e)' /\ status'[e] = "Absent"]_allVars

THEOREM WithdrawnStaysAway == DeliverySpec => StaysAway
<1>1. ASSUME CompositionInv, [DeliveryNext]_allVars, NEW e \in Event,
             Withdrawn(e), status[e] = "Absent"
      PROVE  Withdrawn(e)' /\ status'[e] = "Absent"
  <2>0. /\ TypeOK /\ NextsValid /\ PendingInv /\ QueueInv /\ NetType
        /\ [Next]_vars
    BY <1>1, Simulation DEF CompositionInv, IInv, NetInv
  <2>1. Withdrawn(e)'
    BY <1>1, <2>0, NextQueue
  <2>2. CASE StartTask \/ EndTask \/ \E h \in Handle : Cancel(h)
    <3>1. \A o \in Event : status[o] = "Absent" <=> status'[o] = "Absent"
      BY <2>0, <2>2, StoredSame
    <3> QED BY <1>1, <2>1, <3>1
  <2>3. ASSUME NEW h \in Handle, NEW s \in RandomStart(call[h].event),
               NEW t \in RandomEnd(call[h].event, s), Store(h, s, t)
        PROVE  status'[e] = "Absent"
    <3> DEFINE new == call[h].event
               losers == Losers(new, s, t)
               st == [o \in Event |-> IF o \in losers THEN "Superseded"
                                      ELSE status[o]]
    <3>1. /\ call[h] # None /\ call[h].incoming \notin CancelReason
          /\ \E final : status' = [st EXCEPT ![new] = final]
      BY <2>3 DEF Store, Inserting
    <3>2. new # e
      <4>1. call[h].incoming \in EventStatusType
        BY <2>0, <3>1, CallType
      <4>2. call[h].incoming # "Cancelled"
        BY <3>1 DEF CancelReason
      <4>3. Carried(new, call[h].incoming)
        BY <3>1 DEF Carried
      <4> QED BY <1>1, <4>1, <4>2, <4>3 DEF Withdrawn
    <3>3. e \notin losers
      BY <1>1 DEF Losers, Stored
    <3>4. st[e] = "Absent"
      BY <1>1, <3>3
    <3> HIDE DEF new, losers, st
    <3>5. st = [o \in Event |-> st[o]]
      BY DEF st
    <3> QED BY <3>1, <3>2, <3>4, <3>5
  <2>4. CASE Clean
    <3>1. status' = [o \in Event |-> IF o \in Pruned THEN "Absent" ELSE status[o]]
      BY <2>4 DEF Clean
    <3> QED BY <1>1, <2>1, <3>1
  <2>5. CASE UNCHANGED status
    BY <1>1, <2>1, <2>5
  <2>6. CASE \/ Tick \/ Shutdown \/ \E t \in Task : TaskExit(t)
             \/ \E h \in Handle : \/ \E d \in Drift : UpdateTime(h, d)
                                  \/ \E o \in Feed[h] : \E s \in Incoming :
                                       Read(h, o, s)
                                  \/ RejectWithdrawn(h) \/ RejectExpired(h)
             \/ UNCHANGED vars
    BY <2>5, <2>6 DEF Tick, Shutdown, TaskExit, UpdateTime, Read,
                      RejectWithdrawn, RejectExpired, events, vars
  <2> QED BY <2>0, <2>1, <2>2, <2>3, <2>4, <2>6 DEF Next, Finish
<1>2. CompositionInv /\ [DeliveryNext]_allVars
        => [\A e \in Event : Withdrawn(e) /\ status[e] = "Absent"
              => Withdrawn(e)' /\ status'[e] = "Absent"]_allVars
  BY <1>1
<1> QED BY <1>2, NetInductive, PTL DEF DeliverySpec, StaysAway
=============================================================================
