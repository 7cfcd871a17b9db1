------------------------------ MODULE Delivery ------------------------------
(***************************************************************************)
(* A DER client from end to end: a server that publishes controls, makes   *)
(* them active and withdraws them; the poll of the program list and the    *)
(* task that fetches the controls of each program and adds them to the     *)
(* schedule, as examples/der_client.rs writes them on top of client.rs;    *)
(* the schedule itself, module Schedule; and the responses it POSTs, which *)
(* may be filtered or lost.  GETs fail, and what a GET has brought is old  *)
(* by the time it is added.                                                *)
(***************************************************************************)
EXTENDS Schedule, Responses, Sequences

CONSTANTS
  Programs,    \* the programs of the list, in the order of the list
  Required,    \* Required[e]: the responseRequired flags of e
  Losable      \* bound: the controls about which a POST may fail

Program == {Resource[e].program : e \in Event}

ASSUME DeliveryAssumption ==
  /\ Programs \in Seq(Program)
  /\ Required \in [Event -> SUBSET Flag]
  /\ Losable \subseteq Event
  /\ RespondExpired
  /\ \A h \in Handle : Feed[h] = Event
  /\ {"Scheduled", "Active", "Cancelled"} \subseteq Incoming

VARIABLES
  server,  \* the currentStatus of each control on the server
  work,    \* what the task has left to do of a list: programs to fetch and
           \* controls to add
  receipt, \* the add_event in progress holds the write lock, and its POST of
           \* EventReceived is behind it
  heard,   \* the last response the server has received for each control
  lost,    \* history: controls about which the last POST did not get through
  over     \* history: controls whose end, or opt-out, the server has heard of

net == <<server, work, receipt, heard, lost, over>>
allVars == <<vars, net>>

NoWork == [left |-> <<>>, items |-> {}]

ServerStatus == {"Unlisted", "Scheduled", "Active", "Cancelled"}

DeliveryTypeOK ==
  /\ TypeOK
  /\ server \in [Event -> ServerStatus]
  /\ work \in [left : Seq(Program),
               items : SUBSET (Event \X EventStatusType)]
  /\ receipt \in BOOLEAN
  /\ heard \in [Event -> ResponseStatus \cup {"Nothing"}]
  /\ lost \subseteq Event
  /\ over \subseteq Event

DeliveryInit ==
  /\ Init
  /\ server = [e \in Event |-> "Unlisted"]
  /\ work = NoWork
  /\ receipt = FALSE
  /\ heard = [e \in Event |-> "Nothing"]
  /\ lost = {}
  /\ over = {}

-----------------------------------------------------------------------------
(* The server.                                                             *)

Becomes(e, s) ==
  /\ server' = [server EXCEPT ![e] = s]
  /\ UNCHANGED <<vars, work, receipt, heard, lost, over>>

Publish(e) == server[e] = "Unlisted" /\ Becomes(e, "Scheduled")

Activate(e) ==
  server[e] = "Scheduled" /\ now >= Resource[e].start /\ Becomes(e, "Active")

Withdraw(e) == server[e] \in {"Scheduled", "Active"} /\ Becomes(e, "Cancelled")

-----------------------------------------------------------------------------
(* The poll and the task.                                                  *)

Idle == \A h \in Handle : call[h] = None

\* A poll has brought the list of programs through the channel, and the task
\* is free to take it.  A poll that fails only waits for the next.
TakeList ==
  /\ work = NoWork
  /\ Idle
  /\ work' = [left |-> Programs, items |-> {}]
  /\ UNCHANGED <<vars, server, receipt, heard, lost, over>>

\* All that was fetched has been added, and there is more to fetch.
Ready == work.left # <<>> /\ work.items = {} /\ Idle

\* Without asking whether the server lists it, and only what is in force.
ControlListAll(p) ==
  {<<e, server[e]>> : e \in {x \in Event : Resource[x].program = p}}
ControlListActive(p) ==
  {<<e, server[e]>> : e \in {x \in Event : Resource[x].program = p
                                             /\ server[x] = "Active"}}

\* The controls of program p as the server has them now.
ControlList(p) ==
  {<<e, server[e]>> : e \in {x \in Event : Resource[x].program = p
                                             /\ server[x] # "Unlisted"}}

\* The GET of the controls of p, the next of the list, succeeds.
Fetch(p) ==
  /\ Ready
  /\ p = Head(work.left)
  /\ work' = [left |-> Tail(work.left), items |-> ControlList(p)]
  /\ UNCHANGED <<vars, server, receipt, heard, lost, over>>

\* The GET fails: the rest of the list is dropped.
FetchError ==
  /\ Ready
  /\ work' = NoWork
  /\ UNCHANGED <<vars, server, receipt, heard, lost, over>>

\* add_event for a control that was fetched: its first half, or all of it when
\* the status only calls for a log line.
AddEvent(h, e, s) ==
  /\ Idle
  /\ work' = [work EXCEPT !.items = @ \ {<<e, s>>}]
  /\ IF status[e] = "Absent" \/ Withdraws(status[e], s)
     THEN Read(h, e, s) ELSE UNCHANGED vars
  /\ UNCHANGED <<server, receipt, heard, lost, over>>

-----------------------------------------------------------------------------
(* The responses.                                                          *)

Sends(e, r) == SendsDER(r, Required[e])

\* The response r[e] is POSTed about each of the controls in to, where a POST is
\* due.  Some do not get through: that is only logged, nothing is sent again.
Post(to, r) ==
  /\ LET sent == {e \in to : Sends(e, r[e])}
     IN  \E failed \in SUBSET (sent \cap Losable) :
           /\ heard' = [e \in Event |-> IF e \in sent \ failed THEN r[e]
                                       ELSE heard[e]]
           /\ lost' = (lost \ sent) \cup failed
           /\ over' = over \cup {e \in sent \ failed :
                                  r[e] \in {"EventCompleted", "EventOptOut"}}
  /\ UNCHANGED <<server, work>>

\* The tasks and a cancel wait for the write lock.
Unlocked == ~receipt /\ UNCHANGED receipt

Starts == Unlocked /\ StartTask /\ Post({next_start[2]}, reply')
Ends == Unlocked /\ EndTask /\ Post({next_end[2]}, reply')
Cancels(h) == Unlocked /\ Cancel(h) /\ Post({call[h].event}, reply')

\* add_event has the write lock, and POSTs the receipt before anything else.
Receives(h) ==
  /\ Inserting(h)
  /\ ~receipt
  /\ receipt' = TRUE
  /\ Post({call[h].event}, [e \in Event |-> "EventReceived"])
  /\ UNCHANGED vars

\* The rest of add_event, after the receipt, to the end of the lock.
AfterReceipt == receipt /\ receipt' = FALSE

\* An event that is expired is dropped in silence.
RejectsSilently(h) ==
  /\ AfterReceipt
  /\ \/ RejectWithdrawn(h) /\ Post({call[h].event}, reply')
     \/ RejectExpired(h) /\ Post({}, reply')

Rejects(h) ==
  /\ AfterReceipt
  /\ RejectWithdrawn(h) \/ RejectExpired(h)
  /\ Post({call[h].event}, reply')

Stores(h) ==
  /\ AfterReceipt
  /\ Inserting(h)
  /\ LET e == call[h].event
     IN  \E s \in RandomStart(e) : \E t \in RandomEnd(e, s) :
           /\ Store(h, s, t)
           /\ Post(Losers(e, s, t) \cup (IF Winners(e, s, t) = {} THEN {} ELSE {e}),
                   reply')

\* The task at work on what it has fetched.
Add(h) == \E x \in work.items : AddEvent(h, x[1], x[2])
Respond(h) == Cancels(h) \/ Receives(h) \/ Rejects(h) \/ Stores(h)

\* The steps of the schedule that answer nothing.
Quiet == (Tick \/ (~receipt /\ Clean)) /\ UNCHANGED net

DeliveryNext ==
  \/ \E e \in Event : Publish(e) \/ Activate(e) \/ Withdraw(e)
  \/ TakeList
  \/ \E p \in Program : Fetch(p)
  \/ FetchError
  \/ \E h \in Handle : Add(h) \/ Respond(h)
  \/ Starts
  \/ Ends
  \/ Quiet

DeliverySpec == DeliveryInit /\ [][DeliveryNext]_allVars

\* Polls go on, and a GET that is repeated succeeds now and then; nothing
\* makes the server publish or withdraw anything, a POST succeed, the clock run
\* on or the tasks of the schedule get anywhere.
DeliveryFairness ==
  /\ \A p \in Program : SF_allVars(Fetch(p))
  /\ WF_allVars(TakeList \/ \E h \in Handle : Add(h) \/ Respond(h))

FairDelivery == DeliverySpec /\ DeliveryFairness

-----------------------------------------------------------------------------

\* The client converges to the server: a control the server has withdrawn is in
\* the end neither running nor scheduled and stays so, without waiting for its
\* end, whatever was lost on the way, whichever older copy was added late, and
\* whatever was un-superseded.
Converges ==
  \A e \in Event : <>[](server[e] = "Cancelled" => ~Live(e))

\* Nothing the server publishes is passed over, although process_derpl_task
\* drops the programs that come after a GET that fails.
EveryControlArrives ==
  \A e \in Event :
    server[e] = "Scheduled"
      ~> status[e] # "Absent" \/ reply[e] # "Nothing" \/ server[e] = "Cancelled"

\* A server that believes a control to be running is right: every way out of
\* Active, by an end, a cancel or a supersession, is answered, unless the last
\* POST about the control did not get through, which nothing repeats.
HeardRunning ==
  \A e \in Event :
    heard[e] = "EventStarted" => status[e] = "Active" \/ e \in lost

\* add_event is between its two answers about e.
Between(e) ==
  receipt /\ \E h \in Handle : call[h] # None /\ call[h].event = e

\* Over is over: a server that has heard that a control has ended, or that the
\* client has opted out of it, hears of no start of it; and the receipt that it
\* does hear again, when the client has forgotten the control and fetches it
\* once more, is taken back by the same add_event, unless that POST is lost.
OverIsOver ==
  \A e \in over :
    /\ heard[e] # "EventStarted"
    /\ heard[e] = "EventReceived" => e \in lost \/ Between(e)
=============================================================================
