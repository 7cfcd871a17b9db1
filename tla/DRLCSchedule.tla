---------------------------- MODULE DRLCSchedule ----------------------------
(***************************************************************************)
(* The schedule of EndDeviceControls, drlc.rs: Schedule with the           *)
(* supersession rule of that file, and start and end tasks that ignore     *)
(* what the client answers.                                                *)
(***************************************************************************)
EXTENDS Integers

CONSTANTS Event, Handle, Feed, Resource, Incoming, Drift, ShutdownAt, Week,
          MaxTime, None

VARIABLES now, status, start, end, superseded_by, next_start, next_end,
          time_offset, call, running, sd, touched, last_prune, client, reply,
          cancelled

\* A rule that compares the servers too.
SameServer == {p \in Event \X Event : Resource[p[1]].server = Resource[p[2]].server}

\* Any two controls compete: they act on the whole device.
drlc_supersedes == Event \X Event

S == INSTANCE Schedule WITH SameTarget <- drlc_supersedes,
                            OptOutCancels <- FALSE, RespondExpired <- TRUE

ASSUME DRLCAssumption ==
  /\ \A e \in Event : S!IsResource(Resource[e])
  /\ Feed \in [Handle -> SUBSET Event]
  /\ Incoming \subseteq S!EventStatusType
  /\ Drift \subseteq Int
  /\ Week \in Nat /\ MaxTime \in Nat
  /\ ShutdownAt \subseteq Nat
  /\ None \notin Int \X Event /\ None \notin S!Call

vars == S!vars

drlc_start_task == S!StartTask
drlc_end_task == S!EndTask
clean_events == S!Clean
shutdown == S!Shutdown \/ \E t \in S!Task : S!TaskExit(t)
add_event_read(h, e, s) == S!Read(h, e, s)
cancel_enddevicecontrol(h) == S!Cancel(h)
add_event_insert(h) ==
  \/ S!RejectWithdrawn(h)
  \/ S!RejectExpired(h)
  \/ /\ S!Inserting(h)
     /\ \E s \in S!RandomStart(call[h].event) :
          \E t \in S!RandomEnd(call[h].event, s) : S!Store(h, s, t)

Init == S!Init

Next ==
  \/ S!Tick
  \/ drlc_start_task
  \/ drlc_end_task
  \/ clean_events
  \/ shutdown
  \/ \E h \in Handle :
       \/ \E e \in Feed[h] : \E s \in Incoming : add_event_read(h, e, s)
       \/ cancel_enddevicecontrol(h)
       \/ add_event_insert(h)
       \/ \E d \in Drift : S!UpdateTime(h, d)

Spec == Init /\ [][Next]_vars

FairSpec == Spec /\ S!Fairness

\* Direct control of one device: two controls that may run at the same time
\* are of the same rank, or the server has withdrawn one of them.
OneControl ==
  \A a, b \in S!Stored :
    a # b /\ S!Live(a) /\ S!Live(b) /\ S!Overlap(start[a], end[a], start[b], end[b])
      => \/ ~S!Outranks(a, b) /\ ~S!Outranks(b, a)
         \/ a \in cancelled \/ b \in cancelled

\* The pointers stay right for windows that are drawn, also for one that ends
\* before it starts and for a control that is stored while it runs.
NextsValid == S!NextsValid

\* Controls that displace one another do not hold one another up: each that is
\* scheduled is started, withdrawn or superseded, one per tick.
EventuallyStarts == S!EventuallyStarts

\* Each control that runs ends, however late it started and whatever displaced
\* it.
EventuallyEnds == S!EventuallyEnds
=============================================================================
