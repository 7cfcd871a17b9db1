------------------------- MODULE MessagingSchedule -------------------------
(***************************************************************************)
(* The schedule of TextMessages, messaging.rs: Schedule without            *)
(* supersession, without randomisation (the messages of the instances have *)
(* none), and without a response to a message that arrives after its end.  *)
(***************************************************************************)
EXTENDS Integers

CONSTANTS Event, Handle, Feed, Resource, Incoming, Drift, ShutdownAt, Week,
          MaxTime, None

VARIABLES now, status, start, end, superseded_by, next_start, next_end,
          time_offset, call, running, sd, touched, last_prune, client, reply,
          cancelled

\* The rule of the other schedules.
AnyMessage == Event \X Event

\* Messages do not compete: any number may be shown at a time.
supersedes == {}

S == INSTANCE Schedule WITH SameTarget <- supersedes,
                            OptOutCancels <- FALSE, RespondExpired <- FALSE

ASSUME MessagingAssumption ==
  /\ \A e \in Event : S!IsResource(Resource[e])
  /\ Feed \in [Handle -> SUBSET Event]
  /\ Incoming \subseteq S!EventStatusType
  /\ Drift \subseteq Int
  /\ Week \in Nat /\ MaxTime \in Nat
  /\ ShutdownAt \subseteq Nat
  /\ None \notin Int \X Event /\ None \notin S!Call

vars == S!vars

msg_start_task == S!StartTask
msg_end_task == S!EndTask
clean_events == S!Clean
shutdown == S!Shutdown \/ \E t \in S!Task : S!TaskExit(t)
add_event_read(h, e, s) == S!Read(h, e, s)
cancel_textmessage(h) == S!Cancel(h)
add_event_insert(h) ==
  \/ S!RejectWithdrawn(h)
  \/ S!RejectExpired(h)
  \/ /\ S!Inserting(h)
     /\ \E s \in S!RandomStart(call[h].event) :
          \E t \in S!RandomEnd(call[h].event, s) : S!Store(h, s, t)

Init == S!Init

Next ==
  \/ S!Tick
  \/ msg_start_task
  \/ msg_end_task
  \/ clean_events
  \/ shutdown
  \/ \E h \in Handle :
       \/ \E e \in Feed[h] : \E s \in Incoming : add_event_read(h, e, s)
       \/ cancel_textmessage(h)
       \/ add_event_insert(h)
       \/ \E d \in Drift : S!UpdateTime(h, d)

Spec == Init /\ [][Next]_vars

FairSpec == Spec /\ S!Fairness

\* The phase of a message in the abstract lifecycle.
PhaseOf(s) ==
  CASE s = "Absent" -> "absent"
    [] s = "Scheduled" -> "waiting"
    [] s = "Active" -> "shown"
    [] OTHER -> "over"

L == INSTANCE Lifecycle WITH phase <- [e \in Event |-> PhaseOf(status[e])]

\* Each message goes through its lifecycle on its own: no message returns to
\* an earlier phase before it is forgotten, and none is moved by another.
FollowsLifecycle == L!Spec

\* Overlapping messages do not hold one another up: each that is scheduled is
\* shown or withdrawn.
EveryMessageShown ==
  \A e \in Event : status[e] = "Scheduled" ~> status[e] # "Scheduled" \/ sd

\* However many messages are shown at once, and although only one ends per
\* tick, each that is shown ends.
EveryMessageEnds ==
  \A e \in Event : status[e] = "Active" ~> status[e] # "Active" \/ sd
=============================================================================
