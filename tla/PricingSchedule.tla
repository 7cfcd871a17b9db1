-------------------------- MODULE PricingSchedule --------------------------
(***************************************************************************)
(* The schedule of TimeTariffIntervals, pricing.rs: Schedule with the rate *)
(* component as the program of an event, and supersession within one rate  *)
(* component only.                                                         *)
(***************************************************************************)
EXTENDS Integers

CONSTANTS Event, Handle, Feed, Resource, Incoming, Drift, ShutdownAt, Week,
          MaxTime, None

VARIABLES now, status, start, end, superseded_by, next_start, next_end,
          time_offset, call, running, sd, touched, last_prune, client, reply,
          cancelled

\* A rule that forgets the rate component.
AnyRate == Event \X Event

\* Intervals of one rate component compete.
pricing_supersedes ==
  {p \in Event \X Event : Resource[p[1]].program = Resource[p[2]].program}

S == INSTANCE Schedule WITH SameTarget <- pricing_supersedes,
                            OptOutCancels <- FALSE, RespondExpired <- TRUE

ASSUME PricingAssumption ==
  /\ \A e \in Event : S!IsResource(Resource[e])
  /\ Feed \in [Handle -> SUBSET Event]
  /\ Incoming \subseteq S!EventStatusType
  /\ Drift \subseteq Int
  /\ Week \in Nat /\ MaxTime \in Nat
  /\ ShutdownAt \subseteq Nat
  /\ None \notin Int \X Event /\ None \notin S!Call

vars == S!vars

pricing_start_task == S!StartTask
pricing_end_task == S!EndTask
clean_events == S!Clean
shutdown == S!Shutdown \/ \E t \in S!Task : S!TaskExit(t)
add_event_read(h, e, s) == S!Read(h, e, s)
cancel_timetariffinterval(h) == S!Cancel(h)
add_event_insert(h) ==
  \/ S!RejectWithdrawn(h)
  \/ S!RejectExpired(h)
  \/ /\ S!Inserting(h)
     /\ \E s \in S!RandomStart(call[h].event) :
          \E t \in S!RandomEnd(call[h].event, s) : S!Store(h, s, t)

Init == S!Init

Next ==
  \/ S!Tick
  \/ pricing_start_task
  \/ pricing_end_task
  \/ clean_events
  \/ shutdown
  \/ \E h \in Handle :
       \/ \E e \in Feed[h] : \E s \in Incoming : add_event_read(h, e, s)
       \/ cancel_timetariffinterval(h)
       \/ add_event_insert(h)
       \/ \E d \in Drift : S!UpdateTime(h, d)

Spec == Init /\ [][Next]_vars

\* At most one tariff at a time for each rate component, and the intervals of
\* one never displace those of another.
OneTariffPerRate ==
  \A a, b \in S!Stored :
    IF Resource[a].program = Resource[b].program
    THEN a # b /\ S!Live(a) /\ S!Live(b) /\ S!Overlap(start[a], end[a], start[b], end[b])
           => \/ ~S!Outranks(a, b) /\ ~S!Outranks(b, a)
              \/ a \in cancelled \/ b \in cancelled
    ELSE a \notin superseded_by[b]

\* The server knows the state of every interval, and never hears that one was
\* aborted by another program, for it competes with none.
ServerInSync ==
  /\ S!ServerInSync
  /\ \A e \in Event : reply[e] # "EventAbortedProgram"
=============================================================================
