-------------------------- MODULE MessagingProofs ---------------------------
(***************************************************************************)
(* MessagingSchedule implements Lifecycle: from the invariant of Schedule, *)
(* and the fact that nothing is superseded.                                *)
(***************************************************************************)
EXTENDS MessagingSchedule, TLAPS

P == INSTANCE ScheduleProofs WITH SameTarget <- supersedes,
                                  OptOutCancels <- FALSE,
                                  RespondExpired <- FALSE

\* What Schedule assumes of its constants.
LEMMA Assumptions ==
  /\ \A e \in Event : P!IsResource(Resource[e])
  /\ Feed \in [Handle -> SUBSET Event]
  /\ Incoming \subseteq P!EventStatusType
  /\ Drift \subseteq Int
  /\ Week \in Nat /\ MaxTime \in Nat
  /\ FALSE \in BOOLEAN /\ FALSE \in BOOLEAN
  /\ ShutdownAt \subseteq Nat
  /\ None \notin Int \X Event /\ None \notin P!Call
  BY MessagingAssumption
  DEF S!IsResource, P!IsResource, S!EventStatusType, P!EventStatusType,
      S!Call, P!Call, S!CancelReason, P!CancelReason

\* The schedule of this module and the one the theorems are about are the same
\* instance of Schedule under two names.
LEMMA SameNext == S!Next => P!Next
  BY DEF S!Next, P!Next, S!Tick, P!Tick, S!StartTask, P!StartTask, S!EndTask,
         P!EndTask, S!Clean, P!Clean, S!Shutdown, P!Shutdown, S!Task, P!Task,
         S!TaskExit, P!TaskExit, S!Read, P!Read, S!Finish, P!Finish,
         S!UpdateTime, P!UpdateTime, S!events, P!events, S!outside, P!outside,
         S!Due, P!Due, S!UpdateEvent, P!UpdateEvent, S!AfterAnswer,
         P!AfterAnswer, S!ToResponse, P!ToResponse, S!Pruned, P!Pruned,
         S!Withdraws, P!Withdraws, S!Cancel, P!Cancel, S!RejectWithdrawn,
         P!RejectWithdrawn, S!RejectExpired, P!RejectExpired, S!Inserting,
         P!Inserting, S!RandomStart, P!RandomStart, S!RandomEnd, P!RandomEnd,
         S!Store, P!Store, S!TaskTime, P!TaskTime, S!UpdateNexts,
         P!UpdateNexts, S!Stored, P!Stored, S!CancelReason, P!CancelReason,
         S!Freed, P!Freed, S!HandleTime, P!HandleTime, S!Randomize,
         P!Randomize, S!Losers, P!Losers, S!Winners, P!Winners, S!Nexts,
         P!Nexts, S!InsertNext, P!InsertNext, S!Interrupted, P!Interrupted,
         S!LoopReply, P!LoopReply, S!SupersededReply, P!SupersededReply,
         S!CloneOffset, P!CloneOffset, S!Supersedes, P!Supersedes, S!Overlap,
         P!Overlap, S!Outranks, P!Outranks

LEMMA SameSpec == Spec => P!Spec
<1>1. Init => P!Init
  BY DEF Init, S!Init, P!Init, S!Task, P!Task
<1>2. Next => S!Next
  BY DEF Next, S!Next, S!Finish, msg_start_task, msg_end_task, clean_events,
         shutdown, add_event_read, cancel_textmessage, add_event_insert
<1>3. UNCHANGED vars => UNCHANGED P!vars
  BY DEF vars, S!vars, P!vars, S!events, P!events, S!outside, P!outside
<1>4. [Next]_vars => [P!Next]_P!vars
  BY <1>2, <1>3, SameNext
<1> QED BY <1>1, <1>4, PTL DEF Spec, P!Spec

-----------------------------------------------------------------------------
(* Nothing is superseded.                                                  *)

\* The server supersedes no message.
NoneWithdrawnSo == "Superseded" \notin Incoming

Plain ==
  /\ \A e \in Event : status[e] # "Superseded"
  /\ \A h \in Handle : call[h] # None => call[h].incoming # "Superseded"

\* A message displaces none and is displaced by none.
LEMMA NoContest ==
  ASSUME NEW e, NEW s, NEW t
  PROVE  P!Losers(e, s, t) = {} /\ P!Winners(e, s, t) = {}
  BY DEF P!Losers, P!Winners, P!Supersedes, supersedes

\* The cancel of a message changes no other.
LEMMA CancelAlone ==
  ASSUME P!TypeOK, Plain, NEW h \in Handle, P!Cancel(h)
  PROVE  status' = [status EXCEPT ![call[h].event] = call[h].incoming]
<1>1. \A e, t : P!Freed(e, t) = {}
  BY DEF P!Freed, Plain
<1>2. status = [o \in Event |-> status[o]]
  BY DEF P!TypeOK
<1> QED BY <1>1, <1>2 DEF P!Cancel, P!UpdateEvent

\* So does its arrival.
LEMMA StoreAlone ==
  ASSUME P!TypeOK, NEW h \in Handle, NEW s, NEW t, P!Store(h, s, t)
  PROVE  status' = [status EXCEPT ![call[h].event] = call[h].incoming]
<1>1. status = [o \in Event |-> status[o]]
  BY DEF P!TypeOK
<1> QED BY <1>1, NoContest DEF P!Store

\* A call that has made its read is of a message.
LEMMA CallType ==
  ASSUME P!TypeOK, NEW h \in Handle, call[h] # None
  PROVE  call[h].event \in Event /\ call[h].incoming \in P!EventStatusType
  BY DEF P!TypeOK, P!Call

LEMMA NextPlain ==
  ASSUME NoneWithdrawnSo, P!TypeOK, Plain, [P!Next]_P!vars
  PROVE  Plain'
<1>1. CASE P!StartTask
  BY <1>1 DEF P!StartTask, P!UpdateEvent, P!AfterAnswer, P!TypeOK, Plain
<1>2. CASE P!EndTask
  BY <1>2 DEF P!EndTask, P!UpdateEvent, P!TypeOK, Plain
<1>3. CASE P!Clean
  BY <1>3 DEF P!Clean, Plain
<1>4. ASSUME NEW h \in Handle, NEW e \in Feed[h], NEW s \in Incoming,
             P!Read(h, e, s)
      PROVE  Plain'
  BY <1>4 DEF P!Read, P!events, P!TypeOK, Plain, NoneWithdrawnSo
<1>5. ASSUME NEW h \in Handle, P!Finish(h) PROVE Plain'
  <2>1. \A g \in Handle : call'[g] # None => call'[g] = call[g]
    <3>1. call' = [call EXCEPT ![h] = None]
      BY <1>5 DEF P!Finish, P!Cancel, P!RejectWithdrawn, P!RejectExpired,
                  P!Store
    <3> QED BY <3>1 DEF P!TypeOK
  <2>2. \A e \in Event : status'[e] # "Superseded"
    <3>1. CASE P!Cancel(h)
      BY <3>1, CancelAlone, CallType DEF P!TypeOK, Plain, P!Cancel
    <3>2. CASE P!RejectWithdrawn(h) \/ P!RejectExpired(h)
      BY <3>2 DEF P!RejectWithdrawn, P!RejectExpired, P!events, Plain
    <3>3. ASSUME NEW s, NEW t, P!Store(h, s, t)
          PROVE  \A e \in Event : status'[e] # "Superseded"
      <4>1. call[h] # None
        BY <3>3 DEF P!Store, P!Inserting
      <4>2. status' = [status EXCEPT ![call[h].event] = call[h].incoming]
        BY <3>3, StoreAlone
      <4> QED BY <4>1, <4>2, CallType DEF P!TypeOK, Plain
    <3> QED BY <1>5, <3>1, <3>2, <3>3 DEF P!Finish
  <2> QED BY <2>1, <2>2 DEF Plain
<1>6. CASE UNCHANGED <<status, call>>
  BY <1>6 DEF Plain
<1> QED BY <1>1, <1>2, <1>3, <1>4, <1>5, <1>6
        DEF P!Next, P!Tick, P!Shutdown, P!TaskExit, P!UpdateTime, P!events,
            P!vars

-----------------------------------------------------------------------------
(* The simulation.                                                         *)

Phases == [e \in Event |-> PhaseOf(status[e])]

\* A step that changes the status of one message changes its phase alone.
LEMMA OnePhase ==
  ASSUME P!TypeOK, NEW e \in Event, NEW s,
         status' = [status EXCEPT ![e] = s]
  PROVE  Phases' = [Phases EXCEPT ![e] = PhaseOf(s)]
  BY DEF P!TypeOK, Phases

\* A task acts on a message of the status its pointer is for.
LEMMA StartsWaiting ==
  ASSUME P!TypeOK, P!NextsValid, P!StartTask PROVE L!Next
<1> DEFINE e == next_start[2]
<1>1. e \in Event /\ status[e] = "Scheduled"
  <2>1. next_start # None /\ next_start \in P!Nexts(status, start, "Scheduled")
    BY DEF P!StartTask, P!Due, P!NextsValid
  <2> QED BY <2>1 DEF P!Nexts
<1>2. status' = [status EXCEPT ![e] = "Active"]
  <2>1. \A answer : P!AfterAnswer(answer) = "Active"
    BY DEF P!AfterAnswer
  <2> QED BY <2>1 DEF P!StartTask, P!UpdateEvent
<1>3. Phases' = [Phases EXCEPT ![e] = "shown"]
  BY <1>1, <1>2, OnePhase DEF PhaseOf
<1>4. L!Show(e)
  BY <1>1, <1>3 DEF L!Show, L!Move, Phases, PhaseOf
<1> QED BY <1>1, <1>4 DEF L!Next

LEMMA EndsShown ==
  ASSUME P!TypeOK, P!NextsValid, P!EndTask PROVE L!Next
<1> DEFINE e == next_end[2]
<1>1. e \in Event /\ status[e] = "Active"
  <2>1. next_end # None /\ next_end \in P!Nexts(status, end, "Active")
    BY DEF P!EndTask, P!Due, P!NextsValid
  <2> QED BY <2>1 DEF P!Nexts
<1>2. status' = [status EXCEPT ![e] = "Complete"]
  BY DEF P!EndTask, P!UpdateEvent
<1>3. Phases' = [Phases EXCEPT ![e] = "over"]
  <2>1. PhaseOf("Complete") = "over"
    BY DEF PhaseOf
  <2> QED BY <1>1, <1>2, <2>1, OnePhase
<1>4. L!Finish(e)
  BY <1>1, <1>3 DEF L!Finish, L!Move, Phases, PhaseOf
<1> QED BY <1>1, <1>4 DEF L!Next

\* A prune forgets what is over.
LEMMA CleanForgets ==
  ASSUME P!TypeOK, P!Clean PROVE L!Next
<1>1. \A e \in P!Pruned : e \in Event /\ Phases[e] = "over"
  BY DEF P!Pruned, P!Stored, Phases, PhaseOf
<1>2. Phases' = [e \in Event |-> IF e \in P!Pruned THEN "absent" ELSE Phases[e]]
  BY DEF P!Clean, Phases, PhaseOf
<1>3. P!Pruned \in SUBSET {e \in Event : Phases[e] = "over"}
  BY <1>1
<1>4. L!Forget
  BY <1>2, <1>3 DEF L!Forget, Phases
<1> QED BY <1>4 DEF L!Next

\* A message that is cancelled is waiting or shown, or has ended since the
\* call read it.
LEMMA CancelFinishes ==
  ASSUME P!TypeOK, P!PendingInv, Plain, NEW h \in Handle, P!Cancel(h)
  PROVE  L!Next \/ UNCHANGED Phases
<1> DEFINE e == call[h].event
<1>1. e \in Event /\ status[e] # "Absent" /\ call[h].incoming \in P!CancelReason
  BY CallType DEF P!Cancel, P!PendingInv
<1>2. Phases' = [Phases EXCEPT ![e] = "over"]
  BY <1>1, CancelAlone, OnePhase DEF PhaseOf, P!CancelReason
<1>3. CASE status[e] \in {"Scheduled", "Active"}
  <2>1. L!Finish(e)
    BY <1>1, <1>2, <1>3 DEF L!Finish, L!Move, Phases, PhaseOf
  <2> QED BY <1>1, <2>1 DEF L!Next
<1>4. CASE status[e] \notin {"Scheduled", "Active"}
  BY <1>1, <1>2, <1>4 DEF Phases, PhaseOf
<1> QED BY <1>3, <1>4

\* A message that is stored was not there.
LEMMA StoreArrives ==
  ASSUME P!TypeOK, P!PendingInv, NEW h \in Handle, NEW s, NEW t,
         P!Store(h, s, t)
  PROVE  L!Next
<1> DEFINE e == call[h].event
<1>1. /\ e \in Event /\ status[e] = "Absent"
      /\ call[h].incoming \in {"Scheduled", "Active"}
  BY CallType DEF P!Store, P!Inserting, P!PendingInv, P!EventStatusType
<1>2. Phases' = [Phases EXCEPT ![e] = PhaseOf(call[h].incoming)]
  BY <1>1, StoreAlone, OnePhase
<1>3. L!Arrive(e) \/ L!ArriveStarted(e)
  BY <1>1, <1>2 DEF L!Arrive, L!ArriveStarted, L!Move, Phases, PhaseOf
<1> QED BY <1>1, <1>3 DEF L!Next

LEMMA Simulation ==
  ASSUME P!IInv, Plain, [P!Next]_P!vars
  PROVE  [L!Next]_Phases
<1> USE DEF P!IInv
<1>1. ASSUME NEW h \in Handle, P!Finish(h) PROVE [L!Next]_Phases
  <2>1. CASE P!RejectWithdrawn(h) \/ P!RejectExpired(h)
    BY <2>1 DEF P!RejectWithdrawn, P!RejectExpired, P!events, Phases
  <2> QED BY <1>1, <2>1, CancelFinishes, StoreArrives DEF P!Finish
<1>2. CASE UNCHANGED status
  BY <1>2 DEF Phases
<1> QED BY <1>1, <1>2, StartsWaiting, EndsShown, CleanForgets
        DEF P!Next, P!Tick, P!Shutdown, P!TaskExit, P!Read, P!UpdateTime,
            P!events, P!vars

\* The messaging schedule implements the lifecycle of independent messages: no
\* message moves another, returns to an earlier phase, or comes again before it
\* was forgotten; if messages come through one handle each and the server
\* supersedes none.
THEOREM ImplementsLifecycle ==
  P!FeedsDisjoint /\ NoneWithdrawnSo => (Spec => FollowsLifecycle)
<1> SUFFICES ASSUME P!FeedsDisjoint, NoneWithdrawnSo
             PROVE  Spec => FollowsLifecycle
  OBVIOUS
<1>1. P!Spec => []P!IInv
  BY P!Inductive, Assumptions, PTL
<1>2. P!Init => Plain
  BY DEF P!Init, Plain
<1>3. P!IInv /\ Plain /\ [P!Next]_P!vars => Plain'
  BY NextPlain DEF P!IInv
<1>4. P!Init => L!Init
  BY DEF P!Init, L!Init, PhaseOf
<1>5. P!IInv /\ Plain /\ [P!Next]_P!vars
        => [L!Next]_[e \in Event |-> PhaseOf(status[e])]
  BY Simulation DEF Phases
<1> QED BY <1>1, <1>2, <1>3, <1>4, <1>5, SameSpec, PTL
        DEF P!Spec, FollowsLifecycle, L!Spec
=============================================================================
