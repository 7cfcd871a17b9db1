----------------------------- MODULE DRLCProofs -----------------------------
(***************************************************************************)
(* The theorems about DRLCSchedule, from those about Schedule.             *)
(***************************************************************************)
EXTENDS DRLCSchedule, TLAPS

P == INSTANCE HistoryProofs WITH SameTarget <- drlc_supersedes,
                                 OptOutCancels <- FALSE,
                                 RespondExpired <- TRUE

\* What Schedule assumes of its constants.
LEMMA Assumptions ==
  /\ \A e \in Event : P!IsResource(Resource[e])
  /\ Feed \in [Handle -> SUBSET Event]
  /\ Incoming \subseteq P!EventStatusType
  /\ Drift \subseteq Int
  /\ Week \in Nat /\ MaxTime \in Nat
  /\ FALSE \in BOOLEAN /\ TRUE \in BOOLEAN
  /\ ShutdownAt \subseteq Nat
  /\ None \notin Int \X Event /\ None \notin P!Call
  BY DRLCAssumption
  DEF S!IsResource, P!IsResource, S!EventStatusType, P!EventStatusType,
      S!Call, P!Call, S!CancelReason, P!CancelReason

\* The schedule of this module and the one the theorems are about are the same
\* instance of Schedule under two names.
LEMMA SameNext == S!Next => P!Next
  BY DEF S!Next, P!Next, S!Tick, P!Tick, S!StartTask, P!StartTask, S!EndTask,
         P!EndTask, S!Clean, P!Clean, S!Shutdown, P!Shutdown, S!Task, P!Task,
         S!TaskExit, P!TaskExit, S!Read, P!Read, S!Finish, P!Finish,
         S!UpdateTime, P!UpdateTime, S!events, P!events, S!outside, P!outside,
         S!Due, P!Due, S!UpdateEvent, P!UpdateEvent, S!AfterAnswer,
         P!AfterAnswer, S!ToResponse, P!ToResponse, S!Pruned, P!Pruned,
         S!Withdraws, P!Withdraws, S!Cancel, P!Cancel, S!RejectWithdrawn,
         P!RejectWithdrawn, S!RejectExpired, P!RejectExpired, S!Inserting,
         P!Inserting, S!RandomStart, P!RandomStart, S!RandomEnd, P!RandomEnd,
         S!Store, P!Store, S!TaskTime, P!TaskTime, S!UpdateNexts,
         P!UpdateNexts, S!Stored, P!Stored, S!CancelReason, P!CancelReason,
         S!Freed, P!Freed, S!HandleTime, P!HandleTime, S!Randomize,
         P!Randomize, S!Losers, P!Losers, S!Winners, P!Winners, S!Nexts,
         P!Nexts, S!InsertNext, P!InsertNext, S!Interrupted, P!Interrupted,
         S!LoopReply, P!LoopReply, S!SupersededReply, P!SupersededReply,
         S!CloneOffset, P!CloneOffset, S!Supersedes, P!Supersedes, S!Overlap,
         P!Overlap, S!Outranks, P!Outranks

LEMMA SameSpec == Spec => P!Spec
<1>1. Init => P!Init
  BY DEF Init, S!Init, P!Init, S!Task, P!Task
<1>2. Next => S!Next
  BY DEF Next, S!Next, S!Finish, drlc_start_task, drlc_end_task, clean_events,
         shutdown, add_event_read, cancel_enddevicecontrol, add_event_insert
<1>3. UNCHANGED vars => UNCHANGED P!vars
  BY DEF vars, S!vars, P!vars, S!events, P!events, S!outside, P!outside
<1>4. [Next]_vars => [P!Next]_P!vars
  BY <1>2, <1>3, SameNext
<1> QED BY <1>1, <1>4, PTL DEF Spec, P!Spec

\* Two controls of one device that overlap are never both left to run, one of
\* them outranking the other, whatever their programs and servers, provided no
\* control reaches the schedule through two handles.
THEOREM DirectControl == P!FeedsDisjoint => (Spec => []OneControl)
<1> SUFFICES ASSUME P!FeedsDisjoint PROVE Spec => []OneControl
  OBVIOUS
<1>1. P!Spec => []P!NoConflict
  BY P!ConflictFree, Assumptions, PTL
<1>2. P!Spec => []P!TypeOK
  BY P!TypeCorrect, Assumptions, PTL
<1>3. P!NoConflict /\ P!TypeOK => OneControl
  <2> SUFFICES ASSUME P!NoConflict, P!TypeOK,
                      NEW a \in S!Stored, NEW b \in S!Stored,
                      S!Live(a), S!Live(b),
                      S!Overlap(start[a], end[a], start[b], end[b])
               PROVE  \/ ~S!Outranks(a, b) /\ ~S!Outranks(b, a)
                      \/ a \in cancelled \/ b \in cancelled
    BY DEF OneControl
  <2>1. a \in P!Stored /\ b \in P!Stored /\ P!Live(a) /\ P!Live(b)
    BY DEF S!Stored, P!Stored, S!Live, P!Live
  <2>2. /\ P!Overlap(start[a], end[a], start[b], end[b])
        /\ P!Overlap(start[b], end[b], start[a], end[a])
    BY <2>1 DEF S!Overlap, P!Overlap, P!Stored, P!TypeOK
  <2>3. /\ <<a, b>> \in drlc_supersedes /\ <<b, a>> \in drlc_supersedes
        /\ S!Outranks(a, b) <=> P!Outranks(a, b)
        /\ S!Outranks(b, a) <=> P!Outranks(b, a)
    BY DEF drlc_supersedes, S!Stored, S!Outranks, P!Outranks
  <2> QED BY <2>1, <2>2, <2>3 DEF P!NoConflict, P!Supersedes
<1> QED BY <1>1, <1>2, <1>3, SameSpec, PTL

\* The pointers are valid whatever windows are drawn, one that ends before it
\* starts too, and for controls that arrive active; under the same proviso.
THEOREM NextsCorrect == P!FeedsDisjoint => (Spec => []NextsValid)
<1> SUFFICES ASSUME P!FeedsDisjoint PROVE Spec => []NextsValid
  OBVIOUS
<1>1. P!Spec => []P!NextsValid
  BY P!NextsCorrect, Assumptions, PTL
<1>2. P!NextsValid => NextsValid
  BY DEF P!NextsValid, NextsValid, S!NextsValid, P!Nexts, S!Nexts
<1> QED BY <1>1, <1>2, SameSpec, PTL

\* No control is started twice, although the start task of drlc.rs keeps as
\* active what the client has opted out of: under the conditions of P!Proviso.
THEOREM StartsOnce == P!Proviso => (Spec => []S!NoRestart)
<1> SUFFICES ASSUME P!Proviso PROVE Spec => []S!NoRestart
  OBVIOUS
<1>1. P!Spec => []P!NoRestart
  BY P!StartsOnce, Assumptions, PTL
<1>2. P!NoRestart => S!NoRestart
  BY DEF P!NoRestart, S!NoRestart
<1> QED BY <1>1, <1>2, SameSpec, PTL

\* Every control that runs was announced to the client, and what the client was
\* told to run it runs until it is told otherwise or the server withdraws it;
\* under the same conditions.
THEOREM ClientToldSo == P!Proviso => (Spec => []S!ClientInSync)
<1> SUFFICES ASSUME P!Proviso PROVE Spec => []S!ClientInSync
  OBVIOUS
<1>1. P!Spec => []P!ClientInSync
  BY P!ClientToldSo, Assumptions, PTL
<1>2. P!ClientInSync => S!ClientInSync
  BY DEF P!ClientInSync, S!ClientInSync, P!Stored, S!Stored
<1> QED BY <1>1, <1>2, SameSpec, PTL
=============================================================================
