--------------------------- MODULE PricingProofs ----------------------------
(***************************************************************************)
(* The theorems about PricingSchedule, from those about Schedule and from  *)
(* the fact that intervals of different rate components never meet.        *)
(***************************************************************************)
EXTENDS PricingSchedule, TLAPS

P == INSTANCE HistoryProofs WITH SameTarget <- pricing_supersedes,
                                 OptOutCancels <- FALSE,
                                 RespondExpired <- TRUE

\* What Schedule assumes of its constants.
LEMMA Assumptions ==
  /\ \A e \in Event : P!IsResource(Resource[e])
  /\ Feed \in [Handle -> SUBSET Event]
  /\ Incoming \subseteq P!EventStatusType
  /\ Drift \subseteq Int
  /\ Week \in Nat /\ MaxTime \in Nat
  /\ FALSE \in BOOLEAN /\ TRUE \in BOOLEAN
  /\ ShutdownAt \subseteq Nat
  /\ None \notin Int \X Event /\ None \notin P!Call
  BY PricingAssumption
  DEF S!IsResource, P!IsResource, S!EventStatusType, P!EventStatusType,
      S!Call, P!Call, S!CancelReason, P!CancelReason

\* The schedule of this module and the one the theorems are about are the same
\* instance of Schedule under two names.
LEMMA SameNext == S!Next => P!Next
  BY DEF S!Next, P!Next, S!Tick, P!Tick, S!StartTask, P!StartTask, S!EndTask,
         P!EndTask, S!Clean, P!Clean, S!Shutdown, P!Shutdown, S!Task, P!Task,
         S!TaskExit, P!TaskExit, S!Read, P!Read, S!Finish, P!Finish,
         S!UpdateTime, P!UpdateTime, S!events, P!events, S!outside, P!outside,
         S!Due, P!Due, S!UpdateEvent, P!UpdateEvent, S!AfterAnswer,
         P!AfterAnswer, S!ToResponse, P!ToResponse, S!Pruned, P!Pruned,
         S!Withdraws, P!Withdraws, S!Cancel, P!Cancel, S!RejectWithdrawn,
         P!RejectWithdrawn, S!RejectExpired, P!RejectExpired, S!Inserting,
         P!Inserting, S!RandomStart, P!RandomStart, S!RandomEnd, P!RandomEnd,
         S!Store, P!Store, S!TaskTime, P!TaskTime, S!UpdateNexts,
         P!UpdateNexts, S!Stored, P!Stored, S!CancelReason, P!CancelReason,
         S!Freed, P!Freed, S!HandleTime, P!HandleTime, S!Randomize,
         P!Randomize, S!Losers, P!Losers, S!Winners, P!Winners, S!Nexts,
         P!Nexts, S!InsertNext, P!InsertNext, S!Interrupted, P!Interrupted,
         S!LoopReply, P!LoopReply, S!SupersededReply, P!SupersededReply,
         S!CloneOffset, P!CloneOffset, S!Supersedes, P!Supersedes, S!Overlap,
         P!Overlap, S!Outranks, P!Outranks

LEMMA SameSpec == Spec => P!Spec
<1>1. Init => P!Init
  BY DEF Init, S!Init, P!Init, S!Task, P!Task
<1>2. Next => S!Next
  BY DEF Next, S!Next, S!Finish, pricing_start_task, pricing_end_task, clean_events,
         shutdown, add_event_read, cancel_timetariffinterval, add_event_insert
<1>3. UNCHANGED vars => UNCHANGED P!vars
  BY DEF vars, S!vars, P!vars, S!events, P!events, S!outside, P!outside
<1>4. [Next]_vars => [P!Next]_P!vars
  BY <1>2, <1>3, SameNext
<1> QED BY <1>1, <1>4, PTL DEF Spec, P!Spec

-----------------------------------------------------------------------------
(* Rate components never meet.                                             *)

Apart ==
  /\ \A a, b \in Event :
       a \in superseded_by[b] => Resource[a].program = Resource[b].program
  /\ \A e \in Event : reply[e] # "EventAbortedProgram"

\* What supersedes or is superseded is of the same rate component, and the
\* response for it is not that of another program.
LEMMA SameRate ==
  ASSUME NEW e \in Event, NEW s, NEW t
  PROVE  /\ \A o \in P!Losers(e, s, t) \cup P!Winners(e, s, t) :
              Resource[o].program = Resource[e].program
         /\ \A o \in P!Losers(e, s, t) : \A prev :
              P!SupersededReply(o, prev, e) # "EventAbortedProgram"
         /\ \A o \in P!Winners(e, s, t) : \A prev :
              P!SupersededReply(e, prev, o) # "EventAbortedProgram"
  BY DEF P!Losers, P!Winners, P!Supersedes, pricing_supersedes,
         P!SupersededReply

LEMMA StoreApart ==
  ASSUME P!TypeOK, Apart, NEW h \in Handle, NEW s, NEW t, P!Store(h, s, t)
  PROVE  Apart'
<1> DEFINE e == call[h].event
<1>1. e \in Event
  BY DEF P!TypeOK, P!Store, P!Inserting, P!Call
<1>2. \A a, b \in Event :
        a \in superseded_by'[b] => Resource[a].program = Resource[b].program
  BY <1>1, SameRate DEF P!Store, P!TypeOK, Apart
<1>3. \A o \in Event : reply'[o] # "EventAbortedProgram"
  BY <1>1, SameRate DEF P!Store, P!TypeOK, Apart, P!LoopReply
<1> QED BY <1>2, <1>3 DEF Apart

LEMMA NextApart == P!TypeOK /\ Apart /\ [P!Next]_P!vars => Apart'
<1> SUFFICES ASSUME P!TypeOK, Apart, [P!Next]_P!vars PROVE Apart'
  OBVIOUS
<1>1. CASE P!StartTask
  BY <1>1 DEF P!StartTask, P!TypeOK, Apart
<1>2. CASE P!EndTask
  BY <1>2 DEF P!EndTask, P!TypeOK, Apart, P!ToResponse
<1>3. CASE P!Clean
  BY <1>3 DEF P!Clean, P!TypeOK, Apart, P!outside
<1>4. ASSUME NEW h \in Handle, P!Finish(h) PROVE Apart'
  <2>1. CASE P!Cancel(h)
    BY <2>1 DEF P!Cancel, P!TypeOK, P!Call, Apart, P!ToResponse,
                P!EventStatusType, P!CancelReason
  <2>2. CASE P!RejectWithdrawn(h) \/ P!RejectExpired(h)
    BY <2>2 DEF P!RejectWithdrawn, P!RejectExpired, P!TypeOK, Apart,
                P!ToResponse, P!CancelReason, P!events
  <2> QED BY <1>4, <2>1, <2>2, StoreApart DEF P!Finish
<1>5. CASE UNCHANGED <<superseded_by, reply>>
  BY <1>5 DEF Apart
<1> QED BY <1>1, <1>2, <1>3, <1>4, <1>5
        DEF P!Next, P!Tick, P!Shutdown, P!TaskExit, P!Read, P!UpdateTime,
            P!events, P!outside, P!vars

LEMMA AlwaysApart == Spec => [](P!TypeOK /\ Apart)
<1>1. P!Spec => []P!TypeOK
  BY P!TypeCorrect, Assumptions, PTL
<1>2. P!Init => Apart
  BY DEF P!Init, Apart
<1> QED BY <1>1, <1>2, NextApart, SameSpec, PTL DEF P!Spec

-----------------------------------------------------------------------------
(* The theorems.                                                           *)

\* Two intervals of one rate component that overlap are never both left to
\* run, one of them outranking the other, and those of different components
\* never displace one another; with disjoint feeds.
THEOREM OneTariff == P!FeedsDisjoint => (Spec => []OneTariffPerRate)
<1> SUFFICES ASSUME P!FeedsDisjoint PROVE Spec => []OneTariffPerRate
  OBVIOUS
<1>1. P!Spec => []P!NoConflict
  BY P!ConflictFree, Assumptions, PTL
<1>2. P!NoConflict /\ P!TypeOK /\ Apart => OneTariffPerRate
  <2> SUFFICES ASSUME P!NoConflict, P!TypeOK, Apart,
                      NEW a \in S!Stored, NEW b \in S!Stored,
                      Resource[a].program = Resource[b].program,
                      S!Live(a), S!Live(b),
                      S!Overlap(start[a], end[a], start[b], end[b])
               PROVE  \/ ~S!Outranks(a, b) /\ ~S!Outranks(b, a)
                      \/ a \in cancelled \/ b \in cancelled
    BY DEF OneTariffPerRate, Apart, S!Stored
  <2>1. a \in P!Stored /\ b \in P!Stored /\ P!Live(a) /\ P!Live(b)
    BY DEF S!Stored, P!Stored, S!Live, P!Live
  <2>2. /\ P!Overlap(start[a], end[a], start[b], end[b])
        /\ P!Overlap(start[b], end[b], start[a], end[a])
    BY <2>1 DEF S!Overlap, P!Overlap, P!Stored, P!TypeOK
  <2>3. /\ <<a, b>> \in pricing_supersedes /\ <<b, a>> \in pricing_supersedes
        /\ S!Outranks(a, b) <=> P!Outranks(a, b)
        /\ S!Outranks(b, a) <=> P!Outranks(b, a)
    BY DEF pricing_supersedes, S!Stored, S!Outranks, P!Outranks
  <2> QED BY <2>1, <2>2, <2>3 DEF P!NoConflict, P!Supersedes
<1> QED BY <1>1, <1>2, AlwaysApart, SameSpec, PTL

\* The server knows the state of every interval and never hears that one was
\* aborted by another program, if intervals arrive scheduled and through one
\* handle each.
THEOREM ServerToldSo ==
  P!FeedsDisjoint /\ P!ArriveScheduled => (Spec => []ServerInSync)
<1> SUFFICES ASSUME P!FeedsDisjoint, P!ArriveScheduled
             PROVE  Spec => []ServerInSync
  OBVIOUS
<1>1. P!Spec => []P!ServerInSync
  BY P!ServerToldSo, Assumptions, PTL
<1>2. P!ServerInSync /\ Apart => ServerInSync
  BY DEF P!ServerInSync, S!ServerInSync, Apart, ServerInSync, P!Stored,
         S!Stored, P!Cancelled, S!Cancelled
<1> QED BY <1>1, <1>2, AlwaysApart, SameSpec, PTL

\* No interval is started twice, although the start task of pricing.rs keeps
\* as active what the client has opted out of: under the conditions of P!Proviso.
THEOREM StartsOnce == P!Proviso => (Spec => []S!NoRestart)
<1> SUFFICES ASSUME P!Proviso PROVE Spec => []S!NoRestart
  OBVIOUS
<1>1. P!Spec => []P!NoRestart
  BY P!StartsOnce, Assumptions, PTL
<1>2. P!NoRestart => S!NoRestart
  BY DEF P!NoRestart, S!NoRestart
<1> QED BY <1>1, <1>2, SameSpec, PTL

\* Every interval that runs was announced to the client, and what the client was
\* told to run it runs until it is told otherwise or the server withdraws it;
\* under the same conditions.
THEOREM ClientToldSo == P!Proviso => (Spec => []S!ClientInSync)
<1> SUFFICES ASSUME P!Proviso PROVE Spec => []S!ClientInSync
  OBVIOUS
<1>1. P!Spec => []P!ClientInSync
  BY P!ClientToldSo, Assumptions, PTL
<1>2. P!ClientInSync => S!ClientInSync
  BY DEF P!ClientInSync, S!ClientInSync, P!Stored, S!Stored
<1> QED BY <1>1, <1>2, SameSpec, PTL
=============================================================================
