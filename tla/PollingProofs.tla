--------------------------- MODULE PollingProofs ---------------------------
(***************************************************************************)
(* Theorems about Polling, for any jobs and rates: its type, and that no   *)
(* poll is ever further away than its interval, that the poll task leaves  *)
(* nothing behind, and that force_polls keeps the lock.                    *)
(***************************************************************************)
EXTENDS Polling, TLAPS, WellFoundedInduction

\* Also a job that waits to be pushed is due within its interval.
Near == \A j \in polls \cup pushing : next[j] <= now + interval[j]

\* Init gives the types.
LEMMA InitType == Init => TypeOK /\ Near
  BY IntervalAssumption DEF Init, TypeOK, Near

\* A poll is put back one interval from now, others are left alone.
LEMMA ExecuteInv ==
  ASSUME TypeOK, Near, NEW j \in Job, Execute(j)
  PROVE  TypeOK' /\ Near'
<1>1. interval[j] \in Nat /\ now \in Nat
  BY DEF TypeOK
<1>2. TypeOK'
  BY <1>1 DEF Execute, TypeOK
<1>3. \A k \in polls \cup pushing :
        next'[k] = IF k = j THEN now + interval[j] ELSE next[k]
  BY DEF Execute, TypeOK
<1> QED BY <1>1, <1>2, <1>3 DEF Execute, Near, TypeOK

\* The poll task and force_polls only ever run a job or move the lock.
LEMMA WorkerInv ==
  ASSUME TypeOK, Near, PollTask \/ ForcePolls
  PROVE  TypeOK' /\ Near'
<1>1. ASSUME NEW j \in Job, PollTaskRun(j) \/ ForceRun(j)
      PROVE  TypeOK' /\ Near'
  BY <1>1, ExecuteInv DEF PollTaskRun, ForceRun
<1>2. CASE PollTaskTake \/ PollTaskRelease \/ ForceTake \/ ForceRelease
  BY <1>2 DEF PollTaskTake, PollTaskRelease, ForceTake, ForceRelease, Take,
              Release, jobs, TypeOK, Near
<1> QED BY <1>1, <1>2 DEF PollTask, ForcePolls

\* A job that is started is due within its interval, however long it waits for
\* the lock; others are left alone.
LEMMA StartInv ==
  ASSUME TypeOK, Near, NEW j \in Job, start_poll(j) \/ push(j)
  PROVE  TypeOK' /\ Near'
<1>1. interval[j] \in Nat /\ now \in Nat
  BY DEF TypeOK
<1>2. CASE start_poll(j)
  <2>1. TypeOK'
    BY <1>1, <1>2 DEF start_poll, TypeOK
  <2>2. \A k \in polls \cup pushing \cup {j} :
          next'[k] = IF k = j THEN now + interval[j] ELSE next[k]
    BY <1>2 DEF start_poll, TypeOK
  <2> QED BY <1>1, <1>2, <2>1, <2>2 DEF start_poll, Near, TypeOK
<1>3. CASE push(j)
  BY <1>3 DEF push, TypeOK, Near
<1> QED BY <1>2, <1>3

\* A change of rate brings the next poll forward when it was too far away.
LEMMA UpdateInv ==
  ASSUME TypeOK, Near, NEW j \in Job, NEW rate \in Rate,
         update_poll_rate(j, rate)
  PROVE  TypeOK' /\ Near'
<1>1. rate \in Nat /\ now \in Nat /\ next[j] \in Nat
  BY IntervalAssumption DEF TypeOK
<1>2. /\ UpdatedNext(next[j], rate) \in Nat
      /\ UpdatedNext(next[j], rate) <= now + rate
  BY <1>1 DEF UpdatedNext
<1>3. TypeOK'
  BY <1>1, <1>2 DEF update_poll_rate, TypeOK
<1>4. \A k \in polls \cup pushing :
        /\ interval'[k] = IF k = j THEN rate ELSE interval[k]
        /\ next'[k] = IF k = j THEN UpdatedNext(next[j], rate) ELSE next[k]
  BY DEF update_poll_rate, TypeOK
<1> QED BY <1>2, <1>3, <1>4 DEF update_poll_rate, Near

\* The two invariants are inductive together.
LEMMA NextInv ==
  ASSUME TypeOK, Near, [Next]_vars
  PROVE  TypeOK' /\ Near'
<1>1. CASE Tick
  BY <1>1 DEF Tick, jobs, TypeOK, Near
<1>2. CASE PollTask \/ ForcePolls
  BY <1>2, WorkerInv
<1>3. ASSUME NEW j \in Job, start_poll(j) \/ push(j) PROVE TypeOK' /\ Near'
  BY <1>3, StartInv
<1>4. ASSUME NEW j \in Job, cancel(j) PROVE TypeOK' /\ Near'
  BY <1>4 DEF cancel, TypeOK, Near
<1>5. CASE cancel_polls
  BY <1>5 DEF cancel_polls, TypeOK, Near
<1>6. ASSUME NEW j \in Job, NEW rate \in Rate, update_poll_rate(j, rate)
      PROVE  TypeOK' /\ Near'
  BY <1>6, UpdateInv
<1>7. CASE UNCHANGED vars
  BY <1>7 DEF vars, jobs, TypeOK, Near
<1> QED BY <1>1, <1>2, <1>3, <1>4, <1>5, <1>6, <1>7 DEF Next

-----------------------------------------------------------------------------

\* Every variable keeps its type, and no job is in the queue that was not
\* started: what cancel, cancel_polls or a change of rate leaves is never a
\* job that start_poll did not push.
THEOREM TypeCorrect == Spec => []TypeOK
  BY InitType, NextInv, PTL DEF Spec

\* However rates are changed, polls are forced, and the lock is held or waited
\* for while time passes, every job is polled again within its interval from now.
THEOREM NeverFar == Spec => []WithinInterval
<1>1. Near => WithinInterval
  BY DEF Near, WithinInterval
<1> QED BY <1>1, InitType, NextInv, PTL DEF Spec

\* A queue that is not empty has an earliest job.
LEMMA TopExists ==
  ASSUME TypeOK, polls # {}
  PROVE  Top # {}
<1> DEFINE times == {next[j] : j \in polls}
           less == {p \in Nat \X Nat : p[1] < p[2]}
<1>1. times \subseteq Nat /\ times # {}
  BY DEF TypeOK
<1>2. IsWellFoundedOn(less, Nat)
  <2>1. OpToRel(<, Nat) = less
    BY Zenon DEF OpToRel
  <2> QED BY <2>1, NatLessThanWellFounded, Zenon
<1>3. PICK t \in times : \A u \in times : ~(<<u, t>> \in less)
  <2> HIDE DEF less, times
  <2> QED BY <1>1, <1>2, WFMin
<1>4. ASSUME NEW u \in times PROVE t <= u
  <2>1. t \in Nat /\ u \in Nat
    BY <1>1
  <2>2. \A a, b \in Nat : a < b => <<a, b>> \in less
    OBVIOUS
  <2>3. <<u, t>> \notin less
    BY <1>3
  <2> HIDE DEF less
  <2> QED BY <2>1, <2>2, <2>3
<1> QED BY <1>4 DEF Top

\* The poll task leaves nothing behind: it looks only at the top of the heap,
\* but an earliest job there is, so that none is due when that one is not.
THEOREM NothingLeft == Spec => CaughtUp
<1>1. ASSUME TypeOK, [Next]_vars, holder = "poll_task", holder' # "poll_task",
             NEW j \in polls
      PROVE  ~Due(j)
  <2>1. \A k \in Top : ~Due(k)
    BY <1>1 DEF Next, Tick, PollTask, PollTaskTake, PollTaskRun, PollTaskRelease,
                ForcePolls, ForceTake, ForceRun, ForceRelease, Take, Release,
                Execute, start_poll, push, cancel, cancel_polls,
                update_poll_rate, vars
  <2>2. PICK k \in Top : TRUE
    BY <1>1, TopExists
  <2>3. next[k] <= next[j] /\ ~(next[k] < now)
    BY <2>1, <2>2 DEF Top, Due
  <2>4. next[k] \in Nat /\ next[j] \in Nat /\ now \in Nat
    BY <1>1, <2>2 DEF TypeOK, Top
  <2> QED BY <2>3, <2>4 DEF Due
<1>2. TypeOK /\ [Next]_vars
        => [holder = "poll_task" /\ holder' # "poll_task"
              => \A j \in polls : ~Due(j)]_vars
  BY <1>1
<1> QED BY <1>2, TypeCorrect, PTL DEF Spec, CaughtUp

\* force_polls is in its loop, and there is a job.
Forcing == holder = "force_polls" /\ polls # {}

\* force_polls never returns once it has taken the lock while a job is queued:
\* it pushes back what it pops, so that the queue is never empty, nobody else
\* gets the lock, and the poll task never polls again.  What the run ForcePolls
\* finds on one instance holds of every one.
THEOREM ForceNeverReturns == Spec => [](Forcing => []Forcing)
<1>1. Forcing /\ [Next]_vars => Forcing'
  BY DEF Forcing, Next, Tick, PollTask, PollTaskTake, PollTaskRun,
         PollTaskRelease, ForcePolls, ForceTake, ForceRun, ForceRelease, Take,
         Release, Execute, start_poll, push, cancel, cancel_polls, update_poll_rate,
         jobs, vars
<1> QED BY <1>1, PTL DEF Spec
=============================================================================
