------------------------------ MODULE Polling ------------------------------
(***************************************************************************)
(* The poll queue of client.rs: jobs ordered by the instant of their next  *)
(* poll, behind one Mutex that the poll task, force_polls and the handles  *)
(* of the jobs share.  The poll task and force_polls keep the lock while   *)
(* they work through the queue, one job a step; time passes in between.    *)
(* A poll is a GET that is spawned and not waited for.                     *)
(***************************************************************************)
EXTENDS Integers

CONSTANTS
  Job,       \* the polls that are ever started
  Interval,  \* Interval[j]: the poll rate job j is started with
  Rate,      \* the rates update_poll_rate may give
  MayForce,  \* bound: whether force_polls is ever called
  MaxTime    \* bound: the clock stops here

ASSUME IntervalAssumption ==
  /\ Interval \in [Job -> Nat]
  /\ Rate \subseteq Nat
  /\ MayForce \in BOOLEAN /\ MaxTime \in Nat

VARIABLES
  now,       \* Instant::now()
  polls,     \* the jobs in the queue
  pushing,   \* the jobs that start_poll has made and not yet pushed
  started,   \* the jobs whose id has been given out
  interval,  \* the interval of each job
  next,      \* when each job is to be polled next
  holder     \* who holds the lock: "nobody", "poll_task" or "force_polls"

jobs == <<polls, pushing, started, interval, next>>
vars == <<now, jobs, holder>>

\* The types of the variables; a job in the queue has been started and is no
\* longer waiting to be pushed.
TypeOK ==
  /\ now \in Nat
  /\ polls \cup pushing \subseteq started
  /\ polls \cap pushing = {}
  /\ started \subseteq Job
  /\ interval \in [Job -> Nat]
  /\ next \in [Job -> Nat]
  /\ holder \in {"nobody", "poll_task", "force_polls"}

Init ==
  /\ now = 0
  /\ polls = {}
  /\ pushing = {}
  /\ started = {}
  /\ interval = Interval
  /\ next = [j \in Job |-> 0]
  /\ holder = "nobody"

\* The order of the heap, not reversed.
LatestFirst == {j \in polls : \A k \in polls : next[j] >= next[k]}

\* The jobs that may be on top of the heap: BinaryHeap is a max-heap, and Ord
\* for PollJob is reversed.
Top == {j \in polls : \A k \in polls : next[j] <= next[k]}

Due(j) == next[j] < now

\* Pop j, spawn its GET, push it back one interval from now.
Execute(j) ==
  /\ next' = [next EXCEPT ![j] = now + interval[j]]
  /\ UNCHANGED <<now, polls, pushing, started, interval, holder>>

Take(who) ==
  /\ holder = "nobody"
  /\ holder' = who
  /\ UNCHANGED <<now, jobs>>

Release(who) ==
  /\ holder = who
  /\ holder' = "nobody"
  /\ UNCHANGED <<now, jobs>>

\* poll_task, each time it wakes: everything that is due.
PollTaskTake == Take("poll_task")
PollTaskRun(j) == holder = "poll_task" /\ j \in Top /\ Due(j) /\ Execute(j)
PollTaskRelease ==
  /\ \A j \in Top : ~Due(j)
  /\ Release("poll_task")

\* force_polls: while there is a job on top of the queue.
ForceTake == MayForce /\ Take("force_polls")
ForceRun(j) == holder = "force_polls" /\ j \in Top /\ Execute(j)
ForceRelease == polls = {} /\ Release("force_polls")

\* The job is made, and its first poll set, before the lock is waited for.
start_poll(j) ==
  /\ j \notin started
  /\ started' = started \cup {j}
  /\ pushing' = pushing \cup {j}
  /\ next' = [next EXCEPT ![j] = now + interval[j]]
  /\ UNCHANGED <<now, polls, interval, holder>>

push(j) ==
  /\ holder = "nobody"
  /\ j \in pushing
  /\ polls' = polls \cup {j}
  /\ pushing' = pushing \ {j}
  /\ UNCHANGED <<now, started, interval, next, holder>>

\* PollHandle::cancel consumes the handle; the job may be gone already.
cancel(j) ==
  /\ holder = "nobody"
  /\ j \in polls
  /\ polls' = polls \ {j}
  /\ UNCHANGED <<now, pushing, started, interval, next, holder>>

cancel_polls ==
  /\ holder = "nobody"
  /\ polls # {}
  /\ polls' = {}
  /\ UNCHANGED <<now, pushing, started, interval, next, holder>>

\* The next poll after a change of rate, without the comparison.
KeptNext(old, rate) == old

\* The earlier of the old instant and one new interval from now.
UpdatedNext(old, rate) == IF old > now + rate THEN now + rate ELSE old

\* A change of rate that pushes the job when it does not find it.
update_or_start(j, rate) ==
  /\ holder = "nobody"
  /\ polls' = polls \cup {j}
  /\ interval' = [interval EXCEPT ![j] = rate]
  /\ next' = [next EXCEPT ![j] = UpdatedNext(next[j], rate)]
  /\ UNCHANGED <<now, pushing, started, holder>>

\* Nothing changes for a job that is gone.
update_poll_rate(j, rate) ==
  /\ holder = "nobody"
  /\ j \in polls
  /\ interval' = [interval EXCEPT ![j] = rate]
  /\ next' = [next EXCEPT ![j] = UpdatedNext(next[j], rate)]
  /\ UNCHANGED <<now, polls, pushing, started, holder>>

Tick ==
  /\ now < MaxTime
  /\ now' = now + 1
  /\ UNCHANGED <<jobs, holder>>

PollTask == PollTaskTake \/ (\E j \in Job : PollTaskRun(j)) \/ PollTaskRelease
ForcePolls == ForceTake \/ (\E j \in Job : ForceRun(j)) \/ ForceRelease

Next ==
  \/ Tick
  \/ PollTask
  \/ ForcePolls
  \/ \E j \in Job : start_poll(j) \/ push(j) \/ cancel(j)
  \/ cancel_polls
  \/ \E j \in Job, rate \in Rate : update_poll_rate(j, rate)

Spec == Init /\ [][Next]_vars

\* The poll task wakes at every tick and tokio's Mutex is fair; a caller that
\* has the lock goes on.
Fairness ==
  /\ WF_vars(Tick)
  /\ WF_vars(PollTask)
  /\ WF_vars(holder = "force_polls" /\ ForcePolls)

FairSpec == Spec /\ Fairness

\* No poll is further away than one interval, whatever the rate was changed
\* to and from, and however often.
WithinInterval == \A j \in polls : next[j] <= now + interval[j]

\* The poll task leaves nothing behind: when it gives the lock back no job in
\* the queue is due, although time passes while it works and it looks only at
\* the top of the heap.
CaughtUp ==
  [][holder = "poll_task" /\ holder' # "poll_task"
       => \A j \in polls : ~Due(j)]_vars

\* No job starves: one that is due is polled or cancelled, however its rate
\* compares with the rates of the others.
EventuallyPolled == \A j \in Job : j \in polls /\ Due(j) ~> j \notin polls \/ ~Due(j)

\* force_polls runs the callbacks of all routes, and returns: whoever takes
\* the lock gives it back.
ForceReturns == holder = "force_polls" ~> holder = "nobody"
=============================================================================
