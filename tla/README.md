# A model of sep2_client

TLA+ modules, TLC configurations and TLAPS proofs for `sep2_client`, an
IEEE 2030.5 client library in asynchronous Rust. Everything is translated from
`src/sep2_client/src`; `PROJECT.json` maps each definition to its lines.

## 1. Inventory

| Component | State | Operations | Concurrency | What makes it correct |
|---|---|---|---|---|
| Event schedule (`event.rs`) with DER (`der.rs`) | map of `EventInstance`s, `next_start`, `next_end`, one time offset per clone, shutdown broadcast | `add_event`, `update_time`, `shutdown`; start, end and clean tasks | three tasks and any number of handles share one `RwLock`; `add_event` gives up the read lock before it takes the write lock; the handler and the response POST run under the write lock (downgraded to a read lock in some places) | pointers valid; competing events never both left to run; superseded events given back in time and once; the client and the server told what is so |
| DRLC (`drlc.rs`) | same | same, any two controls compete, opt-outs ignored | same | one control of the device |
| Pricing (`pricing.rs`) | same | same, the rate component is the program | same | one tariff for each rate component |
| Messaging (`messaging.rs`) | same | same, nothing competes, no randomisation, no response when expired | same | messages independent of one another, each shown and ended |
| Poll queue (`client.rs`) | `BinaryHeap` of jobs ordered by instant, id counter | `start_poll`, `cancel`, `cancel_polls`, `update_poll_rate`, `force_polls`; poll task | one `Mutex`; GETs are spawned and not waited for | no job starves or waits longer than its interval; forced polls return |
| Requests and responses (`client.rs`) | connection pool | `get`, `post`, `put`, `delete`, `send_*_response` | called by tasks under the schedule lock | a filtered or lost response never makes the server believe what is not so, beyond what the loss explains |
| DER client (`examples/der_client.rs`) | a poll, a channel, a task with the list it works on | `poll_derprograms`, `process_derpl_task` | the poll, the task and the schedule run beside one another; what was fetched is old when it is added | what the server publishes arrives, what it withdraws stops |
| Notification server (`pubsub.rs`) | routes, set of connection handlers | `add`, `with_https`, `run` | accept loop, one handler per connection, shutdown future | one bad connection does not stop the others; an answer of success is true; nothing runs on after shutdown |
| Time (`time.rs`) | process-wide offset | `current_time`, `update_time_offset`, `sleep_until` | one atomic | no schedule reads the process-wide offset |
| Device, security, TLS, flow reservation | plain data, pure functions, configuration, an empty interface | - | - | not modelled, see section 8 |
| Test server, tests, reports | - | - | - | read for what they promise |

How they meet: a poll or a notification hands a resource to the application,
which calls `add_event` on a handle; the schedule calls the application's
handler on each change it has to know, and `Client::send_*_response` on each
change the server has to know. `add_event` is also how a cancellation arrives:
the server changes `current_status` and the next retrieval carries it.

The behaviours that are hard to test are listed under "hazards" in
`PROJECT.json`, each at its line with the properties that would catch it.

## 2. Modules

| Module | Models | Used by |
|---|---|---|
| `Schedule` | `event.rs` and `der.rs` | the three below, `MCSchedule`, `ScheduleProofs` |
| `DRLCSchedule` | `drlc.rs`, an instance of `Schedule` | `MCDRLC` |
| `PricingSchedule` | `pricing.rs`, an instance of `Schedule` | `MCPricing` |
| `MessagingSchedule` | `messaging.rs`, an instance of `Schedule`; refines `Lifecycle` | `MCMessaging` |
| `Notices` | abstract: what the handler may be told of each event | `Schedule` |
| `Lifecycle` | abstract: what a schedule without supersession promises of each event | `MessagingSchedule` |
| `Polling` | the poll queue of `client.rs` | `MCPolling` |
| `NotifServer` | the notification server of `pubsub.rs` | `MCNotif`, `NotifProofs` |
| `Responses` | the filters of `send_*_response` in `client.rs` | `Delivery` |
| `Delivery` | `examples/der_client.rs`, the responses that are POSTed and a server, composed with `Schedule` | `MCDelivery`, `DeliveryProofs` |
| `Catalog`, `MC*` | the events, feeds and offsets of the instances | the `.cfg` files |
| `ScheduleProofs`, `HistoryProofs` | theorems about `Schedule` | the proof modules below, but the last two |
| `DRLCProofs`, `PricingProofs`, `MessagingProofs` | theorems about the three instances | - |
| `DeliveryProofs`, `NotifProofs`, `PollingProofs` | theorems about the module each is named for | - |

### Schedule: state and steps

`status`, `start`, `end` and `superseded_by` are the fields of the stored
`EventInstance` of each mRID (`status` "Absent": not in the map); `next_start`
and `next_end` are the two cached pointers; `touched` stands for
`last_updated > last`, the only use of that timestamp, and `last_prune` for
`last`. `time_offset[h]` is the offset of handle `h`; the tasks have their own
clones, whose offset stays zero (`CloneOffset`). `call[h]` is an `add_event`
that has dropped the read lock and not yet taken the write lock. `running` and
`sd` are the tasks that live and the shutdown broadcast. `client` and `reply`
are what the handler was last told and the last response POST attempted, by
event; `cancelled` is a history variable, the stored events the server has
withdrawn.

What a task or a call does under the write lock is one step, because nobody
else reads the map in between. Some paths downgrade the lock before they call
the handler: then a concurrent `add_event` may read the new status before the
handler has returned, but it cannot write before, so the order of the two
changes nothing it can see.

| Step | Code |
|---|---|
| `StartTask`, `EndTask` | one iteration of the task whose pointer is due; an iteration with nothing due does nothing |
| `Clean` | one prune |
| `Read` | `add_event` up to the end of the read lock, when something follows; the arms of the match that only log change nothing |
| `Cancel` | `cancel_dercontrol`: un-supersession, status, pointers, handler, response |
| `RejectWithdrawn`, `RejectExpired` | the two early returns under the write lock |
| `Store` | the supersession loop, `update_nexts`, `insert` |
| `UpdateTime`, `Shutdown`, `TaskExit`, `Tick` | the rest |

Choices that the code leaves open are nondeterministic: the random draws, which
of several earliest events `min_by_key` returns from a `HashMap`, which winner
the loop meets last, when each task wakes, the answer of the handler
(`EventStarted` or an opt-out; `EventNotApplicable` and `EventInvalid` take the
same branch as `EventOptOut`). For the end of an event the handler is assumed
to answer what Table 27 gives for its status. The device category check drops
an event before anything happens, so such an event is simply not in `Feed`.

One guard is not in the code: `Clean` does not prune an event that a pending
cancel has read as live. Between the two lies a wait for a lock, and a prune
only takes what has not changed since the last prune; the code would `unwrap` a
missing event there.

The instances differ only in which pairs compete (`SameTarget`), whether an
opt-out cancels (`OptOutCancels`) and whether an expired event is answered
(`RespondExpired`).

### Polling

`polls` is the heap, `interval` and `next` its jobs, `holder` the owner of the
lock. The poll task and `force_polls` keep the lock while they work through the
queue, one job a step, and the clock may move in between; the other operations
are one step. `started` makes an id usable once, as the counter does.
`start_poll` makes the job, with the instant of its first poll, before it waits
for the lock, and `push` puts it into the queue once it has it: `pushing` holds
the jobs in between, which are as old as the wait was long.

### NotifServer

`run` is one task, so the accept loop is at one place at a time: at the
`select!`, or, with TLS, in the handshake of the connection it has accepted
(`Busy`). `conn[c]` follows a connection of one peer from the kernel's backlog
through the handshake to its handler, which waits for a request (`idle`), for
the rest of a body, or for a callback; a peer may connect again when its
connection has ended. `phase` is how far `run` has come. `ack` is a history
variable: the last request on a connection if it was answered with a success,
with the callback that ran for it. A callback stands for the resource type it
takes, since `add` makes both known together; a body is readable by one
callback or by none.

An accepted connection holds a file descriptor until it has ended, and the
process has `Files` of them for its peers. When they are used up (`Exhausted`)
`accept` fails, the loop logs that and tries again, and the connection goes on
waiting: a step that changes nothing. Other errors of `accept` are about the
connection itself, which is then gone (`AcceptError`).

| Step | Code |
|---|---|
| `Add`, `WithHttps`, `CannotStart`, `Listen` | the builder calls, and `run` up to the loop |
| `Accept`, `AcceptError`, `RunError`, `Break` | one turn of the `select!` and what follows it before the next await |
| `HandshakeDone`, `HandshakeError` | the `accept` of the `SslStream`, awaited in the loop |
| `Refuse`, `Take`, `Reject`, `Call`, `CallbackAnswers` | the router and the route closure, an await at a time |
| `HandlerError`, `Abort`, `Return` | a handler that ends by itself; `JoinSet::shutdown`, which aborts the handlers and waits until each has ended |

### Delivery

`Delivery` extends `Schedule`, and each of its steps is a step of the schedule,
a step of the world around it, or both at once. `server` is the status each
control has on the server, `work` what the task of `der_client.rs` has still to
do: the programs it has not fetched and the controls it has fetched and not
added. A control in `work.items` carries the status it had when it was
fetched, and the server may change it before it is added.

| Step | Code |
|---|---|
| `Publish`, `Activate`, `Withdraw` | the server (external) |
| `TakeList` | a list that a poll has sent through the channel is received by the task |
| `Fetch(p)`, `FetchError` | the GET of the controls of the next program; an error leaves the loop by `?` and drops the programs that are left |
| `Add` | `add_event` for one fetched control, up to the end of the read lock |
| `Respond` | the rest of that call, `Cancels`, or `Receives` and then `Rejects` or `Stores`: the task awaits it before it goes on |
| `Starts`, `Ends`, `Quiet` | the tasks of the schedule |

The POSTs that a control is sent one after the other are steps of their own.
`add_event` for a new control takes the write lock and POSTs `EventReceived`
(`Receives`); `receipt` says that it has
done so and still holds the lock, so that the tasks, another cancel and a prune
wait until it has answered (`Rejects`) or stored and answered (`Stores`, one step
for the new control and those it displaces: all under the lock). `Post`
says what the server hears: the response, if the filter `SendsDER` lets it
pass. A POST about a control of `Losable` may fail, any number of times; it is
never repeated, and `lost` holds the controls about which the last POST did not
get through. `over` is a history variable: the controls of which the server
has heard `EventCompleted` or `EventOptOut`. The channel
between poll and task is not a variable: what it holds is only which lists,
and a list of the same programs is the same list. The default control of a
program without controls is not in the instance.

`Responses` has the filters of DER, which `Delivery` uses, and of pricing, which
leaves out an event that was cancelled or opted out of (section 6). The filter
of DRLC is written as that of DER, and that of messaging as that of pricing but
for `EventNoDisplay`, which the library never sends.

## 3. Runs

Each passing run finishes within three minutes on two workers.

| Run | Instance | States | Shows |
|---|---|---|---|
| `Core` | three events in a chain (mid supersedes low by primacy, high supersedes mid by age), two handles with disjoint feeds, incoming Scheduled, Cancelled, Superseded; clock 0..6, a prune every two ticks, a shutdown at 2 or 3 | 1.6M | `TypeOK`, `NextsValid`, `NoConflict`, `SupersededHasCause`, `NoRestart`, `ClientInSync`, `ServerInSync`, `OptOutIsFinal`, `HandlerProtocol` |
| `DRLC` | two controls of two programs and two servers, which may arrive Active, with drawn windows that overlap, meet at a boundary, lie apart or end before they start; a handle behind, fair; clock 0..5 | 85k | `NextsValid`, `OneControl`, `EventuallyStarts`, `EventuallyEnds` |
| `Pricing` | three intervals, two rates, two servers, a handle behind, shutdown; clock 0..4 | 0.9M | `OneTariffPerRate`, `ServerInSync` |
| `Messaging` | two overlapping messages, incoming Scheduled, Active, Cancelled, a handle behind, shutdown, fair; clock 0..4 | 97k | `FollowsLifecycle`, `EveryMessageShown`, `EveryMessageEnds` |
| `Polls` | a fast and a slow job, rates 1, 2, 4, forced polls, fair; clock 0..6 | 39k | `TypeOK`, `WithinInterval`, `CaughtUp`, `EventuallyPolled` |
| `Notify` | three peers and file descriptors for two of them, two paths, two callbacks, requests of either method and any body, with and without TLS, shutdown at any moment, fair | 30k | `TypeOK`, `NoSilentSuccess`, `StaysStopped`, `ServedUnlessStalled`, `StopsUnlessStalled` |
| `Delivery` | two controls of two programs that overlap, one server that publishes, activates and withdraws them, GETs that fail, POSTs about one of them that fail, different `responseRequired` flags, a prune every two ticks, fair; clock 0..4 | 320k | `DeliveryTypeOK`, `HeardRunning`, `OverIsOver`, `Converges`, `EveryControlArrives` |

`HandlerProtocol` takes what the handler has been told of all events together:
it is asked once whether it follows an event, is told of the end or of an
interruption only of what it follows, and is then left alone, but for one
message. A withdrawal that was read while the event ran may be carried out when
it has ended or been superseded, and the handler is told `Cancelled` after
`Complete`; `Notices` allows it because the code does it.

`SupersededHasCause` is about what can still be run, an event that is superseded
and whose start lies ahead (`Held`): something holds it, and no event that the
server has withdrawn does, whatever order of withdrawals, arrivals and prunes
led there. It exempts what was so when the held event came, because a new event
that overlaps an already withdrawn winner is held by that from the start and
never given back: `Stranded`.

`OneControl` is about controls whose drawn windows overlap and one of which
outranks the other. Two of the same rank displace neither, and a control whose
end comes late may still run when its successor starts (section 6): of these
the run says nothing.

The properties of `Delivery` are about the client and the server together. A
server that has heard `EventStarted` last is right, unless the last POST about
the control did not get through (`HeardRunning`). Once it has heard that a
control has ended or was opted out of, it hears of no start of it any more;
each poll that still lists a forgotten control makes the client send
`EventReceived` again, and the same `add_event` takes that back, unless the POST
that should is lost (`OverIsOver`). Whatever is lost, late or un-superseded, a control that the
server has withdrawn stops (`Converges`); and no program is starved by the
failures of those before it in the list (`EveryControlArrives`). In `Notify`,
`ServedUnlessStalled` says that a connection leaves the backlog of a server that
goes on listening (not that it is answered: that is up to the peer and the
callback), and `StopsUnlessStalled` that a shutdown is carried out. A peer that
never ends its handshake holds up both, and peers that never give their
descriptors back hold up the first; an error of TLS ends `run`, against its doc
(section 6). `StaysStopped` says that the end of `run` after a shutdown is
final.

Runs that end in a counterexample, each a finding in `PROJECT.json`:

| Run | What happens |
|---|---|
| `Resurrected` | mid is cancelled; high arrives and the loop marks mid Superseded; high is cancelled and mid is Scheduled again. `ClientInSync` and `NoConflict` therefore exempt the events in `cancelled`. |
| `AddedTwice` | two handles find an event absent; one stores it, it is started, the other stores it again: Scheduled, with `next_end` still naming it. |
| `Stranded` | mid is stored and cancelled; low arrives, overlaps it, and is stored as superseded by it. mid is not cancelled a second time, so low is never given back. |
| `OwnClock` | `update_time` changes the offset of one handle; the start task goes on with its own. |
| `ForcePolls` | `force_polls` takes the lock and never gives it back. |

### Bounds

`MaxTime` stops the clock once the last window of the instance is over. `Week`
is one or two ticks, so that several prunes fall into a run. Three events are
enough for a chain and for an event superseded by two; the interplay of more is a
combination of pairs, since the loop compares pairs. Two handles are enough
for two calls in progress; what they read of the same event is excluded
(disjoint feeds) in the passing runs, and `AddedTwice` shows why. Offsets of
one or two ticks are as long as the gaps between the windows. In `Delivery`
any POST about `low` may fail and none about `high`, so that what a loss
explains can be told from what it does not. No control of `Core` and
`Delivery` is longer than the time between two prunes (`FitsWeek` in section
5, and in section 6 what happens to one that is). Three peers and two file descriptors
are enough for one that waits while the others hold all there is; the handlers
share nothing else. `Core` and `Delivery` have no `Drift`: their properties about
what was announced need a handle that is not behind (section 5), and section 6
says what one that is behind does. `Pricing`, `Messaging` and `DRLC` have one.
`ShutdownAt` says when the schedule may be shut down: at any moment in `Pricing`
and `Messaging`, never in `DRLC` and `Delivery`, and in `Core` at the ticks 2 and
3, while low is started or displaced and mid waits; there a schedule that is shut down
is followed to the end of these ticks only (`AroundShutdown`, a constraint of the
run), with every order of the calls and of the tasks that have yet to see it.
`MayForce` turns one operation off, where a run asks about the rest.

### Deadlock

Deadlock is not checked: at `MaxTime` with everything done the bounded clock
stops, and a schedule that has been shut down with all its events over is
entitled to do nothing.

## 4. Fairness

`Schedule!Fairness` says that the clock moves, that a task whose pointer is due
acts, that tasks see the shutdown, and that an `add_event` that has begun is
finished. The code justifies it by timers that fire every `tickrate`, tokio's
fair `RwLock` and the assumption, stated by the doc of `EventCallback`, that
handlers return; a POST returns because the HTTP client reports a failure.
Nothing is assumed about what a server sends or about `update_time`.
`NotifServer!Fairness` says that a connection that waits in the backlog is
accepted, if the loop comes to its `select!` with a free file descriptor again
and again, and that a shutdown that was requested is seen, if it comes to its
`select!` again and again: the kernel keeps the backlog in order, and
`select!` chooses among its ready branches at random. These are strong, since
the loop leaves the `select!` for each handshake. An aborted handler is dropped
at its next await. No peer is assumed to finish a handshake or to send a
request or its body, and no callback to answer.

`DeliveryFairness` says that polls go on, that the task goes on with what it
has, and that a GET which is tried again and again succeeds now and then, for
each program (strong: failures come between). Nothing makes the server do
anything, a POST succeed, the clock run on or the tasks of the schedule act, so
what is shown does not wait for the end of a control.

`Polling!Fairness` says the same of the poll task, and that `force_polls` goes
on while it has the lock; nobody is assumed ever to call it.

## 5. Proofs

`ScheduleProofs` proves for any set of events, handles, feeds, windows, ranges,
offsets and targets, from the assumptions of `Schedule` (the types of the
constants, and that `None` is no pair and no call):

- `TypeCorrect`: `Spec => []TypeOK`.
- `NextsCorrect`: with disjoint feeds, `Spec => []NextsValid`.
- `ConflictFree`: with disjoint feeds, `Spec => []NoConflict`.

Disjoint feeds (`FeedsDisjoint`) say that no mRID reaches the schedule through
two handles; `AddedTwice` shows that `NextsValid` needs it.

`NextsValid` and `NoConflict` are not inductive: an insertion is only harmless
if the event was not in the map, which is known from an earlier step, and a
cancellation only if nothing that competes is still superseding what it frees.
The inductive invariant is

    IInv == TypeOK /\ NextsValid /\ PendingInv /\ SupersessionInv

where `PendingInv` says that what a pending call has read still holds as far as
being stored goes (and that only a withdrawal follows the reading of a stored
event), and `SupersessionInv` that a live event is superseded by nothing and
that every event lists all stored events that supersede it and have not been
withdrawn. The proof goes by step: each conjunct has a lemma for each action
that may disturb it, and lemmas on `Nexts` and `InsertNext` carry the pointers
(`NextsSame`: they depend only on the events they count; `InsertNextValid`: an
insertion moves a valid pointer to a valid pointer).

`ScheduleProofs` also proves what valid pointers are for:

- `TasksSeeAll`: with disjoint feeds, whenever an event waits past its start or
  runs past its end, the pointer of the task that should act is due. With it,
  `EventuallyStarts` and `EventuallyEnds` need no more than a task that goes on.
- `EarliestFirst`: with disjoint feeds, events start and end in the order of
  their times, and never before them.

Disjoint feeds are used in one place only: no event is in two calls at once
(`CallsApart`). `NextInv` is the induction step from that, and `DeliveryProofs`
cites it with another reason.

`HistoryProofs` proves the other properties of `Core`, which relate what is
stored to what has happened:

- `SupersededCaused`: `Spec => SupersededHasCause`, with disjoint feeds, if no
  handle's clock is ahead of the tasks' (`NeverAhead`): one that is ahead takes
  for started what the tasks still wait for, and does not release it. The
  invariant `CauseInv` adds that what is held lists something, that what is
  neither superseded nor withdrawn lists nothing, and that the server has only
  withdrawn what is stored.
- `ServerToldSo`: `Spec => []ServerInSync`, with disjoint feeds, if no event
  arrives already active (`ArriveScheduled`).
- `StartsOnce`, `ClientToldSo`: `Spec => []NoRestart` and
  `Spec => []ClientInSync`, under `Proviso`.
- `HandlerFollows`: `Spec => HandlerProtocol`, under `Proviso` and if opt-outs
  cancel (as in DER). `HandlerProtocol` is the specification of `Notices` with
  `told <- client`: each step of the schedule is one move of `Notices` or
  leaves it alone.
- `OptOutKept`: `Spec => OptOutIsFinal`, since in `Notices` nothing leads out
  of Declined.

`Proviso` says that feeds are disjoint, that events arrive scheduled, that no
handle's clock is behind, and `FitsWeek`: no event lasts longer than the time
between two prunes by more than two seconds. The last is a condition on the
events and it is needed. A prune takes an event that was opted out of or
superseded a week after its last change, and if its window is still open the
next copy is stored as new. The two seconds are what the strict comparisons of
the start task and of the prune give; with three the proof fails.

The invariant of `NoRestart` is `IInv` with `OnceInv`. Of what is stored and has
started (it was announced, or is active) that says that its start was drawn
from its range (`Placed`) and is in the past, before the last prune if nothing
has happened to it since (`Begun`), also while a cancel that found it active
waits (`Broken`); and of what has started and is not stored, that its window is
over (`Gone`). `ClientInSync` needs `Known` besides, that an active event was
announced; `HandlerFollows` needs `Heeded`, that only what the client follows is
active and that a waiting cancel which found its event active is about one that
the client follows or has followed to its end.

`DeliveryProofs` proves of the composition, for any programs, flags and losses:

- `DeliveryTypeCorrect`: `DeliverySpec => []DeliveryTypeOK`.
- `ImplementsSchedule`: `DeliverySpec => Spec`. The initial states are initial
  states of `Schedule` and every step is one of its steps or a stutter. What
  has to be shown is that a call is only begun for an event and a status the
  schedule may be given, which needs the invariant that everything in `work`
  was published by the server (`Fetched`).
- `ClientNextsCorrect`, `ClientConflictFree`: `NextsValid` and `NoConflict` hold
  of the client, for any set of handles and although each of them may be given
  every control. Here calls are apart not because feeds are disjoint but
  because the task awaits each `add_event`: `QueueInv` says that no two calls
  are in progress (`Serial`), that no list names a control twice (`Once`), that
  what is on its way has a status the server has or had (`Published`), and that
  no offset is ever set (`OnClock`).
- `ServerNotMisled`: `DeliverySpec => []HeardRunning`. The invariant adds that
  a server which has heard of a start asked for specific responses
  (`AskedFor`), so that the filter lets through what becomes of the event.
- `OverStaysOver`: `DeliverySpec => []OverIsOver`, if no control is longer than
  `FitsWeek` allows and none is drawn to end before it starts (`Forward`; one
  that does could be over before it has begun). The invariant is `OverInv`: what
  the server knows to be over asked for specific responses, so that the answer
  after a receipt passes the filter; while it is stored it has begun and does
  not wait to start, before the last prune if nothing has happened to it since
  (`HasBegun`), so that no un-supersession schedules it again although it may be
  marked superseded after its end; and it is only forgotten when every window
  that could be drawn for it has ended (`Spent`), so that `add_event` answers
  that it has expired.
- `WithdrawnStaysAway`: a control that the server has withdrawn, that the
  client does not hold and of which no older copy is on its way is never taken
  up again: the safety half of `Converges`.

`NotifProofs` proves `TypeCorrect` and `SuccessIsEarned` (`Spec => []NoSilentSuccess`) for any set of peers, paths
and callbacks. The inductive invariant adds that nothing is connected before
`run` listens (`QuietBefore`: so routes never change under a request) and that
a request in its callback has been matched with it (`Checked`).

`StopsForGood` (`Spec => StaysStopped`) says that the end of `run` is final: once
it has returned from a shutdown every connection is closed and stays so. It
needs besides that a handshake only goes on in a loop that runs (`Shaking`).

`PollingProofs` proves `TypeCorrect` and `NeverFar`
(`Spec => []WithinInterval`) for any jobs and rates; `Near` adds to it the jobs
that are still to be pushed, and is inductive together with the types. `NothingLeft` (`Spec => CaughtUp`) says that no job is due when the
poll task gives the lock back; a queue that is not empty has an earliest job
(`TopExists`), so that looking at the top is enough. `ForceNeverReturns` proves
for any jobs what the run `ForcePolls` finds for its own: once `force_polls`
has taken the lock while a job is queued, it keeps it for ever.

The three instances have an instance of the proofs beside that of `Schedule`
(`P` beside `S`); `Assumptions` shows that what `Schedule` assumes of its
constants holds, and `SameSpec` that `Spec => P!Spec`, so that every theorem
about `Schedule` is one about them:

- `DRLCProofs` proves `DirectControl` (`Spec => []OneControl`) from
  `ConflictFree`, `NextsCorrect` (`Spec => []NextsValid`), and `StartsOnce` and `ClientToldSo` under `P!Proviso`. The
  tasks of `drlc.rs` ignore an opt-out, which is why `Proviso` does not ask
  that opt-outs cancel; `HandlerProtocol` does not hold there (section 6).
- `PricingProofs` proves `OneTariff` (`Spec => []OneTariffPerRate`) and
  `ServerToldSo` (`Spec => []ServerInSync`, with `ArriveScheduled`). Both need
  an invariant of their own, `Apart`: an interval is only superseded by one of
  its rate component, and no response speaks of another program. `StartsOnce` and
  `ClientToldSo` hold as for DRLC.
- `MessagingProofs` proves `ImplementsLifecycle` (`Spec => FollowsLifecycle`),
  the refinement of `Lifecycle`, if the server supersedes no message
  (`NoneWithdrawnSo`; section 6 says what happens otherwise).
  Each action is shown to be one move of one message, a forgetting of what is
  over, or a stutter, under `IInv` and `Plain`: nothing is ever superseded.

All theorems about the three instances assume disjoint feeds.

No hypothesis is out of reach: `Core` satisfies `Proviso`, `OptOutCancels` and
`NeverAhead`, and `Delivery` satisfies `FitsWeek` and `Forward`; TLC has
evaluated them on the instances.

Only model-checked: all liveness (and what rests on ENABLED), which the
installed provers cannot reach. Every invariant and action property that a
passing run checks is a theorem.

## 6. Divergences without a run

Seen while modelling; the model contains the behaviour, and no run is kept for
it.

- `new_rand` draws the start with the bound for the duration and the end with
  the bound for the start (`event.rs:137-138`); the report says the start and
  the interval get a random offset within the given range.
- An event opted out of is marked cancelled by `update_event`, not
  `cancel_event`, so what it superseded stays superseded (`der.rs:82`, against
  `der.rs:179`). What arrives afterwards and loses to it is stranded as in the
  run `Stranded`.
- `update_time` takes offsets of either sign, and `cancel_event` compares the
  start of an event with the time of the handle that cancels (`event.rs:338`).
  With a handle that is behind the tasks, an event that has started, or was
  opted out of, and was then superseded is scheduled again when its superseder
  is cancelled, and is announced again: `NoRestart`, `HandlerProtocol` and
  `OptOutIsFinal` are for handles that are not behind.
- A control that the client is first given when the server calls it active is
  stored as active although a later start may be drawn for it
  (`event.rs:137`, `der.rs:335`). Superseded before that start and released, it
  is scheduled and started though it has been running (`event.rs:338`).
- An event that becomes active between the read and the write of a
  cancellation is cancelled without the client being told, under the comment
  "the client doesn't even know about this event" (`der.rs:137`).
- Start and end tasks are independent and tick on their own: an event whose
  time is over stays active until the end task comes round to it, and its
  successor may be started first; the report says that only one can be active.
- An event that arrives Active is stored without a call of the handler
  (`der.rs:335`).
- A completed event that a later one overlaps becomes Superseded
  (`der.rs:307`), though the match says that Complete never changes.
- The tasks of DRLC, pricing and messaging ignore what the handler answers
  (`drlc.rs:71`, `pricing.rs:66`, `messaging.rs:46`): an event the client opts
  out of stays active and is announced again when it ends, though the doc of
  `EventCallback` says that the client "will no longer receive updates on it"
  (`event.rs:235`).
- A message that the server marks as superseded has nothing in `superseded_by`,
  so the cancellation of any other message schedules it again if its start lies
  after the time of the handle: one that was not shown yet, or, through a handle
  that is behind, one that was (`event.rs:338`, from `messaging.rs:177-179`). The report says that
  several messages are active at once and that superseded events are not
  tracked (`implementation.tex:1293`). `Messaging` has no incoming Superseded
  for this reason.
- An event that is longer than a week and was opted out of or superseded is
  forgotten by a prune while its window is open (`event.rs:495-502`). The next
  poll adds it as new: the client is called again after an opt-out, against the
  doc of `EventCallback`, or told to start what it has already been running.
- `run` says "Wait for all connection handlers to finish" (`pubsub.rs:201`) and
  logs a graceful shutdown; `JoinSet::shutdown` aborts the handlers, one that
  is in its callback too, and its peer gets no answer.
- `run` promises to recover from all errors but one at its start
  (`pubsub.rs:147`); an error of `Ssl::new` or `SslStream::new` ends it
  (`pubsub.rs:180`), and drops the handlers in progress.
- The filters for DER and DRLC let a status that its own arm has refused fall
  through to the last: with SpecificResponse alone an `EventReceived` or
  `EventAcknowledge` is sent though its own flag is not set
  (`client.rs:598`, `client.rs:640`).
- The filters for pricing and messaging have no arm for `EventCancelled` and
  `EventOptOut` (`client.rs:539`, `client.rs:679`): a server never hears that a
  price or a message it has heard started was cancelled.
- `post` and `put` promise an error unless the server answers 201 or 204
  (`client.rs:382`, `client.rs:396`); 400, 404 and 405 are returned as `Ok`.

## 7. Plan

Done: `Schedule` with its three instances, the abstract `Notices` and
`Lifecycle`, `Polling`, `Responses`, `NotifServer`, `Delivery`, and the proofs
of every safety property that a run checks and of the three refinements
(`Schedule` to `Notices`, `MessagingSchedule` to `Lifecycle`, `Delivery` to
`Schedule`).

Next, in this order:

1. Handles that are behind the tasks: which weaker form of `NoRestart` and
   `HandlerProtocol` holds with `Drift` in `Core` (section 6 says what does not).
2. `Delivery` to `Notices` without `ArriveScheduled`: which moves `Notices` needs
   for a control that the client is first given when it is active, whose start
   the handler is never told (section 6).
3. `ScheduleLocks`: the `RwLock` itself with readers, the writer and the
   downgrade, tasks that wait on the handler and the POST; refined to
   `Schedule`, which would justify its atomic steps, and a check that a handler
   that calls `add_event` blocks the schedule.

## 8. Not modelled

Security and TLS are pure functions and configuration; the certificate checks
of `tls.rs` are called by nothing in the library. Flow reservation is an
interface whose `add_event` is empty. The device is a record that the schedules
only read. Parsing and serialising resources, HTTP headers and logging do not
change the state of any component above. PUT and DELETE are requests of the
application that leave nothing behind in the client. Of the example, the GETs
before the poll is set up are taken to have succeeded. The test server is a
fixture of the tests.
