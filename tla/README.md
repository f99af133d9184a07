# Formal models of the IEEE 2030.5 client

TLA+ models of `inverterclient`, the IEEE 2030.5 DER client and inverter
simulator: what it does with the events a server sends, and how an aggregator
runs the simulated fleets behind it. The models are written from the code under
`src/`; `PROJECT.json` names, for every definition, the lines it stands for.
They follow a process from its start-up through its event loop, its devices and
its reports to its shutdown.

## The system

One process of `cmd/inverterclient` plays a DER or an aggregator. It polls an
IEEE 2030.5 server, turns the DERControls it finds into events, drives a device
with the one in force, and answers the server. An aggregator drives many
devices, simulated by GridLAB-D sidecar processes, one per fleet.

| Component | Where | State it keeps | Operations |
|---|---|---|---|
| Event scheduler | `internal/inverter/scheduler.go` | queue of events by fire time | add (replace), cancel, head, pop what is due |
| Event state machine | `internal/inverter/statemachine.go` | state, active event, expiry, refused mRIDs | Reject, Tick, hooks after the unlock |
| Response hook and retry | `cmd/inverterclient/response_hook.go`, `internal/inverter/response_retry.go` | none; attempts of a POST | status of a transition, POST, retry, dead letter |
| DERControl cache and its readers | `internal/inverter/dercontrol_poll.go`, `internal/inverter/dispatch/` | last list: controls and rejected items | poll, refresh on notification, Snapshot, Rejected |
| Event loop | `cmd/inverterclient/main.go` (`stepEvents`, `diffSnapshots`) | previous snapshot | one step per tick |
| Managed controls | `cmd/inverterclient/managed_controls.go`, `fsa_select.go` | per device: program followed, its event and default, wake channel, subscription | walk, choose, follow, move, subscribe |
| Flow reservations | `cmd/inverterclient/reservation*.go` | current request, grant, withdrawals to retry, acknowledgements owed | trigger, poll, withdraw, acknowledge |
| Sidecar client | `internal/sim/gridlabd/client.go` | socket, mutex, next id, broken flag | call, drain, Close |
| Sidecar | `sim/gridlabd/gldsidecar/` | GridLAB-D model | answer one request at a time |
| Supervisor | `internal/sim/gridlabd/supervisor.go`, `process.go` | state, generation, client, restart attempts | Run, Stop, WaitStarted |
| Fleet start | `cmd/inverterclient/fleet_start.go` | one goroutine set per fleet | all up or none, stop all |
| Fleet device | `internal/inverter/device/fleet.go` | last setpoint, last generation | ReadState, ApplySetpoint, resync |
| Safety guards | `internal/inverter/device/guards.go` | tokens, last good command | clamp, limit, fail safe |
| Alarms and log events | `internal/inverter/alarm_detector.go`, `log_event_*.go` | previous alarms, suppressed codes, rate | detect onset, emit |
| Reports of a device | `cmd/inverterclient/managed.go`, `mirror.go`, `managed_status.go`, `phase4_metering.go` | mirror and backoff, DER found, what was PUT | create, post, drop, resolve, put |
| Notifications and subscriptions | `internal/inverter/notify.go`, `cmd/inverterclient/subscription_*.go` | listener, registry | receive, subscribe, renew |
| Role guard | `internal/inverter/guard/` | role, managed devices | decide on a request |
| Start-up phases | `cmd/inverterclient/main.go`, `phase*.go` | phase, documents read, what runs | phases 0 to 5, early returns, shutdown |
| HTTP client, control curves, backends, configuration | the rest of `internal/inverter/`, `cmd/inverterclient/`, `internal/simconfig/` | little or none | |

How they interact:

- The poll loop, the notification listener and the tick goroutine share the
  cache, under its lock, and nothing else. GETs run outside the lock.
- The tick goroutine alone drives the state machine, and the state machine its
  scheduler. Hooks run on the tick goroutine after the mutex is released, and
  the Response of a transition is posted there, retries and all: the next tick
  waits for it.
- A managed device has a session goroutine of its own. It shares with the fleet
  tick the default control (an atomic pointer) and the event engine (its mutex),
  and with the notification receiver the wake channel and the subscription.
- Every device of a fleet calls through one sidecar client; its mutex is held
  for a whole round trip and is handed to `drain` when a caller gives up.
- A supervisor watches three things: its context, its process's exit and the
  client's `Broken` channel. `startFleets` waits for the first start of each.
- A fleet device learns of a restart by the supervisor's generation alone, and
  commands its last setpoint again when it has changed.
- Reservations, managed devices and reports share the goroutine of the main
  loop; what a reservation was granted goes before a default, never before an
  event.
- Every request of every part goes through the role guard.

What is hard: lists that change between two reads or arrive out of order;
several events due in one tick; windows that are over when they start; callers
that time out just as the answer comes; a process that dies at any step of its
start, its restart or its shutdown; `Stop` and signals at any moment.
`PROJECT.json` lists each such place under `hazards`, with the properties that
would notice it going wrong or the reason why none does yet.

What makes each component correct, in a sentence: the *engine* runs what the
server lists and nothing else, each event once, and says so truthfully; the
*session* converges to what the server wants; the *sidecar client* pairs every
result with its own request and never blocks for ever; the *supervisors* come up
together, leave nothing behind and always stop. A *fleet device* never lets an
older setpoint overtake one reported as applied, and a restart never resets it
silently. A *reservation* is dispatched within what was asked and granted, and
never after it was withdrawn; every withdrawal is retried to its end. A *device
that moves to another program* keeps nothing of the old one, and tells the end
of its event by its cause. An *alarm onset* is told once, readings come back
with the server, and a server that loses mirrors is not flooded with new ones.
*Start-up* asks for nothing the role forbids, writes nothing before its
registration is checked, and every exit takes down what it started.

## The modules

| Module | Models | Composition |
|---|---|---|
| `EventQueue` | the scheduler, as operators on a queue | extended by the engine |
| `EventStateMachine` | the engine: `Reject`, `Tick`, `Fire` | owns the queue; each read of the cache may see any list |
| `EventAnswers` | abstract: the legal trail of Response statuses of an event | implemented by `EventStateMachine` |
| `ResponseDelivery` | the POST of one Response with its retries | extended by the session |
| `DERControlSession` | server, cache, two readers, tick goroutine | the engine's actions, fed from the cache; each transition posted by `ResponseDelivery` |
| `SidecarClient` | callers, mutex, round trip, drain, socket, sidecar | stands alone |
| `FleetSupervisors` | per fleet Run, Stop, process, socket; `startFleets` | stands alone |
| `SetpointRegister` | abstract: what a device promises of its setpoint | implemented by `FleetDevice` |
| `FleetDevice` | callers of one device, resync, transport, sidecar and supervisor as the device sees them | stands alone |
| `ReservationAnswer` | the judgement of a list of answers, the terms of a grant | extended by `Reservation` |
| `Reservation` | signal, poll, dispatcher, withdrawals | one goroutine and the clock |
| `ManagedControls` | session goroutine, fleet tick, receiver, server, for one device | stands alone; the engine cut down to one event |
| `RoleGuard` | the guard's decision | extended by `StartUp` |
| `StartUp` | the phases, what they leave running, the shutdown | every request passes the guard |
| `AlarmReports` | onsets, rate limit, suppression | extended by `DeviceLoop` |
| `DeviceLoop` | the tick of one device with its reports; the server's mirror | alarms on the same goroutine |
| `EventProofs`, `SidecarProofs`, `FleetProofs`, `FleetDeviceProofs`, `ManagedProofs`, `StartUpProofs`, `ReservationProofs`, `DeviceLoopProofs` | theorems | each extends the module it is about; `EventProofs` the session, and with it the engine |
| `MC...` | constants for TLC, one module for each specification that is run | |

### From code to model

`EventQueue`. The code's slice, sorted by `FireAt`, is a function from mRIDs to
entries; `sort.Slice` is not stable, so an entry carries the `place` that the
last sort gave it among equals. `WindowsOf` gives the windows `computeWindow`
can draw. A random draw is a choice over that set (for the whole model:
over the windows of all `Intervals`).

`EventStateMachine`. `sm` is the `StateMachine` struct with its scheduler's
queue. `Pass` is `computeTransitionsLocked`: `Admit`, `Cancel`, `Complete`,
`StartDue` and `Announce` are its five steps, in order, as functions of the
machine and of the transitions recorded so far. `Tick` applies it to what
`diffSnapshots` finds. `Reject` and `Tick` are two actions because `stepEvents`
reads the cache twice. `pending` are the recorded transitions; `Fire` runs the
hooks of one. The transition to `DEFAULT` that ends an event carries no event
and moves no hook, so it is not put in `pending`. What a list says about an mRID
is one of six words: `scheduled`, `noInterval` (the scheduler skips it),
`unsupported` (the validator refuses it), `cancelled`, and the two kinds of item
that do not decode, `garbled` and `garbledCancelled`. `Fire` is a hook that
posts a status for an event that asks for all of them; what is asked for, and what
a POST goes through, is in the session. `EventAnswers` is instantiated with the
engine's `answered` and `sm.started`.

`DERControlSession`. `Get` is the moment the server composes an answer,
`Refresh` the moment it replaces the cache. Between the two anything may happen,
so answers overtake each other. `GetFails` covers lost and unreadable answers, after
which the loop goes on. `GetExpires` is a GET that runs into the HTTP client's 30 s
timeout. The error is a `context.DeadlineExceeded`, on which `PollDERControlList` returns
for good (`polling`); the dispatcher waits for the next notification.
The dispatcher's GET is only bound by there having been a change; a lost
notification is a `Get("notify")` that does not happen. A transition with a
status is one or more `StepPost`, the last of which is the engine's `Fire`; no
`Reject` or `Tick` happens in between. `asked` is the event's `responseRequired`
(empty stands for no `replyTo`, too); what it does not ask for is a `StepSkip`.

`ResponseDelivery`. `post` is where `postResponseWithRetryClock` is: `attempt`
counts its loop, `try` the repetition inside `PostResponse`. A POST is `ok`,
`refused`, `transient` or `expired`; only `transient` is tried again. An exhausted
or expired POST is a dead letter, and the hook returns as after a good one.

`SidecarClient`. `Call` to `TakeReply` are the steps of `call`, `trip` is the
goroutine that writes and reads, `mu` the mutex, with `Drain` as a holder.
`Detach` is the branch of the select on `ctx.Done`, which may be taken even if
the reply is there. `Judge` is the verdict `decodeReply` and the error paths
share; `"broken"` marks the connection. `applied` (what the sidecar carried out)
and `faulty` (whether anything but the callers misbehaved) only observe. After
`Close` no call reaches the wire.

`FleetSupervisors`. `run` is the place of each `Run`; the names of its values
are the code's own steps. `proc = "exited"` is an exit that nobody has taken
from the process's single-shot channel, `"reaped"` one that was taken.
`killAndReap` is two steps, as the process may exit by itself in between.
Durations are left out: wherever the code waits with a timeout, the timeout may
fire, and any number of attempts may have left the restart window when it is
pruned. A signal does not interrupt the sidecar's own shutdown, which is bounded.

`FleetDevice`. `pc` is the step of `ReadState` or `ApplySetpoint` a goroutine is
at; `mu` is held from the read of the generation to the end, as in the code.
`wire` is the one unanswered request, whose `asker` may have given up: it is then
drained, and may still be carried out. `Die`, `Break`, `SetRestarting` and `SetUp`
are what the supervisor and the process do to a device. Setpoints are numbered
in the order the device takes them, so "older" is "smaller".

`ReservationAnswer` and `Reservation`. A request's mRID is its place in
`requests`. `Judge` is `judge`: answers in force, the latest of them, incomplete,
denied, late, beyond what was asked. `Trigger` and `Withdraw` are the two
signals, handled whole. A poll is two actions, `RetryWithdrawals` and one of
`PollNothing`, `Finish`, `ReadFails`, `ReadAnswers`, as it reads the clock again
in between. A PUT that fails may have been carried out. `stale` is a set, not the
code's slice: a retry touches nothing but its own request, so the order of the
retries of one poll does not matter.

`ManagedControls`. `pc` and `walk` are the session goroutine: it reads a program
list one document at a time, so a walk may see the state before and after a
change. `following`, `defaultCtl`, `engine`, `prev` and `superseded` are what a
move must change, each a step of its own. `tick` asks the grant, the engine and
the default one after the other, as `managed.go` does; `tick.steady` observes
what drove the device during the tick. Programs are numbers, as
the selector orders mRIDs. `ended` is the status of the last cancellation told,
with its cause as a ghost.

`RoleGuard` and `StartUp`. `Allow` is the guard's decision from role, kind of
request, method and target. `pc` is the phase `main` is in; a phase is one action per
request, with the outcomes the code tells apart, or a decision. `sent` is the
last request and the guard's word on it, so a property over `sent` is one over
all requests. `Work` is any request of anything in `running`.

`AlarmReports` and `DeviceLoop`. A tick is the sequence `pc`: read and drive,
then alarms or DER resources, then the mirror. Waits are counted down by what
passed since the last tick. `Doubled` is the loop of `mirrorBackoff`. `creates`,
`sinceCreate` and `gap` observe the creates at the server, `done` what it has just
accepted. `good` is a choice of the environment: while it holds, no request and no
read of the device fails.

## The runs

| Run | Instance | Shows |
|---|---|---|
| `events` | two events, windows that start late or expire as they fire, clock 0..4 that may step back, any list at each read | nothing refused or withdrawn is tracked, nothing overdue after a tick, no event started twice, answers match the state and form a legal trail (refinement of `EventAnswers`) |
| `session` | one event, every kind of list, two changes, clock 0..3, each bit of `responseRequired`, a POST with every outcome | a started event ends; as long as no poll runs into the HTTP timeout, a withdrawn one stops for good, the rejection of a garbled one is posted if asked for, and a listed one is taken up |
| `sidecar` | two callers, three requests | every call returns, and with the truth about its own request; the wire is clean whenever the mutex is free; giving up breaks nothing |
| `fleets` | two fleets, restart budget 2, one fleet that may come up twice and one that may fail to start | start together or not at all; no process and no socket left; no closed client handed out; a final state that says why; start decided and stop ended |
| `fleet_device` | two goroutines, two setpoints, two restarts, three faults | the device implements `SetpointRegister`; it never takes a wiped model for one that holds its setpoint; it commands the setpoint again |
| `reservation` | two requests, lists of at most two answers, clock 0..5 | dispatch within grant and request; the judgement agrees with its definition on every list; no withdrawal forgotten, all end |
| `managed` | two programs, two changes, one failed read | nothing left of a program that is not followed; a tick applies what drives the device; the right status of a cancellation; a dead subscription stays dead; the best program followed in the end |
| `start_up` | both roles, 16 configurations, documents that lack any one link that matters | every request in role, none that writes before the registration gate; every exit stops sidecars and receiver |
| `device_loop` | eight devices, own and managed, with and without alarms | creates back off, an onset is told once, readings and status resume |
| `events_wedge` | as `events`, clock 0..3, which does not step back | finding 1 |
| `session_poll` | as `session`, but with a list that does not change | finding 2 |
| `session_rejected` | as `session` | finding 3 |

Bounds. Two mRIDs give every order of two events around one tick and every pair
of "active" and "other"; three would only add a second bystander, and the
theorems cover any number. A clock of five readings holds the life of an event
(received, started, over) and a restart of it. With one event the session still
has both readers, an overtaken answer and a change after it. Three requests let
one be abandoned, one be drained behind it and one follow. The restart budget of
2 can be spent, and `restarts` pruned. In `fleets` the two instances differ to
keep the state space in bounds: `f1` meets crashes and broken connections until
it came up twice, `f2` starts or fails and then runs. The clock in `session`
does not step back: liveness needs it to reach an expiry.

In `fleet_device` two setpoints make an older and a newer one, two goroutines
a read beside an apply, and three faults let a Set be abandoned, a resync fail
and the sidecar die. In `reservation` the second request replaces the first,
whose withdrawal may still be retried; answers come in time, late, and beyond the
request; `MaxBackoff` is reached. In `managed` two changes let a program go and
come back, or move twice during one walk. In `device_loop` `MaxBackoff` is 3 and
failures are counted up to `MaxTries` 3, from where the backoff no longer grows;
ticks are 1 or 2 apart, so that a wait is met exactly and overshot. With
`MaxBackoff` 5 and `MaxTries` 4 the run passes as well (3.4 million states), but
takes too long to repeat. The configurations of `start_up` are those that take
different paths; each document may be any of those listed whenever it is read.

Terminal states are legal where deadlock is not checked: in `sidecar`, `fleets`
and `start_up` everything has returned or stopped; in `fleet_device`,
`reservation` and `device_loop` the bounds on setpoints, requests and time can
be used up.

Fairness.

- `session`: the tick ticker never stops, nor does the poll ticker while the poll
  loop runs; every POST and GET is bounded by a timeout, and the server answers
  polls again and again (strong fairness of a poll's refresh, which forces nothing
  once a poll ran into the timeout and ended the loop: that the loop lives is a
  premise of the three properties which need polls, `[]polling`, and `StartedEnds`
  does without). Nothing is assumed of notifications. The tick
  goroutine takes its first snapshot, and each POST and each wait of a retry
  ends. That it rejects and ticks is stated as what weak fairness of the two
  steps amounts to: nothing but the step itself ends its being enabled.
- `sidecar`: `sync.Mutex` starves no waiter (strong fairness of taking it), a
  goroutine that can proceed does, and the connection's deadline, set before
  every round trip, passes. The sidecar owes nothing.
- `fleets`: weak fairness of each `Run`, `Stop` and `WaitStarted` goroutine and
  of `startFleets`. Since `Run` waits only in selects with a timeout, or for the
  exit of a process it has just killed, this is the Go scheduler's promise. The
  process, the connection, signals and the end of `main` are under no fairness.
- `fleet_device`: callers use the device again and again, the mutex starves
  nobody, a live sidecar answers, the supervisor notices its end. That it comes
  back is not assumed: `SetpointComesBack` speaks of the case that it does.
- `reservation`: the ticker calls `Poll` again and again, and time passes.
- `managed`: the session goroutine runs and its reads end. A ticker that fired
  stays ready in its channel, so the select takes it in the end, however often
  notifications come (strong fairness). The fleet tick, the receiver and the
  server owe nothing.
- `device_loop`: the loop ticks, and every request ends. `ReportsResume` is
  conditional on a server and a device that stay well.
- `events` and `start_up` check safety only.

## What is proved

`EventProofs`, for every finite set of mRIDs, every set of intervals, any
horizon, with and without a clock that steps back: `TypeOK`,
`RejectedNeverTracked`, `TrackedStillListed`, `StartedNotQueued` and
`NothingOverdue`. Assumptions: those named in the modules, `MRIDsAssumption`,
`IntervalsAssumption`, `ClockAssumption` and `NoneAssumption`.

None of these is inductive. That a running event is not queued needs that an
event already tracked is never *added* again, which holds because tracked
events were all in the previous snapshot; and that needs in turn that
cancellation reaches the queue and the active event alike. The invariant is

    IInv == TypeOK /\ Consistent(sm) /\ TrackedStillListed /\ NothingOverdue

where `Consistent` says that there is an active event exactly when the state is
not DEFAULT, that a started event has an expiry and is not queued, and that no
refused mRID is tracked. The argument follows the pass: one lemma per step (`AdmitStep`,
`CancelStep`, `CompleteStep`, `StartDueStep`, `AnnounceStep`) says what the step
keeps and what it establishes, and `PassStep` chains them. The lemmas below them
say that a non-empty queue has a head, that the head is due if anything is, and
that the queue operations return queues.

On the same invariant rest the answers. The hooks run after the unlock, so between
a pass and its hooks the server knows less than the machine does:
`AnswersMatchState` says nothing there, and is not inductive. The invariant
`AnswersInv` looks ahead: firing what is pending, in order, tells every event
something that may follow what it was told before, and ends in a ledger that
matches the machine. For each step of the pass a lemma (`CancelFaithful`,
`StartDueFaithful` and so on) says that it extends such a run of ledgers. From it
follow `AnswersMatchState` and, as every `Fire` takes the first step of the
run, the refinement `AnswersLegal`. `AnswersInv` quantifies over sequences of
ledgers, which TLC cannot enumerate; what follows from it, it checks.

The engine's theorems hold of any list at each read. The last section of `EventProofs`
takes them to `DERControlSession`, where the lists come from a cache that two readers
fill in any order. `SessionInv` adds to `IInv` that what is stored or on its way is
a list, and that the engine tracks nothing before the tick goroutine took its first
snapshot: that step replaces the previous snapshot, and would otherwise take a
tracked event out of it. So `RejectedNeverTracked` and `TrackedStillListed` hold with
readers that fail or overtake each other and Responses that are never taken.

`SidecarProofs`, for any set of callers and any number of calls: `TypeOK`,
`WireInSync`, `OwnReply` and `BrokenOnlyByFault`. The invariant ties the mutex
to the round trip (`Ownership`), the step of the round trip to what is on the
wire (`Exchange`), and ids to what was carried out and told (`Requests`): at
most one request is unanswered, it is the current trip's, and what came back
under its id is true of it. `OwnReply` alone is not inductive, as it says
nothing of a reply still on its way.

`FleetProofs`, for any set of fleets, any restart budget and any number of
starts: `TypeOK`, `NothingLeftBehind`, `UpTogether`, `UpIsConnected`,
`FinalState`. The invariant says what each place of `Run` owns: a process from its
launch until its exit is taken, a connection from the dial until it is closed
(`Ownership`); what the first start was told, and so whether the fleet ever came
up (`FirstStart`); and that a `Run` on its way out has already set the state it
ends in, and was asked to (`Outcome`). A start that fails is one lemma
(`StartFailedInv`) for its three causes. `FinalState` is a property of steps: from the
invariant, `LastStepReports` shows for each way out of `Run` that it reports Stopped
exactly if a signal or a `Stop` came first, `OthersKeep` that nothing else touches it.

`FleetDeviceProofs`, for any set of callers and any number of setpoints, faults and
restarts (at least one start): `TypeOK`, `NoSilentReset` and the refinement
`NewestStands`. The caller that holds the mutex applies the newest setpoint of
all (`NewestTaken`); a resync commands the last one applied, to a start it has
seen (`Resyncing`); a setpoint that was set stays in the model until a restart,
which the generation tells (`Commanded`); and the request on the wire carries
nothing older than the last one applied, although its caller may have given up
(`OnTheWire`). Under it each step of the device is a step of the register or
a stutter.

`ManagedProofs`, for any set of programs and any documents: `FollowedDrives`,
`DriverObeyed`, `SupersessionTold` and the action property `EndedNoticeKept`. What
the session holds is of the program it follows, the event only as long as the
snapshot has it (`SessionInv`); the flag of a supersession is up exactly between
the decision to replace a program and the cancellation of its controls
(`FlagInv`); what the tick believes to drive the device drives it still, or it
has noted a change (`TickInv`). A lemma says that the choice of a program among
those read is well-defined, as their mRIDs differ.

`StartUpProofs`, for any devices, configurations and documents: `RequestsInOrder`
and `LeavesNothingBehind`. `RoleInv` keeps the phases and tasks of one role out of
the other; `GateInv` says that past phase 2b the process is registered and stays
so, and that before it only the clock is kept in time; `ServiceInv` what is up in
each phase of the way in and out. Lemmas about `Allow` say what either role
may send.

`ReservationProofs`, for any number of requests and any lists of answers:
`TypeOK`, `GrantWithinRequest`, `AnswersJudged` and `WithdrawalKept`. `AnswersJudged` speaks of every list and needs no invariant:
the answer in force that `judge` takes is the latest, and a grant is cut to
what was asked (`EffectiveIsLatest`, `GrantFits`, `VerdictFits`). The others
are an invariant with `TypeOK`, `RequestInv` (a request is as it was posted, and
done only when it is over) and `GrantInv`. Proving `TypeOK` corrected it: a wait
may exceed the cap of five minutes, when the poll interval does.

`DeviceLoopProofs`, for any devices, intervals and backoff: `NoCreateStorm` and
`OnsetToldOnce`. The first half is about numbers: that a function satisfies the
recursion of `Doubled` and that it grows, by induction over sets of numbers, which
the library's well-founded minimum allows. `BackoffInv` then says that every create
since the last accepted reading has been counted as a failure, but for the one of
the present mirror, and that without a mirror what is left of the wait and what
has passed since the last create make up the backoff. `OnsetInv` says that an onset
still to be fired has not been told.

Each inductive invariant except `AnswersInv` holds on the instance of its run, as
TLC shows; that of `SidecarProofs` with its ids and replies taken from finite sets.
Assumptions are those on the constants that the modules name: `FleetsAssumption`, `BoundsAssumption`, `EntriesAssumption` (among others, that
the programs' first entries are given for every program), `ConfigsAssumption`,
`DocumentsAssumption`, `ReservationAssumption` (whole numbers, a poll interval and a
cap that are not zero), `SetupsAssumption`, `WindowAssumption`, `CallersAssumption` and
`MaxCallsAssumption`. TLC evaluates each in a run.

With this every safety property that a run checks is a theorem, for all values of the
constants, and so are both refinements. Model-checked only is liveness, which is
beyond the prover: `StartedEnds`, `WithdrawnEventStops`, `GarbledEventRejected`,
`ListedEventTakenUp`, `CallsReturn`, `StartDecided`, `StopEnds`, `SetpointComesBack`, `WithdrawalEnds`,
`ChoiceFollowed`, `ReportsResume`. That the trail
of statuses is legal is proved for the engine whose hooks all run; in the session, where
a mask or a missing `replyTo` keeps a Response back and a POST may fail, the server is
told less, and `EventAnswers` says nothing of that.

## Findings

1. **A received event can be stranded** (`events_wedge`, `DueReceivedStarts`).
   The tick looks at the first popped event only. If that is not the active
   event, both leave the queue and neither starts; the active one stays
   EVENT_RECEIVED, and in the way of every later event, until the server takes
   it from the list. The comment on the transition order says every popped
   event that matches the active mRID is started.
2. **One hung GET ends the control polls** (`session_poll`, `PollingGoesOn`).
   `PollDERControlList` returns when an error is a `context.DeadlineExceeded`, which
   it takes for the end of its own context. A GET that runs into the HTTP client's
   30 s timeout is one, too. Nothing starts the loop again and `main` logs nothing;
   from then on only notifications bring controls and withdrawals. The comment on
   the loop promises that a flaky server does not silently halt control polling.
3. **A refused event can be answered as cancelled** (`session_rejected`,
   `RejectedNotCancelled`). The step reads the rejected items and the controls
   separately; a refresh in between makes an event that turned undecodable look
   removed. `Reject` promises that it is not answered with 6.

## Limits of the models

Of the modules in general:

- Durations are ordered, not measured: how long a slow POST delays a tick, the
  length of a backoff and the start timeout are outside.
- The first snapshot of the tick goroutine is not empty if a poll was quicker: the
  controls in it are never added, and their events never start, although the
  initial tick is there "so a fresh poll seeds the state machine"
  (`cmd/inverterclient/main.go:925`). `DERControlSession` contains this race;
  `ListedEventTakenUp` leaves out the runs in which a list is stored before the
  snapshot, as it fails in them.
- Of several events that pop in one tick the first wins. The header of
  `statemachine.go` says that the second stays queued, another comment in the same
  file that it is dropped; the code drops it, and so does `StartDue`.
- A control listed again with another interval keeps its first window. The lists
  of the models carry no interval, so this does not show in them.
- A mask belongs to an event for good; the server does not change it in a later
  list.

`FleetSupervisors`. `NothingLeftBehind` speaks of the socket only for fleets that
once came up: a first start that fails after the sidecar bound its socket leaves
the file, and the next start removes it. `Stop` does not interrupt a first
start: it waits for it, bounded by the start timeout, and if that start fails
the fleet is Down, not Stopped, unless the context was cancelled. `FinalState`
is stated accordingly (`Asked`). `Check` looks for a cancellation and at the budget
in one step, as nothing in the code waits in between: a signal that falls between
the two counts as one that came later.

`ResponseDelivery`. The 30 seconds of the hook are an outcome, not a time. A 200
answer to a Response POST counts as an error in `postResponseOnce`, although the
comment of `deriveResponseHref` expects it of a repeated POST; the Response has
been taken by then, so nothing follows from it but a log line.

`FleetDevice`. Numbering setpoints in the order taken hides equal ones. A resync
after a *failed* newer apply may command the older setpoint again, as that is
the last one reported as applied; the register allows it. What an attribute
of GridLAB-D means is left out.

`Reservation`. Reading and consuming the request file, the overlay of the settings
with it, and the split of a target over the fleet's batteries are left out. No
property speaks of the acknowledgements (`acked`): that one is not repeated after the
server took it is a single guard in `acknowledge`.

`ManagedControls`. One event per program, with a base that decodes, one watched
list, and a server that acknowledges nothing. The end of the process during a
session is in `StartUp` only. The code reads the engine and then the default in two
steps, so `DriverObeyed` speaks of the ticks during which what drives the
device did not change: in others the tick may apply what was true at its first
read, and the next one corrects it.

`StartUp`. What makes a configuration unacceptable, other than a conflict of role,
is one nondeterministic exit. Goroutines go on requesting during the shutdown.
Not covered: a `Location` that is an absolute URL followed by a `Get`, whose
cached path is put behind the base URL and fails. The HTTP client's own 30 s
timeout matches `context.DeadlineExceeded`: a `Time` resource or DER list that
hangs therefore ends the process, where comments in phases 1b and 3 promise to go
on; the model has this exit. The comment of `SetManagedSet`, that it is
called before any goroutine sends a request, leaves out the time
synchronization; its requests never look at the set.

`DeviceLoop`. Time does not pass within a tick. Any set of codes may be an alarm.
`ReportStatus` of the own DER keeps no state and is left out. A re-created
reporter numbers its readings from 0 again, so that their mRIDs are distinct only
if the clock has moved on. An onset that is dropped by the rate limit, or
whose POST failed, is not told again, by design.

Not modelled:

- the device safety guards (`guards.go`): they wrap only `RealDevice`, a stub
  whose every operation returns `ErrBackendNotImplemented`, so the program
  reaches no state of theirs. By reading: the limiter refills all its tokens at
  once, so twice the `burst` may pass within one `window`, where its comment
  allows `burst`;
- floating-point control curves, replay of recordings, XML, TLS, configuration,
  the status page and the shell launchers: pure computation or I/O, left to tests.

## Plan

What is left, in this order:

1. Proofs: type correctness of `ManagedControls`, `StartUp` and `DeviceLoop` for all
   their variables; what may be told of an event in the session, with its masks and
   failed POSTs; the safety half of the liveness properties (what must hold while a
   withdrawal, a call or a stop is under way).
2. Intervals in the lists, for the update of an event's window
   (`cmd/inverterclient/main.go`, `diffSnapshots`).
3. `ManagedControls` on the whole engine, with several events per program.

## Running

    tlc -workers 2 -config Events.cfg MCEvents.tla
    tlc -workers 2 -config Session.cfg MCSession.tla
    tlc -workers 2 -config SidecarClient.cfg MCSidecarClient.tla
    tlc -workers 2 -config FleetSupervisors.cfg MCFleetSupervisors.tla
    tlc -workers 2 -config FleetDevice.cfg MCFleetDevice.tla
    tlc -workers 2 -config Reservation.cfg MCReservation.tla
    tlc -workers 2 -config ManagedControls.cfg MCManagedControls.tla
    tlc -workers 2 -config StartUp.cfg MCStartUp.tla
    tlc -workers 2 -config DeviceLoop.cfg MCDeviceLoop.tla
    for m in Event Sidecar Fleet FleetDevice Managed StartUp Reservation DeviceLoop
    do tlapm ${m}Proofs.tla; done

Each takes between seconds and three minutes. The three configurations of the findings
(`EventsWedge.cfg`, `SessionPoll.cfg`, `SessionRejected.cfg`) are expected to end in a counterexample.
