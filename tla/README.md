# FaultForge in TLA+

FaultForge injects faults into hosts and takes them out again. A **master** accepts experiments
from operators and orders **agents**, one per host, to run **fault plugins**; an agent must take
every fault out again whatever becomes of the master, of the plugin, or of itself. This directory
holds TLA+ modules of that program, the TLC configurations that check them, and proofs checked by
TLAPS. Paths below are relative to `src/`.

- [1 The system](#1-the-system) · [2 Modules](#2-modules-and-the-code-they-model) ·
  [3 Runs](#3-runs) · [4 Bounds](#4-bounds-and-why-they-are-enough) ·
  [5 Fairness](#5-fairness-and-why-the-code-justifies-it) · [6 Proofs](#6-proofs) ·
  [7 Divergences](#7-where-the-code-and-its-documents-differ) ·
  [8 Not modelled](#8-what-is-not-modelled-and-why) · [9 Plan](#9-plan)

## 1 The system

### 1.1 Components

| Component | Code | State it keeps | Operations |
|---|---|---|---|
| Instance machine | `crates/agent/src/machine.rs` | one `State` per fault instance (pure) | `step`: event -> new state, effects; `replay_recovery` |
| Supervisor and instance tasks | `crates/agent/src/supervisor.rs` | the instances map, one task per instance: machine state, event queue, stop channel | `handle_run_fault`, `handle_abort_fault`, `handle_clear_taint`, `run_instance`, `apply_effect`, `replay_journal` |
| Journal | `crates/agent/src/journal.rs` | one file per live instance | `write` (atomic), `remove` (idempotent), `list` |
| Taint record | `crates/agent/src/taint.rs` | one file: the host is quarantined | `mark` (first wins), `clear`, `current` (fails closed) |
| Plugin runner | `crates/agent/src/runner.rs` | a child process | `invoke` with a timeout |
| Catalog and digest gate | `crates/agent/src/catalog.rs`, `crates/fault/src/{catalog,digest}.rs` | plugin files of the agent, a catalog in the master | `load_plugin`; `resolve_verified` before every invocation |
| Agent session | `crates/agent/src/session.rs` | connection state, outbound channel (256), carry, start-up frames, backoff | register, report, drain, dispatch, reconnect |
| Fault contract | `crates/fault/src/{protocol,state,params,manifest}.rs` | none | commands, exit codes, lifecycle, validation |
| Experiment record | `crates/master/src/experiment.rs` | phase, instances, taints, cause (pure) | `validate`, `mint_experiment`, `apply_status`, `record_taint`, `kill_trigger`, `outcome`, `outcome_cause` |
| Dispatcher | `crates/master/src/dispatch.rs` | the store of records, behind one lock | accept and salvo, kill switch, halt, deadline, intake of statuses, reports, taints |
| Sessions and registry | `crates/master/src/{session,sessions,registry}.rs` | current stream of each host, taint flag, last seen | register, supersede, tear down |
| Servers | `crates/master/src/{server,management}.rs` | a channel of 32 frames per stream | gRPC and HTTP handlers, their views and status codes |
| noop-marker plugin | `crates/plugins/noop-marker` | a marker file on the host | inject, abort, cleanup |
| CLI | `crates/cli/src/{main,cli,script,api,output}` | none | run, wait, get, halt, agents, clear taint; exit codes |
| TUI | `crates/cli/src/tui` | the model behind the screen, an inbox | ticks, overlapping fetches, keys |

### 1.2 How they interact

An operator posts an experiment; the master validates it against its catalog and the hosts it
knows, mints a record and sends one `RunFault` per instance over the hosts' streams. The agent
spawns a task per instance. The task feeds events to `step` and performs the effects that come
back, in order: emit a status, write or remove the journal entry, mark the taint, invoke a plugin
command. Statuses go through one bounded channel that only a connected session drains. The master
applies them to the record; a failure, an unrequested abort or a taint fires the kill switch, which
sends `AbortFault` to every unfinished instance; a deadline task puts down whatever is unresolved.
An agent that loses the master aborts its faults by itself; an agent that restarts replays its
journal before it connects.

### 1.3 What is hard

- **Crashes.** The agent may die between any two effects; only files and the host survive. The
  master keeps nothing at all.
- **Recovery that fails.** Abort and cleanup may fail, time out, or be refused by the digest gate;
  they are retried once and then the host is quarantined.
- **Interleaving.** Stops arrive before, during and after a command; taints, statuses, halts and
  the deadline race for one record; streams of one host overlap; plugin files are replaced while
  they are read, hashed and run.
- **Waiting.** Every send waits for room: instance tasks on the agent's channel, master tasks on
  the streams. A waiting task holds back what it had still to do, and a handler whose client hangs
  up is dropped with it.
- **Delivery.** Frames may be lost with a stream, come twice or in an unforeseen order, and never
  be sent again.
- **Time.** A duration, a dead-man in whole seconds, a threshold of silence and invocation timeouts
  on the agent race with each other and with the deadline of the master.

### 1.4 What makes each part correct

- *Machine*: ends only settled; asks for inject once and only with an entry on disk; retries once;
  says why it ended.
- *Supervisor, journal, taint*: no fault in effect is ever without a journal entry or a
  quarantine; an end reported as clean is clean; quarantine outlives everything but `ClearTaint`;
  a duplicate order injects nothing; every fault is lifted in the end.
- *Session, between agent and master*: once both are silent the master shows what the agent has;
  no order is forgotten by both unless the code gives it up; the two wait for each other only where
  both directions of a stream are full.
- *Clock*: no active fault outlives its deadline; no stop comes unearned; the master gives up only
  on an agent that overran it.
- *Catalog, gate, plugin*: what runs is what was ordered; what the master accepts the agent
  accepts, as far as a digest can tell; no marker is left unnoticed; the exit codes do not lie.
- *Dispatcher, record*: no trigger is missed and no abort forgotten; the outcome and its cause stay
  what they were; every record concludes.
- *Sessions*: the newest stream of a host is the one that is used.
- *CLI, TUI*: an exit code is the truth; every command ends; the view neither sticks nor piles up
  requests.

`PROJECT.json` lists, under `hazards`, the places in the code where these can go wrong and the
properties that watch them.

## 2 Modules and the code they model

```
InstanceMachine              machine.rs, the pure machine (constant-level operators)
 |- InstanceMachineProofs    what Step returns
 |- MachineAlone             the machine fed any event at any time
 |   `- MachineAloneProofs
 |- Supervisor               one agent process: tasks, plugins, journal, taint, session, crashes
 |   |- FaultLifecycle       what an agent promises (abstract; Supervisor implements it)
 |   |- SupervisorInvariant  the inductive invariants
 |   |   |- MCSupervisor     TLC instances
 |   |   `- SupervisorProofs
 |- Deadlines                one instance against the clock, a session, and the master's deadline
 |   `- DeadlinesProofs
 |- FaultPlugin              what a plugin promises (abstract; PluginGate implements it)
 `- PluginGate               one order from VALIDATE to its end, with noop-marker and its files
     |- PluginCatalog        manifests, parameters, digests (constant-level operators)
     |- MCPluginGate         TLC instance
     `- PluginGateProofs
AgentLink                    the frames between one agent and the master
 `- AgentLinkProofs
ExperimentRecord             experiment.rs and the decisions of dispatch.rs (constant-level)
 |- Dispatcher               the master: store, tasks, streams, sessions, registry
 |   |- MCDispatcher         TLC instances
 |   `- DispatcherProofs
 `- Management               the handlers of the management API
     `- Console              one CLI or TUI process against it
         |- MCConsole        TLC instance
         `- ConsoleProofs
```

**InstanceMachine.** `Step(state, event)` is `step`, with one operator per function of
`machine.rs`. A state is a record: its kind, the stop that was recorded and, while recovering, the
command under way, whether it is the retry, and the outcome aimed at. Events and effects are
records over the code's vocabulary. Reasons are left out. Effects come as a sequence, because their
order is what crash safety rests on.

**MachineAlone.** `machine.rs` promises that `step` is total; here every event may come in every
state, also those no correct shell would deliver.

**Supervisor.** `pc[i]` is where the task of instance `i` stands in `run_instance`; each `await` or
blocking call of `apply_effect` is a step of its own, so a crash or another task fits between. The
correspondence is:

| TLA+ | code |
|---|---|
| `RunFault`, `AbortFault`, `ClearTaint` | the handlers of `Supervisor` |
| `Announce`, `Setup`, `TakeEvent`, `OperatorStops`, `TimerFires`, `Finish` | `run_instance`, `wait_for_stop` |
| `DoEmitStatus`, `DoWriteJournal`, `DoRemoveJournal`, `DoMarkTainted`, `SendTaintFrame` | `apply_effect`, `mark_tainted` |
| `InvokeNotStarted`, `StartInvoke`, `StopDuringRun`, `PluginActs`, `ProcessEnds`, `ForwardLine` | `invoke_gated`, `runner::invoke`, `forward_telemetry` |
| `ClearRemove`, `ClearSend` | the task `handle_clear_taint` spawns |
| `Connect`, `Disconnect`, `Drain` | `run_session`, seen from the supervisor |
| `Crash`, `Restart`, `ReplayEntry`, `ReplayUnreadable`, `Serve` | process death, `replay_journal`, `run_agent` |
| `OrphanActs` | a plugin process that outlived the agent |

The outbound channel is its fill level. Time is the freedom of a timer to fire, so every timing is
covered here and durations are the subject of Deadlines. A plugin acts on the host at some moment of
its run and keeps the exit-code contract (exit 0 of a recovery command and exit 20 of inject mean
the host is clean), which PluginGate shows of the reference plugin; it may also time out, be killed,
or never start. `live`, the set of instances whose fault is in effect, is the state of the host.
`reported`, `injected`, `marked` and `refused` are history variables: no guard reads them. The
branch of `run_instance` that treats an empty queue in an unexpected state as a dead-man stop is
left out; `NeverWedged` (in `SupervisorSound`) shows it is never taken.

**FaultLifecycle.** The abstract promise: statuses follow the lifecycle graph, a fault is live only
while the agent owes its removal, and the debt is discharged only when the fault is lifted or the
host quarantined for it. `Supervisor` implements it with the journal as the debt and the taint
record as the quarantine (`KeepsLifecycle`).

**AgentLink.** What the fill level of Supervisor leaves out: the frames. An instance is its view, its
journal entry and the effects still to be performed (`React`, `Perform`), in the order of
`InstanceMachine`. The session loop is one action per `await`: `Connect`, `AwaitAck`, `SendReport`,
`SendTaint`, `SendStartup`, `SendCarry`, `SendBeat`, `Receive`, `Notice`; `Forward` and `Beat` take a
frame of the tasks or a heartbeat in hand, and the loop reads nothing until it is gone. A stream is
open, broken or closed; the master reads what an older stream delivered before or after what a newer
one did (`Intake`), and forgets a stream when its reader ends (`Close`). A reader does one thing at a
time: it answers a `Register` or a `Heartbeat` (`Acknowledge`, `AnswerBeat`) and, where the frame
tripped a kill switch (`Trips`), sends the aborts one by one to the session it finds (`LookUp`,
`Deliver`), each waiting for room in a channel of `DownCap` frames. `Order`, `Stop` and `Relay` are
`RunFault`, `AbortFault` and `ClearTaint` from the master's other tasks, which can wait without
holding anybody back.

What may fail on disk fails here: `WriteMark` with `MarkMayFail`, a removal (`Unlink`), an entry that
cannot be read (`SkipEntry`), a journal that cannot be listed or a replay that dies (`AbandonReplay`).
The code logs each and goes on. History are `late` (what was read out of order), `lost` (orders and
ends the code gives up), `kept` (entries that could not be removed), `raced` (a mark overlapped a
clear), `unmarked` (the stream on which the newest mark failed, if it did), `quarantined` (what this
process gave up for quarantine) and `cleared`.

**Deadlines.** `wait_for_stop` and `next_stop` with integer time (`Arm`, `Rearm`, `TimerFires`,
`OperatorAborts`), invocations that take up to `LongestRun` (`InvocationEnds`): the timeout, the
retries of a busy entrypoint before it and half a second for each of the two pipes after it; the
session layer that dates the loss of the master (`Cut`, `SessionEnds`, `AttemptFails`, `Registers`)
with its backoff, and the master's deadline (`DeadlineExpires`). The scheduler is ideal: `Tick` does
not pass over a timer that is due.

**PluginCatalog, PluginGate, FaultPlugin.** `PluginCatalog` has `load_plugin`, the parameter checks
of `params.rs`, the plugin half of `validate` and the digest: manifest and program are sequences of
chunks, and `Digest` joins them without a boundary, so that two pairs of files may share one.
`PluginGate` follows one order: `Submit`, then before setup and every command `ReadManifest`,
`HashProgram`, `Spawn` with its retries, then noop-marker step by step (`PreflightDir`,
`PreflightProbe`, `WriteTemp`, `Persist`, `Revert`, `ProcessExits`, `ProcessKilled`), the machine
reacting to its exit code; meanwhile files are replaced (`Install`), the directory changes its mode
(`ChangeMode`), removals and marks fail (`Perform`), the agent dies and returns (`Crash`,
`Restart`). `unwritten` says that the newest mark could not be written, `denier` which manifest
denied an order. It implements `FaultPlugin`, the contract Supervisor assumes (`KeepsContract`).

**ExperimentRecord.** One operator per function over the record, from `Mint` to `OutcomeCause`, and
the decisions `dispatch.rs` takes under the lock (`FireKillSwitch`, `ReactToUpdate`,
`ConcludeIfDone`, `Halt`, `ResolveDeadline`), each returning the new record and the instances to
abort. The live states of an instance are one state, `Live`: nothing on the master distinguishes
them.

**Dispatcher.** One task per request, per halt, per deadline and per stream. A task changes the
store in one step, as the code does under its lock, and then sends frame by frame: `LookUp` takes
the current stream of the host (or drops the frame when there is none), `Push` waits for room in
that stream, which may have been superseded or broken meanwhile. `Submit` validates, `Accept` mints
and starts the salvo, `ArmDeadline` spawns the deadline task once the salvo is sent, `HangUp` drops
a handler whose client is gone, `Register`/`Break`/`Close` are the life of a stream. `Status` and
`Taint` are the frames of an agent; an `InstanceReport` is a sequence of `Status` steps, as in
`handle_instance_report`. Agents may say anything of an instance they were told to run, in any
order, and any taint. Frames a stream has taken are read by the agent or lost with the stream. `gone`
is history: aborts handed to a stream or dropped.

**Management, Console.** `Management` has the handlers of the HTTP API over one record and a fleet:
what each finds, changes and answers, while agents report, others act, the deadline passes and the
master restarts. `Console` is one process of the operator: a subcommand with its requests, its wait
loop and its exit code, or the fleet view, whose event loop takes ticks, keys and the results of
fetches that may overlap.

## 3 Runs

| Run | Instance | Question | Answer |
|---|---|---|---|
| `MachineAlone` | every event in every state | can events alone make the machine end unsettled, inject twice or unjournaled, or misreport its cause? | no |
| `SupervisorOne` | 1 instance, 2 orders, 2 stops, a `ClearTaint`, 2 crashes, channel of 2, master reachable again and again | is a fault ever stranded, an end untrue, inject repeated, the lifecycle broken? is every fault lifted, does every instance end? | no; yes |
| `SupervisorTwo` | 2 instances, a crash, a journal that may not list | does quarantine outlast everything but `ClearTaint`, and refuse new faults? | yes |
| `SupervisorFrail` | no master ever, room for all frames; taint may not be written, journal not listed, plugins may survive the agent | do tasks still always end? | yes |
| `SupervisorBlocked` | no master ever, channel of 3 | is an active fault lifted without the master, as the specification says? | **no** |
| `DispatcherRace` | 1 experiment on 2 hosts, a halt, clients may hang up | is a trigger missed, an abort forgotten, an outcome or a cause overwritten, a newer session evicted? | no |
| `DispatcherLive` | 2 experiments on 1 host, clients wait | the same across experiments that share a stream and its room; does every record conclude? | no; yes |
| `DispatcherLateAbort` | 1 experiment on 2 hosts, a halt | does the kill switch stop every instance? | **no** |
| `AgentLink` | 1 instance, channel of 1, 1 frame each way on the stream, 2 breaks, restarts, failed removals, heartbeats, stops or clears, a journal and a taint record that may fail | does the master, once all is silent, believe something untrue? is an order forgotten that the code does not give up? do the two wait for each other unless both directions are full? | no |
| `Console` | 2 hosts, 1 experiment, 3 troubles, 1 key | do exit codes lie? does a command hang, the view stick or flood? | no |
| `PluginGate` | files that share a digest and files that do not, 2 files replaced, one mode change, stop and crash, writes that fail | does anything but the ordered bytes run? is a validated order denied where the digest is not blind? is a marker left unnoticed? is the contract kept? | no; no; no; yes |
| `Deadlines` | 14 ticks, 2 to a second | is a stop late or unearned? does the master give up too early? | no |

The properties. A name that ends in `Sound` is the type invariant of a module together with one
named invariant: `MachineSound` (`EndsSettled`), `SupervisorSound` (`NeverWedged`), `LinkSound`
(`EndsAreFinal`), `ViewSound` (`LoadingHonest`), `GateSound` (`QuarantineHasCause`), `TimersSound`
(`DeadmanMeansLateStart`), `RecordsSound` (the three invariants of the records, where experiments
share a host).

- *MachineAlone*: `EndsSettled`: a finished instance has no entry, and cleanup succeeded or
  quarantine was asked for if inject may have touched the host. `OutcomeFollowsCause`,
  `InjectsJournaled`.
- *Supervisor*: `NoStrandedFault`: a fault in effect has a journal entry or its failed recovery
  marked the host. `CleanOutcome`: an instance reported `Done` or `Aborted` left the host clean.
  `QuarantineHolds`, `TaintRefuses`: with no `ClearTaint`, a fault nobody will lift finds the host
  tainted; an order given to a tainted host runs no plugin. `NeverWedged`: no
  task waits for an event nobody owes it. `InjectsOnce`, `KeepsLifecycle`;
  `FaultsAreLifted`, `AcceptedConcludes` (liveness).
- *Dispatcher*: `TriggersTaken`: between two steps no running record holds a trigger, none that could
  conclude is left open. `HaltReachesAll`: in a halting record every unfinished instance has an abort
  on its way, sent, or dropped for want of a session or with its client. `OutcomeTrue`: a concluded
  record still says what its instances and taints say, and why. `FirstCauseKept`; `NewestIsCurrent`;
  `ExperimentsResolve` (liveness).
- *AgentLink*: `LiveViewsAgree`: once all is silent the master shows the live instances as they are,
  except for what an older stream said later. `NothingVanishes`: an order is not forgotten on both
  sides, except among what the code gives up: frames of a broken stream, what a restart forgets, and
  entries a replay could not read or did not come to. `TaintKnown` has two parts. `FlagAgrees`: the
  flag at the master is what the disk of the host says, unless a mark raced a clear or was not
  written. `QuarantineReported`: an agent that gave an instance up keeps that flag raised as long as
  its process lives and nobody clears the taint, or, where the record was not written, until its next
  registration. `EndsAreFinal`: an instance whose end the master was told does
  not run, and a replay can find its entry only where removing it failed. `NeverStalled`: short of
  silence one side can go on, unless both directions of the stream are full while the loop and the
  reader each have a frame in hand (`BothFull`), or an older stream took the session. The state
  `BothFull` names is real: without it TLC finds, in twenty steps, an agent that holds a status and a
  master that holds a heartbeat answer.
- *Console*: `ExitTellsTruth`; `LoadingHonest`: the view that says it is refreshing will hear of it,
  and a hung master cannot pile up requests. `CommandsEnd`, `ShownCatchesUp` (liveness).
- *PluginGate*: `RanAsOrdered`; `ValidationAgrees`: an agent denies a validated order for its
  parameters or its duration only by a manifest that is the master's with the cut moved (`Recut`);
  `MarkerAccounted`: a marker has an entry, a quarantine, or a mark that could not be written;
  `QuarantineHasCause`: nothing is quarantined unless a file was replaced, the directory changed or
  a process was killed; `KeepsContract`.
- *Deadlines*: `NeverLate`, `StopsEarned`, `OverInTime`, `MasterOutwaits`; `DeadmanMeansLateStart`:
  the dead-man ends an active fault only if it became active later than the grace allows.

Every run sets `CHECK_DEADLOCK FALSE` except `MachineAlone`: an agent with no order left, a master
with no request left, a process that exited and a clock at its horizon are idle, which is no fault.
Where an unwanted stop matters it is a property: `SupervisorSound`, `NeverStalled`, and liveness.

## 4 Bounds and why they are enough

- *Instances (1 or 2).* Tasks share only the channel, the taint record and the journal directory.
  One instance meets every interleaving with crashes, stops and the channel; two meet those
  through the taint record and the room in the channel. The theorems have no such bound.
- *`OutCap` (1 to 3, 14; 256 in the code).* What matters is whether there is room. 1 makes
  every send wait; 14 is more than one instance ever sends, so nothing waits without a master.
- *`MaxLines` (0 or 1)* telemetry lines per invocation; *`MaxStops` (0 to 2)* stops waiting: the
  machine tells a first stop from a later one, not a second from a third.
- *`MaxRuns` (1 or 2)* deliveries of one order; *`MaxCrashes` (1 or 2)*: two crashes allow one
  during the replay of the other.
- *`Clear`*: at most one `ClearTaint`; `SupervisorTwo` has none, as its properties say.
- *`MaxStreams` (1 or 2)*: one stream of each of two hosts, or two of one, so that one supersedes
  the other. *`ChanCap` (1; 32 in the code)*: room or none. *`MaxHalts` (0 or 1)*. *`MayHeal`*:
  `FALSE` in `DispatcherRace` keeps its state space small; the flag it concerns is read by validation
  only.
- *AgentLink*: `WireCap` 1 (64 in the code) lets a stream break before, within and behind a frame;
  `DownCap` 1 (32) is full with one frame, so that every answer and abort may have to wait; `OutCap` 1
  lets one frame of a task lie in the channel while the loop carries the frame before it and the next
  one waits for room. `MaxTrouble` 2 bounds breaks, restarts, failed removals,
  heartbeats, stops and clears together: three streams, or a break during the registration after a
  restart, or a heartbeat and a clear that fill the stream both ways. Unreadable entries and abandoned
  replays need no bound. One instance: frames of different instances meet only in the order of one
  channel.
- *Console*: `MaxTrouble` 3 covers a restart between two polls together with a lost session and a
  failed request; one key gives two overlapping fetches and one more behind them.
- *PluginGate*: two programs, four manifests and two versions tell the ordered bytes from others;
  one manifest begins with the bytes of another and one program with those it lacks, so two pairs of
  files share a digest. Two replacements put one before and one after a hash. `SpawnRetries` 1 (5 in
  the code): retried and given up.
- *Deadlines*: two ticks to a second make the rounding of the dead-man visible; durations of 1 and 2
  seconds, a grace of 0 or 1, a threshold of 3 ticks, a `LongestRun` of 1 and a margin of 5 let
  every timer come before and after every other; 14 ticks see every instance to its end (`Horizon`).
- In `SupervisorTwo` the journal may fail to list, and an id is ordered once: a master mints a new
  id for each instance, so an id whose entry a failed listing left on disk is not ordered again.
- `SupervisorTwo` is symmetric in instances; it checks safety only.

## 5 Fairness and why the code justifies it

*Agent* (`Fairness`, `OfflineSpec`): every task is polled by the runtime, so a step that stays
enabled is taken; a plugin process ends because `wait_with_timeout` kills it; blocking file calls
return; the service manager restarts a dead agent (`Restart=always` in
`openspec/changes/archive/2026-07-04-agent-fault-runtime/design.md`). Nothing is assumed of the
master, the operator, stops, crashes or what a plugin does to the host. `FairSpec` adds that the
agent's endless reconnection succeeds (`WF` of `Connect`) and that a session which is there again
and again takes a frame sometime (`SF` of `Drain`).

*Master* (`FairSpec` of Dispatcher): tasks are polled, sleeping deadlines wake, and a stream with
frames in it is read or breaks in the end. The last is the assumption the code leaves to the
transport: a peer that neither reads nor closes makes senders wait for ever. No fairness is
assumed of operators or of what agents say.

*Console* (`FairSpec`): both programs go on; a request is answered or fails, within the ten seconds
the client allows it; a deadline that was armed passes; `select!`, which picks among its ready
branches at random, starves neither the ticks nor the inbox. Nothing is assumed of keys, agents or
other operators.

## 6 Proofs

All theorems hold for every set of instances, experiments, hosts and streams, every capacity and
every bound; only Console asks that its set of hosts is finite, as the registry is. Eight modules
hold them, and between them they state every invariant, every action property and both refinements
that the passing runs check.

**InstanceMachineProofs.** `StepType`: in every well-formed state and for every event `Step` returns a
well-formed state and effects of the vocabulary. Its lemma `StepCases` turns `Step` into a table of
moves, from which all that follows reads what a step may do.

**MachineAloneProofs.** `NoEventsUnsettle` (`MachineSound`), `TheEndSaysWhy` (`OutcomeFollowsCause`)
and the action property `InjectNeedsItsEntry` (`InjectsJournaled`), with no assumption: any event
may come in any state. The properties speak of the end; the invariant `AloneInv` says of each state
on the way what may have been asked of the host by then. `WhileRecovering` is what the end rests on:
the cleanup is the last command of every recovery, and the outcome aimed at is the one the stops so
far give. The proof goes state by state (`FromPending` to `FromTerminal`), each with the table of
its moves.

**SupervisorProofs.** `TypeCorrect`: `Spec => []TypeOK`, with no assumption but `BoundsAssumption`.
`TypeOK` alone is not inductive, since `Tail` and `Head` of a task's effects need to know there is
one: the invariant adds `UnderWay`, which ties `pc` to the effects. `FaultsAreAccountedFor`: `Spec
=> []NoStrandedFault`, assuming `~OrphansSurvive`, `~MarkMayFail` and `~ListMayFail`.

The argument of the latter. `NoStrandedFault` relates the host to the disk, but what keeps it true is
in the tasks: that inject is asked for only after an answer `JournalWritten`, that a removal is
asked for only in a terminal state, that a terminal state is entered only on an answer that is true
of the host, or with `MarkTainted` ahead of `RemoveJournal`. `Accounted` (SupervisorInvariant) says
this as a conjunction of named parts: where a task stands (`UnderWay`, `Placed`), what its effects
may be (`EffectsFit`), that a request has one answer (`OneAnswer`), that answers are true of disk
and host (`AnswersHold`), when there is nothing to lift (`SettledWhenOut`), and the order of replay
(`ReplayOrder`). The step lemma splits into the task that moves (`OwnStep`), the tasks that do not
(`OthersStep`), replay (`OrderStep`) and the property itself (`NothingStranded`).

The three assumptions are needed: a plugin that outlives the agent can inject after replay; a
taint that cannot be written is only logged while the entry is removed all the same; a journal that
cannot be listed is not replayed, and its instance may be ordered anew.

Four more concern the outcomes.

- `NoTaskStandsStill`: `Spec => []NeverWedged`, whatever fails. The invariant `Awaited` says that a
  state which has to be left has its request among the effects or the answer to it in the queue.
  With `TypeCorrect` it gives `TheSupervisorIsSound` (`SupervisorSound`).
- `TheEndToldIsTrue`: `CleanOutcome`, under the three assumptions. `Told` adds to `Accounted` that a
  terminal status is among the effects of a terminal state only, and that the end of an earlier run
  of the id was replaced before a fault starts again.
- `QuarantineOutlivesAll`: `QuarantineHolds`, under the same assumptions and `Clear = {}`. The
  invariant is that a marked instance finds the host tainted.
- `ATaintedHostRefuses`: `TaintRefuses`, whatever fails. `Refused` follows a refused instance from
  its order to its end: its queue holds nothing but `SetupFailed`, its effects only a status.

`InjectStartsOnce`: `Spec => InjectsOnce`, whatever fails. Inject is asked for by the step that leaves
the states before it, as the last effect of that step, and a replay starts behind it: `Once` says so,
and that a task whose inject was started is running it, or has no request for it left.

`TheAgentKeepsItsPromise`: `Spec => KeepsLifecycle`, under the three
assumptions. `Accounted` says why an entry may be removed; for the rest `PromiseKept` is needed: what
is still to be reported is the state the machine is in, once, and follows what was reported
(`Reports`); while a fault may be in effect its entry is on disk, and the host is marked before the
entry goes (`Grounded`). Then initial states map to initial states and every step to a step or a
stutter (`StepRefines`): `Announce` to `Accept`; `DoEmitStatus` to `Report` or, after a restart,
`Resume`; `DoWriteJournal` to `Undertake`; `PluginActs` to `GoLive` or `Lift`; `DoRemoveJournal` to
`Discharge`; `DoMarkTainted` and `ReplayUnreadable` to `GiveUp`; `ClearRemove` to `EndQuarantine`.

**DispatcherProofs.** No assumption but `ConstantsAssumption`: clients may hang up (`MayCancel`) and
taints may go (`MayHeal`). Every change of the store is one decision on one record, written
`Decides`; the proofs therefore speak of one record at a time. `Settled(x, hosts)` is what holds of a
record between two steps: a halted one has asked every unfinished instance to abort, a concluded one
has the outcome its instances give and a cause, an open one has no trigger and something unfinished.
Each operator of `ExperimentRecord` keeps it; the smallest failed instance, which names the cause,
exists because the naturals are well-founded (`MinExists`). `MasterInv` adds to it that types fit the
targets (`RecordsFit`, `TasksFit`), that asked instances have their abort with a task or in `gone`
(`AbortsKept`), and that a session belongs to the newest open stream (`StreamsOrdered`). From it:
`RecordsStaySound` (`RecordsSound`, which contains `TypeOK`), `NoTriggerIsMissed` (`TriggersTaken`),
`TheSwitchForgetsNone` (`HaltReachesAll`), `OutcomesAreTrue` (`OutcomeTrue`), `TheFirstCauseStays`
(`FirstCauseKept`), `TheNewestStreamIsUsed` (`NewestIsCurrent`).

**AgentLinkProofs.** No assumption but that the channels hold at least one frame; marks, removals,
readings and replays may fail. `EndsStayEnds` (`LinkSound`), `OrdersAccounted` (`NothingVanishes`),
`LiveViewsKnown` (`LiveViewsAgree`), `TaintIsKnown` (`TaintKnown`). All but the first speak of the
moment both sides are silent, when nothing is under way; the invariant `LinkInv` says the same while
frames are. `Accounted` follows an order from the stream to the end of its instance, through the
entries a replay has still to go through, or to what is given up. `OnItsWay(t, v)` is the heart: of
a topic (an instance, or the taint) either the last frame on the way, in the outbound channel, then
the carry slot, then the newest stream, tells what is true now, or none is on its way and the master
knows, or the report of the next session will tell. Of the taint it is asked only while no mark has
raced a clear or failed (`Sure`), and it gives `FlagAgrees`. Behind it stand `Streams` (only the
newest stream is read or written by the agent), `Agent` (a task's effects fit its view, a restarted
process remembers nothing) and `Final` (an end is said after its entry was removed or kept, and
once).

`NobodyStalls` (`NeverStalled`) needs a second invariant, `Registration`, inductive next to
`LinkInv` (`RegistrationInvariant`). Per stream, `Register` is on the wire, or read and not yet
acknowledged, or its acknowledgement is on the way back, or the agent is past it: in one of these
places at most (`Handed`), and in one at least while the agent waits on an open stream (`Awaited`).
The stream registered last is the session until it closes (`Current`), and a stream that is not in
use carries nothing (`Emptied`). From there the proof goes by what each has in hand. A reader that
cannot go on has nothing in hand, or waits for room in a full channel of the newest stream, which is
open (`ReaderWaits`). A loop with a frame in hand faces a full wire, which its reader would read
were it free: that is `BothFull`. Any other loop has read all that is on its way to it
(`LoopWaits`), so no reader waits for room and no wire holds a frame; an acknowledgement it waited
for would be in one of these places (`Awaited`); and the outbound channel is empty, so tasks have
had room (`SilentTasks`). What is left is `Quiet`.

The other half of `TaintKnown`, that a quarantine is reported, is hard where the record was not
written: what is true is then on no disk, only in one frame. The invariant `Quarantine` follows that
frame. Until a `ClearTaint` no mark races a clear, and what was given up is on record or its mark
failed (`Given`); no frame of a task denies the taint (`Undenied`); and while the stream on which the
mark failed is the newest, the frame is still to be told, or waits in the outbound channel, or has the
last word on the way to the master, since the taint frame of the registration was pushed before it
(`Loud`). The next registration ends this, as `QuarantineReported` says.

**PluginGateProofs.** No assumption but that the bounds are numbers. `RunsAsOrdered` (`RanAsOrdered`),
`OrdersValidated` (`ValidationAgrees`), `MarkersAccounted` (`MarkerAccounted`), `QuarantinesHaveCause`
(`GateSound`), and the refinement `ThePluginKeepsItsContract`: `Spec => KeepsContract`, step by step.
The invariant `GateInv` has one part per subject: where the task and the gate stand (`Placed`); the
files, the digest and the order (`FilesFit`: as long as nothing was replaced every command resolves);
the directory (`DirectoryFits`); the marker against the entry, the quarantine, a failed mark and the
exit code about to be returned (`MarkerFits`); why a recovery command can fail (`CauseFits`).
`OrdersValidated` rests on two facts about sequences: of two manifests that share a digest with some
program each, one is a prefix of the other (`DigestsTell`), and a manifest with the bytes of the
master's is the master's, since its bytes are what it is parsed from (`FilesAssumption`).

**DeadlinesProofs.** Assumed is `TimesAssumption`: durations, graces, thresholds and timeouts are
unsigned numbers, as in the code; an invocation is over within `LongestRun`; the backoff is capped
at a second or more, and the horizon is not below one. `FaultsEndInTime` (`NeverLate`),
`OnlyALateStartMeetsTheDeadman` (`TimersSound`), `InstancesEndInTime` (`OverInTime`), and as action
properties `EveryStopIsEarned` (`StopsEarned`) and `TheMasterOutwaits` (`MasterOutwaits`). The
invariant `TimeInv` has one part per clock: commands begin and end in time (`Prompt`), the loss the
agent published follows the silence of the master by at most `Notice` (`Heard`), a sleeper is armed
for the next stop or has news it has not looked at yet (`Armed`), no stop is overdue (`InTime`,
since `Tick` does not pass over what is due), and the bounds are carried through the recovery
(`Ended`). What `Step` does is used through lemmas that name the move of each state.

**ConsoleProofs.** `TheExitCodeIsTheTruth` (`ExitTellsTruth`) and `TheViewIsSound` (`ViewSound`), for
any finite fleet and any experiment. The first is about time: the code is chosen from an answer, and
the experiment goes on while the answer travels and after the process has exited. `CommandInv`
therefore says what cannot change any more (`StoreInv`: a record that has concluded has nothing left
unfinished, so no status moves it; its step lemma `StoreStep` adds that what was minted stays minted
or wiped, and the outcome of a concluded record stays), that a given answer stays true
(`AnswerTrue`), where the process stands with what it was told (`PlaceInv`), and that the exit code is
true and stays so (`ExitInv`). The second counts: `ViewInv` says that a fetch is in flight or its
result waits in the inbox, at least one while the view says it is loading, and beyond one no more
than were forced, which the keys pressed bound. Hence a free fetch always exists for the next one.

Only model-checked: the liveness properties `FaultsAreLifted`, `AcceptedConcludes`,
`ExperimentsResolve`, `CommandsEnd` and `ShownCatchesUp`, because fairness is out of the prover's
reach. So is `ENABLED`: who can go on is therefore written out in `CanGoOn`, by the guards of the
actions.

## 7 Where the code and its documents differ

Two are shown by a run, and listed under `findings`:

- **A full channel disables the self-abort** (`SupervisorBlocked`, `supervisor.rs:338`). The
  statuses of the abort wait for room in a channel that only a session drains.
- **An abort can overtake its order** (`DispatcherLateAbort`, `dispatch.rs:179`). The salvo goes on
  after the kill switch has fired; the agent ignores an abort of an unknown instance.

Others were met while modelling; the properties exempt them by name or bound them, and no run is
spent on them.

*Master.*
- The deadline task is spawned after the salvo, inside the HTTP handler: a client that hangs up while
  a send waits takes both with it (`dispatch.rs:146`). Aborts go the same way: instances are marked as
  asked before the frames are sent, so `HaltReachesAll` counts what `HangUp` dropped as `gone`, and
  `ExperimentsResolve` holds with `MayCancel = FALSE` only.
- An experiment halted by an operator that then ends in an error names no host (`dispatch.rs:492`,
  `experiment.rs:576`): the operator's halt is the cause that was first.
- `HALTING` may still end `COMPLETED`, when every instance was done before its abort arrived; the
  specification `fault-e2e-harness` (line 78) does not foresee it.

*Streams.*
- A `Register` read after that of a newer stream supersedes it (`sessions.rs:18`,
  `crates/master/src/session.rs:146`); when the older stream closes, the host has no session
  although its agent holds one. `NeverStalled` exempts it.
- A terminal status lost with a broken stream is not told again: the report lists live instances,
  although a comment (`crates/agent/src/session.rs`, near 306) counts on reconciliation
  (`NothingVanishes`, through `lost`).
- The one carry slot is overwritten when the report or the taint frame fails in turn
  (`session.rs:254`), and an order that arrives before `RegisterAck` is skipped (238).
- Agent and master can wait for each other for ever: the loop holds a frame for a full stream and
  reads nothing (`session.rs:295`), the reader at the master holds an answer or an abort for a full
  channel and reads nothing (`crates/master/src/session.rs:205`, `dispatch.rs:222`). Heartbeats are
  not timed out on either side, so only a break of the stream ends it. No document promises
  otherwise; `NeverStalled` exempts it by name (`BothFull`). It takes 64 frames one way and 32 the
  other.
- A journal entry that cannot be removed is logged and the end told all the same (`supervisor.rs:528`,
  791): a restart recovers, and reports, an instance that is over, which the comment there foresees
  (`EndsAreFinal`, through `kept`).
- An entry that cannot be read quarantines the host and names no instance (`supervisor.rs:727`); a
  journal that cannot be listed (709) and a replay task that dies (`session.rs:130`) are logged, and
  the frames of the replay lost with it. The master hears no more of those instances; its deadline
  ends them (`NothingVanishes`, through `lost`).
- The frame that answers a `ClearTaint` may overtake that of a newer taint (`TaintKnown`, through
  `raced`).
- Of a quarantine that could not be written a comment says "It still reports the taint for this
  process's lifetime" (`supervisor.rs:683`). The record in memory is dropped after one frame, and the
  next registration of the same process reads the missing file (`session.rs:257`) and says clean:
  `TaintKnown` promises the report up to then (`unmarked`).

*Time.*
- A half-open link is noticed only when the stream errors: missing heartbeat acknowledgements are not
  timed out (`session.rs:273`), and the threshold is counted from that error, whereas the
  specification `agent-fault-runtime` (125) and ADR-0002 count from the last contact. `NeverLate`
  therefore assumes `Notice`.
- The dead-man is armed in `Active` only: a start that hangs is bounded by its invocation timeouts,
  which `OverInTime` adds up. The margin of the master is 30 seconds, four invocations at their
  default timeout are 240 (`crates/agent/src/config.rs:17`): `MasterOutwaits` says what must hold
  for it to suffice.
- The dead-man counts from the whole second of the start and the duration from `Active`: a preflight
  or an inject slower than the grace lets the dead-man come first, and a punctual fault ends in
  error (`DeadmanMeansLateStart` says that nothing else does). A wall clock that is set during a
  sleep (`supervisor.rs:553`) shifts it.

*Plugins.*
- Between hash and spawn a file may be replaced, so that other bytes run than were hashed
  (`RanAsOrdered` exempts it); the gate's specification says such bytes shall not execute.
- The digest joins manifest and program without a boundary, as its test says
  (`fault/src/digest.rs:112`): under the digest that was ordered, an agent may hold a manifest that is
  the master's cut shorter or grown longer, with another schema and another bound. `ValidationAgrees`
  exempts this one and `RanAsOrdered` speaks of the bytes joined. Where the cut leaves no valid YAML
  the case does not arise; the module leaves open which cuts do.
- A taint record that cannot be written is logged and the entry removed next (`supervisor.rs:684`), so
  that a marker may stay with nothing on disk to answer for it (`MarkerAccounted`, through
  `unwritten`). Supervisor has the same in `SupervisorFrail` and assumes it away elsewhere.
- Two instances given the same `marker_path` share the marker (`noop-marker/src/main.rs:255`).
- The order is written to a plugin in full before its output is read and its timeout starts
  (`runner.rs:83`); Deadlines presumes that it is read, or fits the pipe. Nothing ties a plugin
  process to the agent that spawned it.
- The terminal steps remove the journal entry before the terminal status is queued, where the agent's
  specification has the opposite order.

*Operator.*
- The CLI exits with 1 when its request timed out, although the experiment may have been accepted.
- `tui/model.rs:18` says that `loading` tells whether a fetch is in flight; with forced fetches the
  first answer clears it, and an older answer may overwrite a newer one until the next tick.

## 8 What is not modelled, and why

- `crates/agent/src/{config,main}.rs`, `crates/master/src/config.rs`, start-up and shutdown of the
  servers: parsing and wiring, with no state to check.
- `crates/proto`: generated code and conversions; frames are abstracted by the modules that exchange
  them.
- Rendering: tables, JSON, drawing of the TUI; reasons, logs, timestamps, names and paths of files,
  fsync, the pipes of a plugin and the parsing of its telemetry.
- Last-seen times, the interval of heartbeats and protocol violations: they change no state a decision
  reads. Heartbeats themselves are frames of AgentLink, since they need room.
- Two runtime threads between two locks of one handler: `set_taint` and the update of the records
  are one step; no property could tell, as validation reads the flag and nothing writes it back.
- A master restarted under live agents is modelled where it is felt: in Management, as the loss of
  everything, and in AgentLink, Supervisor and Deadlines as a session that ends.
- `noop-marker report`, which nothing runs; the end-to-end harness, which is test infrastructure.

## 9 Plan

Done: sections 2 to 6. What would come next:

1. A composition of `Dispatcher` with two agents reduced to `FaultLifecycle`, to state that a
   halted experiment leaves no fault in effect on any host that still listens.
2. `AgentLink` with two instances and the terminal frames of both: its state space is past what TLC
   covers in minutes at the present grain, so it needs an abstraction of the effects first.
3. Theorems about the composition of 1.
