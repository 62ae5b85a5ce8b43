# Stepsemble: models, checks and proofs

This directory holds TLA+ specifications of the parts of the Stepsemble Host
that carry most of its concurrency, the TLC runs that check them on small
instances, and TLAPS proofs of what holds for every instance.

| part | specification | instances for TLC | proofs |
|---|---|---|---|
| messages that wait for an agent | `ComposerQueue`, which implements `MessageDelivery` | `MC_ComposerQueue` + 4 cfgs | `ComposerQueueProofs`, `ComposerQueueStoreProofs`, `ComposerQueueSendProofs` |
| Goals and schedules | `Workflows` | `MC_Workflows` + 4 cfgs | `WorkflowsProofs`, `WorkflowsTurnProofs` |
| the pool of Codex app-servers | `CodexPool` | `MC_CodexPool` | `CodexPoolProofs` |
| a supervised task, its Host and its journal | `AgentTasks`, which implements `ApprovalDelivery` | `MC_AgentTasks` | `AgentTasksProofs` |
| who may use a Claude conversation's process | `ClaudeConversation` | `MC_ClaudeConversation` + 2 cfgs | `ClaudeConversationProofs` |

`PROJECT.json` lists the runs, the lines of source each definition models, the
hazards of the code and the properties that cover them.

## 1. The system

Stepsemble is a self-hosted workspace for local coding agents (Pi, Codex,
Claude Code, Grok, OpenCode, Antigravity). One Node process, the *Host*
(`server.js` and `server/*.js`), starts the agents as child processes, speaks
each one's protocol and serves web pages. Pages come and go; the Host owns
all work. All concurrency in the Host is that of one event loop: a handler is
atomic up to its next `await`, callback or timer, and the specifications take
exactly these places as the boundaries of their actions.

### Inventory

| component | state it keeps | operations | what is hard |
|---|---|---|---|
| **Composer queue** (`server/composer-queue.js`, `composer-queue-drivers.js`) | per conversation: messages in order with state, stage and revision, a pause; an index file and one file per message; in-flight marks and confirmation timers | add, edit, remove, take, move, send now, resume, Stop, direct send; dispatch, deliver, confirmation, observe, reclaim, load | several devices; a send that is answered before, during or after the agent's own reports; Stop during a send; restart during a send; failed writes |
| **Goals and schedules** (`server/workflows.js`, `workflow-events.js`, bridge in `server.js:5592-5734`) | runs, schedules, `workflows.json`; a coroutine and an AbortController per run in flight; sends not acknowledged, owned turns, waiters | create, run now, pause, stop, resume, dismiss; tick (fire, limits, admission), launch, retry, restart | stops that overtake sends, admissions that go stale, crashes between steps, several users of one conversation |
| **Command receipts and session journal** (`protocol/command-state.js`, `transaction-state.js`, `server/session-journal*.js`, `generic-session-journal.js`, `connector-approval.js`) | SQLite transactions in a worker, pending calls, receipts of commands; the run and the approvals of a session | execute, read, grant, recover | a worker that answers late or dies; results nobody can know; retries of what was committed; a decision recorded and not sent, or sent and not recorded |
| **Codex native pool** (`server/codex-native-pool.js`, `codex-app-server-transport.js`) | at most four child processes, one live thread each; calls on their way | start, resume and use of threads, admission, eviction, retirement, release, close | a child chosen for eviction while a call for it arrives; children that fail before, during or after their answer; a close that is never confirmed |
| **Agent task supervisor** (`server/agent-task-supervisor.js`, `agent-connectors.js`) | a task that outlives the Host, its socket and snapshot file | open, attach, replay, input, approval, stop, exit, reconnect | Host restarts, a socket that breaks with words on it, a decision given twice, an acknowledgement nobody waits for, a supervisor that is slow or gone |
| **Device trust** (`server/device-trust.js`) | pairing codes, devices, tokens on disk | pair, rotate, revoke | one code claimed twice, a failed write |
| **Session idle release** (`server/claude-idle-release.js`, `structured-event-window.js`) | timers and released sessions | note, sweep, release, find | a message that arrives while its process is being let go; two that want it back; a Goal between two turns |
| **Context compaction** (`server/agent-compaction*.js`) | one compaction per conversation | start, finish, recover | a lock other components ask about before and after an await; the process ends before the compaction's result |
| Agent adapters (`claude-code-structured-adapter.js`, `antigravity-acp-bridge.js`, `agent-client-protocol-adapter.js`, `opencode-*.js`, `pi-speed.js`, ...) | protocol state of one child process | request, notify, interrupt | late and reordered answers |
| History reading (`server/history-*.js`, `native-history-catalog.js`, Rust crate `history-source-reader`) | bounded readers of the agents' files | scan, page | input and data, little control |
| Updates, sign-in, usage, registries, web application, desktop, deployment | mostly files and presentation | | |

How the parts meet: a page's request enters through `server.js`; an ordinary
message asks the queue (`shouldQueue`) whether to wait; the queue asks
Goals (`workflows.locked`) and compactions (`compactions.locked`) whether the
conversation is taken; Goals ask `workflowBusy`, which reads the adapters; the
adapters' events reach `composerQueue.observe` and `workflowEvents.emit`, in
the order each agent's process writes them.

### What makes each part correct

* **Queue**: no message goes twice unless a person asks twice; none comes back,
  and none is lost as long as the index can be read; "delivered" is said only of what the agent had; a request acts
  on what its page showed; one automatic send at a time; the queue goes on.
* **Goals**: one run per project at a time; a schedule never works beside the
  person's own Goal; an occurrence fires once; nothing uncertain is sent again
  after a restart; Stop reaches only the run's own turn, reaches it always, and
  settles; no send begins once storage has failed.
* **Receipts**: a command takes effect at most once, and a caller is told
  "uncertain" whenever it may have taken effect.
* **Pool**: one child per thread; a busy child is never closed; the limit holds;
  nobody waits for ever to be admitted.
* **Supervisor**: a restarted Host finds every task that still runs; a person's
  decision reaches the CLI once at most, and counts only when the CLI says so.
* **Claude conversations**: one process per conversation; a message is
  written once and answered; a process is let go only when nothing needs it; a
  compaction and a Goal exclude each other, and neither keeps the conversation
  locked after its end.

## 2. Plan

The most important behaviour comes first: what is sent to an agent, and how
often. Each step below is a component's module, its runs and its proofs.

Done:

1. `ComposerQueue` with its runs and proofs.
2. `Workflows` with its runs and proofs. It uses the same view of an agent, a turn
   that somebody owns, but shares no variable with the queue: a Goal's lock
   (`workflows.locked`) is the queue's `open = "locked"`, and a user's turn is
   `native = "user"` in `Workflows`.
3. `CodexPool` with its run and the proofs of all its safety properties.
4. `AgentTasks`, which composes the Host's connector, the supervisor, the socket
   between them and the journal's client, and `ApprovalDelivery`, what they
   promise together: the refinement is checked by the run and proved.
5. `ClaudeConversation`, which composes what wants the process of one
   conversation: messages (the queue's and persons'), pages, a Goal,
   compactions, and the release of idle processes; with the proofs of all its
   safety properties.

6. Proofs of what was only model-checked: `NoSilentResend`, `DeliveredWasTaken`,
   `NothingLost` and `RevisionNamesContent` of the queue, `WaiterKept`,
   `StopIsQuiet` and `OnlyOwnTurns` of the Goals of ACP agents, `AckIsTaken` of the
   tasks. Every safety invariant and action property of a passing run now has a theorem.
7. `MessageDelivery`, what the queue promises without dispatcher, calls and
   timers: the refinement is checked by the run `queue` and proved.

Left:

8. Smaller components: device trust, the compactions of the other agents, the
   journal's sessions and commands beside approvals.

## 3. The queue: `ComposerQueue` and `MessageDelivery`

### State

| specification | code |
|---|---|
| `store` (`order`, `item`, `pause`) | a conversation's entry of `createComposerQueueStore`; an item's `state`, `stage`, `rev` are the fields of that name, `txt` counts the edits of its text |
| `payload`, `text`, `disk` | the per-message files, the edit count of the text in each (what is sent), and the index file as last written (what is shown) |
| `dispatch`, `calls` | `inFlight` and where its coroutine is; the calls of `deliver` and of a driver's `send` that have not returned |
| `timers` | `confirmations` |
| `working` | the drivers' `busy`: a turn that the Host believes is under way |
| `stopping` | `stopPi` in `server.js`, between its abort and `reclaim` |
| `turn`, `holds`, `wire`, `open` | the agent (external): its turn, messages it took and has not started, its reports not read yet, whether a process or a lock is there |
| `view` | what each page has read and will name in its request |
| `took`, `wishes` | history: copies the agent has had, sends that persons asked for |
| `spent` | how much of each bound is used; also how many restarts cut an edit in two (`cuts`) or could not read the index (`unread`) |

A message's states are those of the code, with `"new"` before it is added,
`"delivered"` and `"removed"` after it has left, and `"lost"` for one that the queue
showed and a restart does not find.

### Actions

Persons: `Add`, `Edit`, `Withdraw` (remove and take), `Move`, `SendNow`,
`Resume`, `Stop`, `DirectSend`, and `Read` / `Conflict` for what a page shows
and a request that is refused as stale. The Host: `DispatchBegins`, then
`DispatchYields` or `DispatchClaims` after the await for `busy`; `TurnsBack` or
`HandsOver` after the driver's preparation; `Settle` when the driver's answer
is handled; `ConfirmExpires`; one `Observe...` action per kind of report;
`Reclaim`. The agent: `AgentRuns`, `AgentHolds`, `AgentDeclines` answer a send,
`AgentStarts`, `AgentQueues`, `AgentRefuses`, `AgentEnds`, `AgentExits` are what
it does by itself.

`Restart` is a crash followed by `load`. It comes between any two actions, and
within the one handler whose two writes it can leave at odds: `edit` writes the
message's own file (line 268) before the index (271), so a crash between leaves the
old revision with the new text (`Finds` with `cut`). Within an add, or a message's leaving, it
does what an index write that fails and a `Restart` do here. And `load` may not be able to use the index: one that cannot be read or parsed,
or is over 8 MiB, leaves `value` null (lines 126-130), and lines 164-172 then delete the file of every
message: `Restart` then finds `Empty`. (That index itself stays on disk, with
names of files that are gone, which is as good as an empty one to the next `load`.)

Every action that changes the store goes through `Commit`, which may fail to
write the index (`commit` ignores that) - except `Add`, which is undone when the
index cannot be written. `Reclaim` saves once for every text the agent gives back,
so each save of it fails or succeeds for itself, and a text that it has to add as a new
message is undone like any other add. The several saves of one other handler (a
claim and the pause it lifts, a rejection and the pause it sets) fail or succeed together, and
no crash comes between them. `load`'s own save succeeds.

`MessageDelivery` is what all of that promises of a message: it is new, queued,
stopped (waits for a person), on its way, delivered or removed; `wanted` counts the sends
that persons asked for and `given` the copies that the agent had. Each copy
uses up a wish; only what was given leaves as delivered; what is on its way is
queued again only when a person asks (`TakeBack`) or when the agent said that it is busy
(`Return`); and a restart sends nothing. The mapping takes `place` from an item's
state (failed and attention are "stopped"), `given` and `wanted` from `took` and `wishes`,
and `sound` from whether every index write so far has succeeded. After a failed one
the abstract specification promises less, since an old index can bring a message back as
queued that was on its way: `Copy` may then be one that nobody asked for, and
`Crash` may leave any message that is there queued or stopped. None comes back even then, and
messages are lost only all together (`Wiped`), in a restart that cannot read the index. There is no dispatcher in it, no call, timer,
report or pause, and no file.

### Abstractions

One conversation: conversations share only the index file and the revision
clock, so a revision is per message here and only ever compared with that
message's. The limit on conversations is left out. `order` keeps the places of
messages that have left; nothing reads them. A message's text is its edit
count, which the index has as its digest and preview; the payload's other fields are not distinguished. A
message's own file is written without fail (an index write may fail), and a single one
that went missing by itself is not a state here: an index without a row's file comes from writes that failed. Pi's reports name the message, where the code
compares digests of its text. A crash loses what the agent has, since the
agents are the Host's children: `took` counts a running Host's copies.

### Runs

| run | instance | states | shows |
|---|---|---|---|
| `queue` | four agents, 2 messages, 1 page, 1 act, and 1 fault, or 1 restart with 1 failed write, cut edit or unreadable index | 1.7 million | `TypeOK`, `NoSilentResend`, `RevisionNamesContent`, `OneAutomaticSend`, `NothingLost`, `DeliveredWasTaken`, `ImplementsDelivery` |
| `queue_goes_on` | Pi, Codex, Antigravity, fair, 1 act, 1 fault, no restart | 350 thousand | `QueueGoesOn` |
| `queue_stop` | Codex, 1 act | - | `NothingGoesAfterStop` fails |
| `queue_exit` | Claude Code, fair, 2 acts, 1 fault | - | `IdleQueueGoesOn` fails |

Bounds. `MaxItems` is the code's own limit, made two, the least at which the
queue can be full with one message on its way and one waiting; two messages
are enough for every pair of reports, calls and timers to overlap. `MaxActs`
counts persons' requests other than adding and reading, `MaxFaults` exits, lost
answers, busy answers nobody foresaw and locks, `MaxCrashes` restarts,
`MaxSaveFails` index writes that fail, `MaxWire` reports the Host has not read.
Adds are bounded by `Items`. One act is enough to put a Stop, a send-now, an
edit or a resume between any two steps of two sendings. `OneFailure`
(`MC_ComposerQueue`) lets one thing go wrong in one behaviour of `queue`: a fault where the Host is not restarted, or a failed
write, an edit cut in two or an index that cannot be read where it may be. The proofs have no such limit.
Messages are symmetric in the safety runs.

Fairness (`FairSpec`, liveness only). The Host's steps are weakly fair: its
event loop runs what is ready, a timer fires, and a sweep every five seconds
calls `dispatch` for every conversation. The agent answers a send (the
transports time out), starts what it holds while a turn runs, and ends its turns; a lock is let
go. No person is fair. `CHECK_DEADLOCK FALSE` is set in every cfg because with
the bounds used up and the queue empty nothing is left to do.

`QueueGoesOn` is about the dispatcher: it excuses a queue that is blocked by a message on its way that
nobody will report on any more (`Orphaned`). `queue_exit` shows that Claude Code leaves such
queues; `queue_goes_on` shows that with Pi, Codex and Antigravity, in a Host that is not
restarted, they are the only ones that wait. Whether a message becomes orphaned with those
agents it does not say.

`NothingLost` speaks of restarts that could read the index, and of the text in a
message's own file `RevisionNamesContent` speaks only while no edit was cut in two: otherwise the code does
lose the one and mix up the other (section 8).

## 4. Goals and schedules: `Workflows`

### State

| specification | code |
|---|---|
| `run`, `sched` | `state.runs`, `state.schedules`; `bound` is a run whose schedule names its conversation, `stop` is `stopStatus`, `unconfirmed` the saved error of a stop |
| `disk`, `healthy` | `workflows.json` as last written, `storageHealthy` |
| `flight`, `aborted` | `inflight` with the place of the run's coroutine, and whether its AbortController was aborted |
| `stopper` | a `bridge.stop` of the run that has not returned: waiting for a send, or polling the agent |
| `ticking`, `fresh` | what the tick awaits, and whether its entry of `preparations` is still there |
| `sends`, `owned` | `workflowDispatches`, `workflowOwnedTurns` in `server.js` |
| `native` | who works in each conversation (external, read through `workflowBusy`) |
| `comes` | how often the time of each schedule has come |
| `unsure` | history: runs that were in a turn when the Host stopped and that nobody resumed |
| `run[r].again` | history: the schedule did not go on to its next time when the run was made |

### Actions

The coroutine of a run (`launch`) is cut at its awaits: `OpenChecks`,
`OpenReturns`, `Readies` (the last check and the send, in one piece), then the
turn, `YieldOver`, `SleepOver`. What ends a step in the code's `catch` is `Fails`, what
its `finally` does is `Leaves`. The agent: `Accepts`, `Rejects`, `Waits`,
`TurnEnds`, and other users of the conversation `OthersBegin` / `OthersEnd`.
`StopConfirmed` and `StopGivesUp` are the ends of `bridge.stop`. The tick:
`TickFires`, `TickSlips` (the same, when `nextOccurrence` throws after `makeRun`), `TickStops` / `TickGoesOn`, `TickSaves`, `TickAdmits`,
`TickPrepared`. Persons: `CreateGoal`, `RunNow`, `SetSchedule`, `PersonStops`,
`Resume`. `Restart` reads back `workflows.json`.

Every handler that changes state ends in `Save`. A save that fails sets
`healthy` to FALSE for good, ends the handler's own coroutine and stops everything in flight, as
the `catch` of the code's `save` does. Two handlers leave something unsaved: `TickSlips` the run it made, and
`SetSchedule` the time it cleared of a once-schedule whose time is past, which it then refuses (`workflows.js:437`).

### Abstractions

The list of runs keeps 200 entries; here a new run takes a free place or,
when there is none, that of a run that is over, and only when no send, turn or
stop of the old run is left (`Room`). Project folders do not nest. Two saves
that follow each other in one handler without anything between are one.
Activity texts and markers are left out; that a `waiting` status is not saved
at once is kept. The limits of time and tokens, and the progress of a turn,
are choices; the turn limit is counted. An agent's end events are reliable.
`bridge.prepare` looks at some earlier moment, so its answer is either one.
The Host's lock around messages of one conversation (`server.js:5064`) is not
modelled, so an ordinary user may come between two steps where the code makes
them wait: more behaviours, not fewer. What works on after a restart is no
longer the Host's, hence `"user"`. `close` (an orderly shutdown) is left out, and so is a
`workflows.json` that cannot be read: the code keeps it, refuses to work and says so.

### Runs

| run | instance | states | shows |
|---|---|---|---|
| `workflows` | Codex, 2 runs, a Goal and a bound schedule in one conversation, its time comes once, agents fail, crashes and failed writes at any step, a next time that cannot be computed | 5.4 million | `TypeOK`, `OneRunPerProject`, `PersonsGoalFirst`, `InterruptedWaits`, `FireOnce`, `NothingUnsaved` |
| `workflows_stops` | an ACP agent, fair, 2 Goals in one conversation, retries, agents fail | 310 thousand | `WaiterKept`, `StopIsQuiet`, `OnlyOwnTurns`, `StopSettles` |
| `workflows_pi_stop` | Pi, 1 turn | - | `StopIsQuiet` fails |
| `workflows_stale_stop` | Codex, 2 turns | - | `WaiterKept` fails |

Bounds. Two runs are the least that meet in a project, a conversation, a
schedule or the slots; places are reused, so more than two runs come and go in
one behaviour. `MaxTurns` and `MaxRetries` are the code's limits made small:
two turns go through the pause between turns, one retry through the wait
before it and through its exhaustion. `MaxComes` bounds the clock: one
occurrence, fired, crashed over, stopped or run again is enough for two runs
of the same occurrence to appear if they could. `Failing` is what goes wrong in a run of TLC: failed
writes (`"save"`), restarts (`"crash"`), the calendar (`"calendar"`) and the kinds of a turn's
failure are checked where its properties are about them. `SlipAlone` (`MC_Workflows`) leaves
out what a failed save or a crash in a turn adds while a run is there that the calendar left behind; the
proofs do not. Crashes, resumes, pauses and creations are unbounded. Runs are
symmetric in the safety runs. A Goal that opens a conversation of its own is in
no run's instance; the theorems of section 9 cover it.

Fairness. A coroutine's step that can be taken is taken, a send is accepted or
refused (the transports time out), and a polling `bridge.stop` ends, since it
polls sixty times at most. No turn need end, the tick need not come and no
person need act. Deadlock is not checked because a Host without runs, whose
clock has come its last time, may stop.

`workflows_stops` uses an ACP agent, whose send admits at once. For the agents
whose send takes time, `StopIsQuiet` (Pi) and `WaiterKept` (Codex) do not hold,
as the two violations below show. `OnlyOwnTurns` is claimed for ACP agents only,
too: a stale stop leaves the run in `workflowOwnedTurns` although its waiter is
gone, and a later stop of that run would interrupt whatever then works in the
conversation. (That takes three turns; with the one of run `workflows` nothing
of it can be seen, so the property is not stated there.)

`FireOnce` excuses the runs of `TickSlips` (`again`). `NothingUnsaved` says of a Host whose save
failed that no send begins, and that a prompt which a send under way still hands over
(Codex's start, ACP's admission) is asked to stop in the same step, since `save` calls `bridge.stop`, which waits for
that send; unless a stop of the run has already reported that it was not
confirmed. It is checked with Codex and proved for every agent but Pi, whose
handshake no stop waits for (section 8).

## 5. Codex app-servers: `CodexPool`

### State

| specification | code (`server/codex-native-pool.js`) |
|---|---|
| `entries`, `byThread` | the children that hold a slot, and the child a thread is bound to |
| `stage` | a child's `readyPromise`, then what its adapter and transport report: ready, idle, busy, gone |
| `thread`, `close`, `retire`, `retiring` | `threadId`; `closeRequested`, `closePromise`, `closeResult`; `failed` with `retireRequested`; `retirePromise` |
| `process` | the app-server's process runs (external) |
| `admission` | `admissionTail`: who waits for the lock, its holder first |
| `call` | the requests of browsers, Goals and the queue: where each is and the child it chose |
| `closed` | the pool is closed |

### Actions

A request is `Start`, `Resume` or `Use`. Under the admission lock `Admit` finds
the thread's child, makes one (`Enters`), begins the eviction of an idle one, which `Evicted` ends,
or refuses. `Ensure` starts the child, `Invoke` looks at it again after that await and calls
it, `Return` is the end of `invokeEntry` (an answer that counts as fatal may come from a live child, too:
`native_response_invalid` is what the adapter makes of any answer it cannot use), `Started` and `Resumed` bind
the thread, `Released` ends a request that gave its child back. A child is
`Made`, `Launched`, `Probed`, or one of these fails (`StartFails`); it `Works`, its
transport fails (`Failed`), its process `Exits`. Children are let go by `ReleaseIdle`,
`RecycleIdle` and `ClosePool`; `FactoryLate` and `Closed` are the two ends of
`closeEntry`'s waits (an adapter that is closed while it still starts says at once that it is closed, although its
app-server may still connect), `PoolClosed` the end of `close`.

### Abstractions

Which idle child goes first (the least recently used) is a choice. Timers and quiet times may
run out at any moment. A hold on a thread only keeps `ReleaseIdle` away, which may
happen or not anyway. Reads that fall back on the history keep no state in the pool.
The fields of a child that has left the pool are forgotten, and its identity may
be that of a new one once no request refers to it (`Unused`).

### Run

| run | instance | states | shows |
|---|---|---|---|
| `codex_pool` | 2 requests, 2 threads, 2 children, one slot, fair | 600 thousand | `TypeOK`, `Capacity`, `OpenChildIsReachable`, `KnownProcessHoldsSlot`, `OnlyIdleGoes`, `NoCallOfAClosingChild`, `AdmissionGoesOn` |

With one slot every new thread evicts, waits or is refused, which is where the
hazards are; the safety properties are proved for every limit (and hold with two
slots, 2.4 million states). Two requests
are one that holds the lock or is between two of its awaits and one
that comes between. Nothing in the pool is bounded.

Fairness. The Host takes the steps of admission, and the waits in
`closeEntry` and in `adapter.close` end, by their timers if by nothing else. No
factory, app-server or thread need ever answer. `AdmissionGoesOn` leaves
out the one state the model owes to its finite set of children: there is room and no
identity left for a new child.

## 6. Supervised tasks: `AgentTasks` and `ApprovalDelivery`

### State

| specification | code |
|---|---|
| `cli`, `got` | where the CLI is with each approval, how often it was given a decision (external) |
| `sup`, `stopped`, `log` | the supervisor's status, `stopRequested` and numbered events (`server/agent-task-supervisor.js`) |
| `linked`, `up`, `down` | the socket between it and the Host |
| `host` | the task object of `server/agent-connectors.js`: status, `control`, both cursors, `journalTail`, its flags and timers |
| `run`, `approval`, `receipt` | the journal's run, approvals and command receipts (`protocol/transaction-state.js`) |
| `reused` | another process has the pid of the supervisor that ended (external) |
| `expired`, `upsets` | approvals whose time is over; how much of the bound is used |

A task's `journalTail` is a chain of promises; here it is a sequence of
operations, of which the first runs: `JournalRuns` commits it under the planner's and the
reducer's conditions, or finds it made before, `JournalRefuses` and `JournalFails`
are a call that is refused and one that is never answered, which ends the
client with every call on its way. A decision is three operations: it is
admitted, its dispatch is committed, it is sent (`Sends`), and a fourth then records that
the pipe took it. The supervisor: `Launched`, `SupReads` (attach, decision,
stop), `Exits`, `SupExits`, `SupDies`; the CLI: `Asks`, `Acks`. The connection:
`Connect`, `ConnectFails`, `HostReads` (snapshot, event, close), `Loses`, `GivesUp`,
`TimerEnds`. `GivesUp` looks at the pid, as `processIsAlive` does (`PidAlive`), which may be another process's
by then (`PidPasses`). Persons: `Resolve`, `Send`, `Stop` with `StopSends` and
`StopEnds`; the Host's own: `Opened`, `OpenFails`, and `Restart` at any moment.

`ApprovalDelivery` is what all of that promises: an approval is asked, decided
once, delivered, acknowledged; the run waits until everything it asked is
acknowledged. `AgentTasks` maps an approval's `stage` from its receipt and from what the CLI got, and
`phase` from the journal's run.

### Abstractions

"ended" is completed, failed or stopped. The events `status_running` and
`task_started` are part of `Launched`. Output and input, the trimmed window of
1200 events, idempotency keys and attempt ids are left out (a repeated command is a
`Resolve` of the same approval). The eight delays of the reconnect are one `GivesUp`, which may come
after any failed attempt. The metadata file is up to date, except that of
a supervisor that was killed. The journal was created when the task was; otherwise
the Host records nothing and there is nothing to check. The CLI's
acknowledgement always says that it goes on. Left out: a Claude task that the desktop helper launched with an
uncertain answer has no supervisor's pid, and is given up after the last delay
without a look; and after a restart the code takes the journal for what it was
when the Host stopped until `refreshCanonical` ends (lines 545-555), where it is ready
at once here. `AckIsTaken` is about the order of two records only: an
acknowledgement turned away because its receipt had become uncertain (`generic-session-journal.js:339`) is another matter.

### Run

| run | instance | states | shows |
|---|---|---|---|
| `agent_tasks` | 1 approval, 2 upsets, 2 operations waiting when a person decides, fair | 1.3 million | `TypeOK`, `OneDecision`, `GoesOnWhenAcked`, `AckIsTaken`, `OrphanIsGone`, `ReconnectEnds`, `ImplementsDelivery` |

`MaxUpsets` bounds stops of the Host, stops of the task, broken connections and journal calls that
fail, together: two let a connection break after a crash, or a call be lost
after a stop. `MaxTail` bounds how many decisions persons pile up. One approval is enough for TLC because the
theorems hold for any set (with two approvals and both bounds 1 there are 9.0
million states and the safety properties hold). The run may end
when the task has, so deadlock is not checked.

Fairness. Sockets deliver (`SupReads`, `HostReads`), timers fire (`Connect`,
`GivesUp`), the supervisor's own steps go on. Nothing is asked of the CLI, the
journal or of persons; a broken connection, a crash and a death may come at any time.
`ReconnectEnds` excuses a task whose supervisor's pid another process has: nothing then ends the search (section 8).

## 7. Claude conversations: `ClaudeConversation`

### State

| specification | code |
|---|---|
| `life`, `shut` | a process, and its session: open, failed, closed by somebody, let go |
| `working`, `inputs`, `compacting` | the session's state is not "waiting"; `pendingUserInputs`, with a compaction before its frame is written; `compactionPending` (`server/claude-code-structured-adapter.js`) |
| `sessions`, `gates` | `claudeStructuredSessions`, `claudeResumeGates` (`server.js`) |
| `record` | the local key in the conversation's workspace entry |
| `at`, `has`, `again` | how far a message, a page or the Goal is, and with which process; a message's second try |
| `op`, `scope` | the compactions of `server/agent-compaction.js` and the record each was admitted for |
| `wrote` | history: how often a message was written to a process |

### Actions

`Post` and `Find` are a message's way to a live session or to an open, `Ask` a
page's open. An open passes its name's gate (`Enter`), which it gives back when it
ends: it shares a live session, ends one that has failed or was closed and waits for
its process (`CloseEnds`; when the wait's timer runs out first the open fails with `claude_session_ending`), starts one (`Launch`), and closes it again when its page has
left (`Leave`). The Goal locks the conversation (`GoalStarts`), opens
(`GoalOpens`), sends (`GoalSends`) and ends (`GoalEnds`, or with a turn). A
compaction is asked for (`Compact`), looked at again after `describe` (`Admit`) and again
before its native work (`Execute`). The session writes (`Write`) or refuses
(`Refuse`) what waits in it; `Ready`, `TurnBegins`, `Result`, `Interrupt`, `Interrupted`, `Fail`, `Breaks` and
`Exit` are its process's events. `Close` and `Closed` are an end by hand, `LetGo`
the release of an idle process.

### Abstractions

Any idle moment may be long enough to let the process go: quiet times, the sweep and
their timers are choices, and so are Claude's turns, failures and exits. A
compaction that is over is forgotten; whether it completed, failed or stays
uncertain is not told apart, and its identity serves a new request. Finding a live session and sending to it
is one step, since only microtasks are between. Interrupts without an answer count as work.
A session's state is put back once it is not open, where nothing asks for
it. Background work, permissions and settings are left out. Messages name the
conversation by Claude's id, and a page may name it by its first process's key
(`LocalNames`); a second frame of the Goal is not sent while the first one still waits.

### Runs

| run | instance | states | shows |
|---|---|---|---|
| `conversation` | a message, a page, the Goal, 2 compactions, 2 processes, one name, fair | 190 thousand | `TypeOK`, `OneProcess`, `SentOnce`, `OneHolder`, `HeldByLiveWork`, `GoalKeepsProcess`, `LetGoRefusesNothing`, `EveryoneIsAnswered` |
| `conversation_names` | a page may use the local key, 3 processes | - | `OneProcess` fails |

Bounds. The first process and one more let a message be tried again after a release, and a
launch overlap the end of the process before. With three
processes there are 1.2 million states and the properties hold as well. Two compactions are the least
that can be asked for together. Callers come again, without bound, except for
a message, which is written once.

Fairness. A gate's next holder goes on, waits for a process and handshakes end (by
their timers, if by nothing else), and a session writes or refuses what it has. Claude,
persons and the Goal's turns owe nothing. Deadlock is not checked: with everything answered and
no process left the Host may rest.

`Desktop` is the helper of the desktop build, whose capacity makes the Host park
a conversation for another one's sake. That path (`parkIdleClaudeStructuredSession`) asks neither the Goals' lock nor the
compactions', so with `Desktop` set `GoalKeepsProcess` fails in four steps (the Goal
starts, opens, and its process is let go between two turns), although
`docs/session-idle-release.md` lists a Goal among what keeps a process. The Goal then
ends with an error. `conversation` is about the Host without the helper, and so are the theorems on
`GoalKeepsProcess` and `OneProcess`. The helper's own part is not modelled: a launch
whose answer is uncertain (`claude-desktop-client.js:138-149`) and a connection that is
lost (179-188) can leave a process behind that no session of the Host stands for, and the helper
does not refuse a second launch of the same conversation.

`LetGoRefusesNothing`: a message in the input of a session that was let go is
never refused for that (there is none: `Idle` looks at the input). A message that comes later
waits for the let-go process to end, and the code refuses it when that takes
longer than the wait (`server.js:5367-5368`); the property allows this refusal only while that process still lives.

## 8. Where code and word differ

Five runs end in a violation of something a comment of the code says; each
states only that.

* `queue_stop`: "Stop pauses the queue: nothing more goes until it is resumed"
  (`composer-queue.js:8-9`). A message that was claimed before Stop and is
  still being prepared by its driver goes in afterwards: nothing reads the
  pause again.
* `queue_exit`: "When a turn ends the Host sends the next one by itself"
  (`composer-queue.js:6-8`). When Claude Code exits while it keeps a message in
  its own queue, that message's stage is "native", which a turn's end leaves
  alone; it stays on its way and everything behind it waits.
* `workflows_pi_stop`: "A Stop arriving during native admission waits for
  acknowledgement" (`server.js:5668`). A Pi send is not entered in
  `workflowDispatches` while its speed handshake is awaited, so a Stop then
  finds nothing to stop, returns, and Pi takes the prompt.
* `workflows_stale_stop`: "The bridge does not release its waiter until native
  work has settled" (`workflows.js:365`). The stop of a turn that has ended by itself still
  polls; after a resume it sees the conversation idle just before the new
  turn starts and releases the new turn's waiter.
* `conversation_names`: "Launching a second process for the same native
  conversation duplicates it in the task list and lets concurrent processes
  answer the same prompt" (`server.js:5346-5349`). The gates that prevent it are kept by the name a
  caller uses; a page that opens by the local key and a message by
  Claude's id pass different gates, and when the conversation's process
  has ended both start one.

Others were found while modelling and reading. No run is about them alone; the models have
them as steps (but for the last), and the properties excuse exactly them.

* A resumption that is committed late shows an ended task as running
  (`agent-connectors.js:1368`), and a retirement scheduled while another call uses
  the failed child is not scheduled again (`codex-native-pool.js:569`). Neither has a property.
* An index that cannot be read, parsed or is over 8 MiB makes `load` delete every
  message's own file (`composer-queue.js:126-130`, `164-172`): messages whose add was answered are gone
  (`NothingLost` excuses it with `spent.unread`).
* A crash between the two writes of an edit leaves the old revision, digest and preview
  with the new text, which is what is then sent (`composer-queue.js:268-271`; `spent.cuts`).
* `nextOccurrence` looks nine days ahead. A schedule of one day a week whose time the next
  clock change skips makes it throw after `makeRun` (`workflows.js:134`, `376-383`): `tick`'s `catch` goes on, the
  time stays due, and the schedule fires again whenever its run is over. The comment
  at line 131 says "DST gaps are skipped" (`TickSlips`; `FireOnce` excuses it with `again`).
* A Pi prompt whose speed handshake is awaited when a save fails goes in and works on
  (`pi-speed.js:112-122`), although `workflows.js:208` says "no further work will be started". The
  theorem on `NothingUnsaved` leaves out Pi.
* `native_response_invalid` is among the codes that end a child (`codex-native-pool.js:34`), and the
  adapter gives it for any answer it cannot use: a live app-server is then closed with its
  turn under way (`OnlyIdleGoes` allows it to a retired child).
* After a reboot the pid of a supervisor can be another process's, which lines 1448-1449
  of `agent-connectors.js` know and line 1049 does not: the task then stays reconnecting for ever
  (`ReconnectEnds` excuses it with `reused`).
* With the desktop helper an uncertain launch followed by another try can leave two processes on
  one transcript (section 7; not modelled).

## 9. Proofs

All theorems are about `Spec` and hold for every value of the constants that
the named assumptions allow: `AgentsAssumption`, `ItemsAssumption` and
`BoundsAssumption` of `ComposerQueue`; `OrdersAssumption` (an order names the
project of its conversation), `NamesAssumption`, `AgentAssumption` and
`LimitsAssumption` of `Workflows`; `NamesAssumption` and `LimitAssumption` of
`CodexPool`; `BoundsAssumption` of `AgentTasks`; `NamesAssumption` of
`ClaudeConversation`. TLC evaluates them in every run. A few theorems are about one
value of a constant, and say so as a hypothesis: `~Desktop`, `~LocalNames`,
`Agent = "acp"` and `Agent # "pi"`. Of the other value the property is false (for most, a run shows it), or
nothing is claimed.

### The queue (`ComposerQueueProofs`, `ComposerQueueStoreProofs`, `ComposerQueueSendProofs`)

* `TypeCorrect`: `TypeOK`. The work is in the store: the order stays a sequence
  of messages whatever is moved, withdrawn or added (`RemoveAtType`,
  `MovedOrderType`), and each handler's change to a message gives a message.
* `LeftForGood`: `GoneStaysGone`, which no run checks by itself since
  `ImplementsDelivery` implies it. In a running Host a handler looks at a
  message's state before it changes it. A restart does not: it takes the index,
  which may be older than the message's end when a write failed. What saves the code is
  that a message's own file is unlinked when it leaves, and that `load`
  restores nothing without one. Hence the inductive invariant `FilesHeld`: every
  file belongs to a message that is still there.
* `OneSend`: `OneAutomaticSend`, inductive as it stands with `TypeOK`.
* `NoneLost`: `NothingLost`, of restarts that can read the index. The inductive invariant is `IndexHolds`: what the queue
  shows has its own file *and is in the index, however old the index is*. It holds because only an add
  brings a message in, and an add that is not saved is undone; an old index lags in
  what it says of a message, never in which messages there are. A restart that cannot read the
  index leaves nothing, of which it holds as well (`RestartSound`).
* `RevisionsName`: `RevisionNamesContent`. Every handler is first shown to be an
  `Advances`: what a page can show does not change without the revision (and, `Follow`, only an edit
  changes a text).
  `ViewsBehind` then says that a page's view is never ahead of the store, and that
  with the same revision it shows the same. A restart is an `Advances`, too, but only
  from an index that is the store (`InStep`): hence the proviso that no index write failed. `TextAgrees`
  says that the messages' own files have the text the index shows, until an edit is cut in two.
* `NoResend`: `NoSilentResend`, by accounting. A queued message, and each call that may
  still bring a copy or bring its message back to the queue (`Live`), needs a wish of its own. The
  proof counts the calls (`Going` is a cardinality) and shows of each handler that it
  keeps the account: a claim turns a queued message into a call, a busy answer turns the call
  into a queued message, a person's request adds the wish with the message, a
  call that brings its copy and a refusal use theirs up, and a restart gives up the wishes of the calls it ends.
  An answer that says nothing leaves the message uncertain and not queued: here the account would break.
* `TakenBeforeDelivered`: `DeliveredWasTaken`. Behind it are `Backed`, copies that the agent
  had are at least its reports on the wire and the one it holds, and `TakenOnce`, what an
  answered call says of a copy is backed likewise, so that neither a report left over from one sending
  nor a timer can end a later one as delivered.
* `QueueDelivers`: `ImplementsDelivery`, from all of the above. What an operation
  on the store (claim, mark, pause, resume, retire, reclaim) does to the states is stated once
  (`Becomes`), and each handler is then shown to be one action of
  `MessageDelivery` or a stutter (`PersonDelivers`, `HostDelivers`, `AgentDelivers`). Three steps need
  more than their own guards: `Copy` that the call still has its wish (`NoSilentResend`),
  `Deliver` that the agent had what leaves (`Leaves`, the step form of
  `DeliveredWasTaken`), and `Crash` that what a restart finds is what was there or nothing
  (`FoundDelivers`, `WipedDelivers`): `FilesHeld` and `IndexHolds` for which messages, `InStep` for their states, and
  `NoSilentResend'` for the wishes that a restart leaves (`RestartDelivers`).

### Goals and schedules (`WorkflowsProofs`, `WorkflowsTurnProofs`)

There are some thirty handlers, each with a save that may fail, and six
invariants. The proof therefore goes through what a handler does to one run:
`Change(q)` says that run q rests, works in its coroutine, is halted, starts, is
made, or is resumed, `Frame` what becomes of `workflows.json`, of health and
of the abort signals, and `Frame2` what becomes of the tick's admission and of the schedules. One lemma per group of
handlers shows that each of them is such a `Step` (`NextIsStep`), and every
invariant is proved from `Step` and from `RestartStep` alone.

The inductive invariant is `Flights`; each part is needed for another:

* `Working`: a run in flight has a status that says so, in memory and *on disk*.
  Without the second half a restart could find "queued" what had been sent.
* `OneRunPerProject` needs `Admission`: a bound run is chosen before the await of
  `bridge.prepare` and launched after it without another look at its project.
  The proof is that whatever starts in between must come from the tick
  itself, which waits, and whatever stops, pauses or deletes the run takes away its entry in
  `preparations` (`fresh`).
* `Aborts`: after a failed save everything in flight is aborted: the last check before a
  send sees the signal.
* `NotResent`: `InterruptedWaits`, for memory and disk, again because a restart
  may follow a restart.

Two more are inductive beside it. `Numbers`: each run of a schedule has an
occurrence of its own, before the schedule's next one, in memory and on disk
alike, which is why run and schedule must be in one save (`FireOnce`); a run that the calendar left
behind (`again`) is counted apart.
`Bound` with `PersonsGoalFirst` itself: a bound run in a turn holds its
conversation (`Locks`), so no Goal can be created, resumed or opened there, and
on its way into the turn it has just looked (`TargetReady`).

`WorkflowsTurnProofs` begins with agents that admit a send at once (`Agent = "acp"`). Its
invariant `OwnTurns` says that three things which the code keeps apart begin and end
together: the waiter in `workflowEvents` (`flight`), the ownership in
`workflowOwnedTurns` (`owned`) and the agent's own turn (`native`), all in the run's own
conversation; and that what is being stopped is aborted and keeps asking the agent until
the turn ends or the run says that it was not confirmed (`Stopped`). From it follow
`WaitersKept` and `StopsQuiet`, and `OwnTurnsOnly` of a step: a stop becomes "asked" only in
a run that owns its turn, and an owned turn is the native one. The hypothesis cannot
be dropped: with Pi a send is on its way while the stop looks, so ownership and
native turn come apart, and `workflows_pi_stop` shows `StopIsQuiet` violated
by it.

`SavedFirst`: `NothingUnsaved` for every agent but Pi. That no send begins is `Aborts`. For what a
send under way hands over, `SendsStop` says that once storage has failed every run
whose send is not acknowledged has a stop that waits for it or has said that it was not
confirmed: `save` itself calls `bridge.stop` for everything in flight.

### The pool (`CodexPoolProofs`)

The inductive invariant is `TypeOK`, what holds of the requests, and what holds
of the children while the pool is open. Of the requests: who evicts holds
the admission lock (`Lock`), a request names its child and a resume its thread
(`Named`), a thread has one resume at a time (`Once`), only a child whose start has
settled is asked (`Answers`). Of the children: one that is not gone or not confirmed
closed holds a slot (`Slots`), the child found under a thread has that thread (`Owners`),
and three facts carry what a request saw over its awaits: a resume's open child
keeps the thread (`Resumes`), nobody gets the thread while a resume of it makes room
(`Evicts`), nobody else uses the child of a start (`Starts`).

`Capacity` needs `Lock`: room is counted, a child is closed, and room
is counted again by the same holder. `OpenChildIsReachable` needs the other
three: a child that is being closed gives its thread up at once, so the next
resume makes another, and only one resume can. Most steps are first reduced to
what they do to entries, owners and children (`Shrinks`) and to each request
(`Move`), and the invariant is proved of these. `OnlyIdleChildrenGo` is proved of each step
that closes a child: eviction and release choose one that is idle; a retirement
waits for the last call, and only a retired child may still have a turn.

### Supervised tasks (`AgentTasksProofs`)

The inductive invariant follows a decision along its way. `Wire`: the connection
carries events that are in the supervisor's log. `Words`: the log says
"acknowledged" only of what the CLI did, and the CLI answers only what it was given.
`Tails`: what is about to be sent was dispatched and never sent, and an
acknowledgement in the Host's tail is the CLI's. `OneDecision` itself, `Row`: run,
approvals and receipts of the journal agree, and `OrphanIsGone` (what has no pid is not alive). The Host's handlers are
first reduced to what they add to the tail and do to status and socket (`Extends`,
`Keeps`). For the refinement each step is
shown to be `Ask` (a request is committed), `Decide` (an admission), `Deliver`
(the supervisor reads the decision), `Acknowledge`, `Start`, `Resume`, `End`, or a stutter.

`AcksAreTaken`: `AckIsTaken`, that the journal never turns the CLI's acknowledgement away because it
came before the record of the sending. Nothing in the code compares the two; what orders them is that
both wait in one tail. The invariant `Order` says this of a Host that has not crashed
and had no journal call refused: of every decision sent and not recorded the
record waits in the tail (`Piped`), before its acknowledgement when that waits, too
(`Lined`); an acknowledgement waits there once, since it is in the supervisor's log once (`Told`) and
the Host's cursor passes it once (`Onward`); and one that is recorded, or not read
yet, is not in the tail. Appending, taking the head and inserting a read
record are lemmas about `Lined` alone.

### Claude conversations (`ClaudeConversationProofs`)

Steps are first reduced to whom they move (`Moved`, `Turned`) and whose compaction
they end (`Finished`). The inductive invariant has five parts beside the types:

* `Sessions`: an open session in the list has a live process, and a process not
  started yet has a session that is open.
* `Posted`: what waits in a session's input is a message on its way to that
  session, never written before, and the session is not let go: `Idle` looks at the input.
  `SentOnce` follows, and `LetGoRefusesNothing`, since only the session
  a message waits in refuses it; a message that waits for a let-go process is refused by
  the open's timer alone (`CloseEnds`), which runs while that process lives.
* `Apart`: as soon as a compaction is asked for the Goal is at most `locked`.
  `OneHolder` says so only of native work; the stronger form is needed since the Goal
  looks at the compactions' lock once, before it opens.
* `Work`: the pending compactions of the sessions and the operations at native work are the
  same, and there is one; a session that fails, closes or is let go ends its own.
* `GoalKept`: `GoalKeepsProcess`, with the Goal's process a process. It says
  nothing of the helper's path, so the theorem is about `~Desktop`.

`OneProcess` has an invariant of its own, `Gate`, which holds where everyone uses
one name (`~LocalNames`), and is claimed of a Host that runs the processes itself (`~Desktop`): only the head of the gate's queue opens, a live process is in the
list of sessions, the list has one member at most, and none when the head comes to launch.
Where names differ, the run `conversation_names` shows the step at which it breaks:
each gate has a head.

### Theorems

| theorem | property |
|---|---|
| `ComposerQueueProofs`: `TypeCorrect`, `LeftForGood`, `OneSend` | `TypeOK`, `GoneStaysGone`, `OneAutomaticSend` |
| `ComposerQueueStoreProofs`: `NoneLost`, `RevisionsName` | `NothingLost`, `RevisionNamesContent` |
| `ComposerQueueSendProofs`: `NoResend`, `TakenBeforeDelivered`, `QueueDelivers` | `NoSilentResend`, `DeliveredWasTaken`, `ImplementsDelivery` |
| `WorkflowsProofs`: `WorkflowsTypeCorrect`, `ProjectsApart`, `PersonsComeFirst`, `InterruptedRunsWait`, `OccurrencesOnce` | `TypeOK`, `OneRunPerProject`, `PersonsGoalFirst`, `InterruptedWaits`, `FireOnce` |
| `WorkflowsTurnProofs`: `WaitersKept`, `StopsQuiet`, `OwnTurnsOnly` (of `TurnsAlways`), `SavedFirst` | `WaiterKept`, `StopIsQuiet`, `OnlyOwnTurns` (`Agent = "acp"`), `NothingUnsaved` (`Agent # "pi"`) |
| `CodexPoolProofs`: `PoolTypeCorrect`, `CapacityKept`, `ChildrenReachable`, `ProcessesHoldSlots`, `ClosingIsNotCalled`, `OnlyIdleChildrenGo` | `TypeOK`, `Capacity`, `OpenChildIsReachable`, `KnownProcessHoldsSlot`, `NoCallOfAClosingChild`, `OnlyIdleGoes` |
| `AgentTasksProofs`: `TypeCorrect`, `DecidesOnce`, `WaitsForTheAck`, `OrphansAreGone`, `AcksAreTaken`, `Delivers` | `TypeOK`, `OneDecision`, `GoesOnWhenAcked`, `OrphanIsGone`, `AckIsTaken`, `ImplementsDelivery` |
| `ClaudeConversationProofs`: `TypeCorrect`, `WrittenOnce`, `LetGoRefuses`, `HoldersApart`, `LiveWorkHolds`, `GoalsProcessStays`, `OneProcessLives` | `TypeOK`, `SentOnce`, `LetGoRefusesNothing`, `OneHolder`, `HeldByLiveWork`, `GoalKeepsProcess` (`~Desktop`), `OneProcess` (`~LocalNames`, `~Desktop`) |

Only model-checked: the liveness properties `QueueGoesOn`, `StopSettles`,
`AdmissionGoesOn`, `ReconnectEnds` and `EveryoneIsAnswered`, since TLAPS does not
reason about fairness and ENABLED; and what the runs refute
(section 8), which no theorem can state.

## 10. Mutants

Beside a definition stand, under names that begin with `Bug`, forms of it with
one plausible mistake: a guard dropped, a status forgotten, two saves where the
code has one. Each property of a passing run is violated under one of
them (`PROJECT.json`, "mutants"), so none holds by the shape of the model.

## 11. Not modelled

* Device trust: planned. Of the journal, sessions, archives, renames, compaction
  commands, recovery of a backup and the storage format.
* Context compaction of agents other than Claude Code; `Workflows` and `ComposerQueue` have it as a lock that others take.
* The agents' adapters: what their calls answer and report is in the models, how
  they translate a protocol is not (but for the session of Claude's, in `ClaudeConversation`).
* HTTP routing, authentication and page streams of `server.js`; history
  reading; updates and sign-in; usage accounting; registries; the web
  application; desktop and deployment: input, output and data with little
  coordination between actors. They are most of the repository's lines (the pages'
  own scripts, their texts and the routes alone are more than half), so the
  models cover the code that coordinates, which is a small share of all of it.
* The desktop helper's own launches and connections (section 7), and a supervisor whose pid the Host never learned.
* Time itself: timers may fire whenever they are set, deadlines and calendars
  are choices. Nothing is said about how long anything takes.
