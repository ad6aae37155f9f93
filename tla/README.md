# Prism: verification of the workflow system and its conversations

Prism runs the change requests of a community through workflows (steps that an
agent, a script or a person carries out) and answers its members in chat, in
threads and in voice channels. This directory holds TLA+ models of the parts that
decide *what runs, when, how often, and what its result may change*, the TLC
configurations that check them on small instances, and theorems that the TLA+
proof system checks for every instance. Paths below are relative to the
repository unless they name a module; `index.ts` and `voice.ts` without a path are
those of `services/source-adapter/src`, or of the service the paragraph is about.

`PROJECT.json` lists components, runs, mutants, the lines each definition models,
findings, hazards and theorems.

## 1. The system

Services exchange HTTP requests; each keeps its own state. There is no message
broker: queues are tables that timers poll.

| Component (directory) | State it keeps | Operations | Talks to |
|---|---|---|---|
| **Site** (`services/site`) | SQLite: requests, workflow runs, agent runs, script attempts, artifacts, sessions, tasks and task runs; in memory: the handlers that await something | queue, dispatch, stop, cancel, reopen and move runs; finish and recover script attempts; call runtimes; keep sessions and task rows | all others |
| **Task Runner** (`services/task-runner`) | the list of tasks, their state and plan, launch locks; the script attempt it executes | poll the rows, start tasks by schedule or request, file their runs; claim, run and complete script attempts | Site, Source Adapter, Memory |
| **Codex Runtime**, **Grok Runtime** (`services/codex-runtime`, `services/grok-runtime`) | in-memory registry of jobs, idempotency keys, abort controllers; Codex: receipts on a volume | create, poll and cancel a job; run an agent's process | Gateway, the agent CLI |
| **Source Adapter** (`services/source-adapter`) | prompt queues; Telegram journal and offset; Buzz cursor and processed ids; voice connections, recordings and their files | turns of a conversation; polls of Telegram and Buzz; record, stop, recover and finalize | Site, chat platforms |
| **Prism Gateway** (`services/prism-gateway`) | credentials and leases | lease, expire, revoke | Site, runtimes |
| **Prism Memory**, **Prism Trigger** (`services/prism-memory`, `services/prism-trigger`) | documents and digests; nothing | batch collection; one request per cron tick | Site |
| **Contracts** (`packages/contracts`) | none | types | |

What makes this hard, and what each part must keep:

* **Script attempts** (Site + Task Runner). One row per attempt of a script step.
  It is claimed under a lease, executed by a child process, completed by a
  request that may come twice or late, then *finalized*: artifacts are written
  with awaits in between, and one transaction settles the row and moves the
  workflow. Finalizers and the recovery interleave; both processes crash;
  operators move, cancel, reopen, republish. Correct means: one executor per
  request, evidence before effect, an outcome takes effect once and only at the
  step it is for, one automatic retry, every attempt settles.
* **Agent runs** (Site). One row per run of an agent step, claimed by a
  dispatcher, executed by a handler that awaits the gateway and then the runtime,
  continued automatically at the next agent step. What a handler read before an
  await is stale after it. Correct means: one run of a request is executed at a
  time, a step is not queued twice, a result moves only the workflow that waits
  for it, every run ends.
* **Runtime jobs** (Site + adapters). The Site creates a job under a key, retries
  the create if the connection fails, polls, and at a deadline looks once more
  and cancels. Requests are lost, duplicated and delayed; registries are pruned
  and lost. Correct means: one job per key, no success lost, no answer of a
  canceled job, no orphan, every call ends.
* **One job's agent** (Codex Runtime). A process group is spawned after several
  awaits and supervised under a budget that several attempts share. Correct
  means: no agent for a job that is over, never two at once, a replay only if
  nothing was done, the job ends, nothing of its group survives.
* **Tasks** (Task Runner + Site). The loop and HTTP requests read the rows
  independently and apply what they read when it arrives, replacing the objects
  of running tasks. Correct means: a task is started once for a time, launchers
  open one request, a run that is over is reported, rows rule what is run.
* **Turns of a conversation** (Source Adapter + Site). A turn looks its session
  up, opens it, invokes the runtime on the session's thread, stores the new thread
  and delivers. Any await can fail. Correct means: turns of a conversation do not
  overlap, a thread is continued only under the instructions it was made under,
  a prompt is answered or excused once, the thread survives failures, every
  prompt ends.
* **Telegram updates**. Journal, checkpoint, handler, removal of the record, each
  an await and each a place for a crash. Correct means: at most once, in order,
  never lost without a trace, never stuck.
* **Buzz interactions**. The cursor is a time that authors set. Events become
  visible late; polls take minutes, defer and die. Correct means: a mention is
  answered once, no event is passed by, every event is handled.
* **Voice recordings**. Commands, a timer and a recovery route interleave at every
  await, next to writes that nobody awaits, over one connection per server. Correct
  means: one finalizer, one call of the hook, an announced recording is kept, every
  recording ends, and nobody is captured who was told that nothing is recorded.
* **Credential leases, hooks, console jobs, collection, Grok's process**: not
  modelled, see section 7.

`components` in `PROJECT.json` names every part, the ones left out with a reason.

## 2. Modules

| Module | Models | Proofs |
|---|---|---|
| `WorkflowScripts` (instances: `MCWorkflowScripts`) | script attempts: Site tables, routes, finalizers, recovery; the runner | `WorkflowScriptsProofs` |
| `StepOutcome` | abstract: what the script executor promises a workflow | |
| `AgentRunQueue` (instances: `MCAgentRunQueue`) | agent runs: queue, dispatcher, response handler | `AgentRunQueueProofs` |
| `RuntimeJobs` | registry of an adapter and the Site's calls to it | `RuntimeProofs` |
| `CodexRun` | one job's attempts, process group, budget | `RuntimeProofs` |
| `TaskSchedule` | the Task Runner's loop, requests, runs and launchers; task rows | `TaskScheduleProofs` |
| `ConversationTurns` | turns of Discord, Telegram, Buzz and HTTP conversations, prompt queues, sessions | `ConversationTurnsProofs` |
| `TelegramUpdates` | journal, offset, poll, recovery | `TelegramUpdatesProofs` |
| `UpdateLedger` | abstract: the fate of an update | |
| `BuzzInteractions` | the Buzz poll, its cursor and file | `BuzzInteractionsProofs` |
| `VoiceRecordings` | one server's recordings, commands, timer, recovery route | `VoiceRecordingsProofs` |
| `VoiceConnections` | the server's one voice connection, which commands and finalizations share | |

They stack. A message reaches `TelegramUpdates`, `BuzzInteractions` or Discord; its
handler is a turn of `ConversationTurns` (`TelegramUpdates!Start`..`Returns` and
`BuzzInteractions!Answer` stand for one); a turn invokes the runtime through the
Site, which is `RuntimeJobs`; its `Finish` picks any outcome, and `CodexRun` is
what happens inside. `TaskSchedule!Create` opens a request, which `AgentRunQueue`
and `WorkflowScripts` take from there; these two share workflow positions, each
with the other's executor reduced to its effect on the row.

The atom everywhere is **the code between two awaits**: all services are
single-threaded, so a callback that does not await runs to its end before anything
else in that process. The Site's database driver is synchronous.

### WorkflowScripts

Variables are columns of `workflow_script_runs` (`status`, `lease`, `token`,
`outcome`, `saved`, `receipt`, `advanced`...), the two columns of `workflow_runs`
that matter (`pos`, `wstat`), the one active agent run of a workflow (`job`),
the runner (`runner`), completion requests that were sent (`posts`: they stay,
so each may be delivered again at any time), and the Site's memory (`fin`, one
record per finalizer; `sweep`, what the recovery has still to do).

| Actions | Code |
|---|---|
| `ContinueScript`, `GateToScript`, `GateToTerminal`, `QueueAgent`, `ManualMove`, `Reopen`, `CancelRun`/`CancelFinish`, `CancelAttempt`, `ToggleScript`, `PublishWorkflow` | operator routes and `enqueueWorkflowAgentRun` |
| `AgentStarts`, `AgentDone`, `AgentFails` | `response-route-handler.ts`, reduced to one run |
| `Claim`, `ChildStarts`, `ChildDone`, `RenewRefused`, `CancelAck`, `RunnerGivesUp`, `RenewLost` | `dispatchWorkflowScriptAttempt` of the Task Runner and the routes it calls |
| `LeaseLapses` | time |
| `Deliver`, `SaveArtifact`, `SaveFails`, `Finish` | the completion route and `finalizeWorkflowScriptAttempt`; `Finish` includes `Advance`, the whole transaction of `advanceWorkflowScriptAttempt`, and its roll-back |
| `SweepStart`, `SweepStep` | `expireWorkflowScriptLeases`, `recoverWorkflowScriptCompletions` |
| `SiteCrash` | a restart: tables stay, handlers and the recovery's flag go |

Abstractions: a workflow has one active agent run at most (the detail is
`AgentRunQueue`); one `enabled` flag stands for the script registry; a version
bump stands for any change of the manifest; loops are left out; artifacts are a
prefix 0..`Artifacts`. `AgentStarts` merges claim and start. Timing: the runner
renews its 90 s lease every 20 s, so a lease lapses under a running child only
after a lost renewal (`RenewLost`). It may also lapse while the answer to the claim
is under way, which the runner does not notice: `slow` in `runner` records that it
did, and is the one exception in `ChildRunsAlone` (section 5). The supersession with
`SCRIPT_ROUTE_INVALID` (`workflow-script-completion.ts`) is left out: a published
workflow was validated, and an attempt of a changed one is superseded before by the
check of its manifest.

### AgentRunQueue

Variables are columns of `agent_runs` and `workflow_runs`, `exec` (the handler
that executes a run: what it has read, and which await it is in), `call` (direct
posts that have no run yet) and `cancelling`. `Dispatch` is one callback: expire
stale rows, then fill the lane by priority and age. `Read` → `Begin` spans the
credentials await; `Begin` → `RuntimeDone`/`RuntimeFails` the runtime await.
`Begin` has the early returns of the handler: gate to terminal, refusal (the row
becomes failed whatever it is by then), the duplicate (202; the row stays running
with nobody executing it). `RuntimeDone` includes the automatic continuation,
which inserts and starts the next row in the same callback. Cancel comes in two
halves around the runtime's answer.

Abstractions: one lane (`Slots` is the smaller of its concurrency and the global
one); loops and scripts left out; gates have approve and reject; the windows of
100 rows and 200 events in the attention scan are not modelled; sessions,
messages and prompts are left out. An empty answer of the runtime
(`response-route-handler.ts:1433-1434`) does not reach the handler: the client throws
`RUNTIME_EMPTY_RESPONSE`, which is a `RuntimeFails`.

### RuntimeJobs

The adapter: `jobs`, `status`, `held` (in memory), `keys`, `busy` (executed),
`receipt`. The Site: `phase`, `attempt`, `mine` per call. `wire`: creates that
were sent and not handled; a create the Site has given up on may still arrive.
`Accept` is the create route with `pruneResponseJobs`, `Finish` the end of
`runResponseJob` including the receipt, `Restart` a restart (memory, agents and
connections go, receipts stay). `Durable` selects Codex or Grok, whose registries
are the same code otherwise. A job is never seen queued: the create runs it in
the same callback. Polls that fail or find the job running are stutters.

Abstractions: validation, authority modes, the legacy route, traces and payloads;
ids are in the order of `createdAt`.

### CodexRun

`stage` is where `generateCodexCliReply` and `runCodexProcess` are: preparing
(`setup`, `Setups` awaits, each followed by `assertReady`), `running` (promise
unsettled), `closing` (settled by the close event, still awaiting files and git),
`waiting` (for a replay), `ended`. `alive[a]` are the members of an attempt's
process group: leader, `worker` (a descendant that holds stdout) and `stray` (one
that does not). The close event needs every holder of stdout gone, whereas the
exit event needs the leader only; the code's behaviour hangs on the difference.
`pipe` holds events not read yet. `Close` consumes the last record without
newline. The agent is the environment: it emits, forks and exits as it likes, and
what is assumed of it is that it announces an operation before it begins it, and
that whoever operates holds the agent's output. Strays of an attempt may therefore
be there, for the grace period of the cleanup, when the next attempt starts:
`OneAgent` speaks of leaders and workers, `JobEnds` of every member.

The module's specification is `RunSpec`, over `RunInit` and `RunNext`: its names are
kept apart from those of `RuntimeJobs`, because `RuntimeProofs` extends both.

Only Codex is modelled. Grok's process has one attempt, and its cleanup sends
SIGKILL only while the leader has not exited, which is the mutant of `JobEnds`.

### TaskSchedule

`row` are the Site's rows of the tasks; `list` is what the runner has made of
them and `plan` is `TaskState` (running, next time, whether it has come). A task is
*builtin* (an object that lives as long as the process, changed in place) or a
*launcher* (a `workflow-runner` with `singleFlight`; every reading of the rows
builds a new object, and one without a row loses its state although its run goes
on).

| Actions | Code |
|---|---|
| `Write`, `Delete` | `upsertTask`, `deleteCustomTaskByKey` of the Site, by operators |
| `Read(r)`, `Schedule`, `Serve` | the loop's registration and fetch, then `syncTasksFromSite` with the starts in one callback; the same for `GET /tasks` and `POST /tasks/:key/run` |
| `File`, `Check`, `Create`, `CreateFails`, `Work` | `createTaskRunInSite` and the awaits of a launcher's run; of a builtin task's run only that it ends |
| `Ends`, `EndsBadly`, `Report` | the end of `runTask`: next time, report, release |
| `LateCreate`, `Close`, `Elapse`, `Restart` | a create the runner gave up on; an operator closes a request; time; a restart |

`Config` is `applyTaskConfig` with its early returns. `Bad` stands for a schedule
that the cron parser rejects: no route checks it before it is stored. `own` says
whether a run still has its task's state, `cron` which schedule a launcher's run
will look at when it is over. One lock and one set of open requests stand for one
group of identical workflow keys; the code locks groups that overlap without being
equal apart from each other, which is not modelled.

Abstractions: prompts, scripts and HTTP posts are not kinds of their own: they are
listed like a launcher, and their run is one step like a builtin task's; a launcher
without `singleFlight` has no protocol; requests opened by others are not counted.

### ConversationTurns

`session` is what matters of a session's row: the thread (named by the turn that
began it) and the profile. A turn is `queued`, then `looked` (session read),
`opened` (upserted with the profile in force), `running` (the runtime invoked on
`cont`), and then stores (`persist`), delivers (`send`), records, or excuses
itself, in the platform's order: Buzz replies and then stores, the others store
first; HTTP answers its caller last. `Opened` is the upsert, which merges the metadata of
Telegram and Buzz sessions and replaces Discord's; `Resumed` decides which thread
is continued; `Overflow` is the retry without a thread when the context is too
long. Discord and Telegram pass through `createPromptQueue`, a Buzz poll takes one
event at a time, HTTP messages have no queue. `async` are change-request commands
that leave the queue with their call still at work. `saved` is a history variable, the
turns whose thread was written into the session; `OpenedInVain` and `Blind` say with it
which earlier turns make a thread be continued under another profile: one that opened
the session with its profile and stored nothing, or one without a profile whose lookup
failed. `OwnInstructions` excuses nothing else.

A delivery goes out in several messages and may be answered late or never: when it
fails (`SendFails`, `ExcuseFails`), nothing, a part or all of it was delivered. The
history variable `cut` keeps the turns whose answer was out, at least in part, when its
delivery failed. `RepliedOnce` excepts them on Discord alone, where an error reply
follows.

Abstractions: history, prompts, policies, rate limits and formatting; the
session's other fields; which parts of a delivery are out.

### TelegramUpdates and UpdateLedger

`saved` is the offset file, `pending`/`failed` the journal (a record is none, torn
or whole), `confirmed` what Telegram has forgotten. The actions follow the awaits of
`pollTelegramDiscoveryOnce`: `Poll`, `Recover`/`Quarantine` per pending record,
`Fetch`, then per update `Open`, `Write`, `Checkpoint`, `Start`, `Returns` or
`Throws`, `Complete` or `Fail`. `PollEnds` is an operation that throws or a process
that ends, with what it may have done half (`Halfway`). The branch for an
"existing" record in a batch is unreachable after a recovery and is left out.
`UpdateLedger` says: each update waits, runs, is over, in the order of the ids and
never again; `AtMostOnceInOrder` is the refinement.

### BuzzInteractions

`now` and the times of events are seconds; an event becomes visible up to `Lag`
after or `Ahead` before its time, in the channel `where`. `cursor` and `ids` are the
file; `pc`, `since`, `processed`, `unread`, `todo`, `deferred` the poll. `Fetch` reads
one channel: everything since `since` if `Limit` has room for it and for Prism's own
posts, which are filtered out after; else any part that fills the answer, as which
messages the relay then leaves out is its affair. `Ignore`, `Defer`, `Settle`, `Answer`
are the four ways an event goes, `Record` what follows an answer, `Finish` the new
cursor, `PollEnds` a poll that throws or is killed.

Nothing in the code relates its overlap of 10 s to the times that authors set, and
nothing reads on when an answer is full. So neither is assumed. History variables say
what is lost that way: `missed` are the events that the last read of their channel had
no room for; `late` and `lead` are how far behind the clock an event came and how far
ahead of its poll a deferred event left the cursor, and `TooLate` are the events that
the overlap does not make up for. `NeverPassedBy` and `EventsEnd` except these two and
nothing else.

Abstractions: profile and thread resolution is its outcome; of replies in a
conversation only that they are handled; the list of channels does not change.

### VoiceRecordings

`op` is the lock of the server, `active` the session on the map, `timers` the armed
auto-stops; `record` and `final` are the handlers of /prism-record and of the three
finalizers (stop command, timer, recovery route), each at one of its awaits. The
recovery route takes no lock and removes whichever session is on the map.

`note` and `meta` are `session.json` and `metadata.json`, plain `writeFile`s. A write
that fails midway or is cut by the end of the process leaves a torn file. While a
recording lives (`live`: it was begun in this process), every event of a speaker
rewrites `session.json` and nobody awaits that: `Timing` begins such a write, `Written`
and `WriteFails` end the last one under way, and a file that several wrote at a time
(`"mixed"`) may be whole or torn, as it may after a write that is awaited next to them
(`Saved`).

Abstractions: audio, transcripts, summaries and ingestion are steps that return or
fail; announcements of start and stop are awaits. The recovery route's rewrite of the
`metadata.json` of a sealed session (`voice.ts:1130-1163`) and two calls of that route
at a time are not modelled.

### VoiceConnections

`link` is the voice library's connection of the server, which joining again moves;
`entry` is the adapter's record of it in `connections`, written when a command has
connected; `stale` are the holders of a connection that was destroyed since. `dial` and
`again` are the awaits of `ensureVoiceConnection` with its retry without DAVE; `Join`,
`Record`, `RecordActive`, `Stop` and `Over` the places that use it. `told` is history:
the channel to which /prism-join last said that nothing is recorded, forgotten when a
recording begins. A command that connects alone comes to its channel; when two connect
at a time, the later moves the connection of both, and only the entry may name the
earlier channel. `Captured` therefore asks where the connection is, not what the entry
says. The recovery route is left out.

### StepOutcome

An attempt is opened at the step its run is on, is decided once, and its verdict
takes effect at most once, while the run is still on that step, along the
verdict's edge or as one retry. No leases, artifacts or crashes.
`WorkflowScripts!Promise` maps `status` and `advanced` to its phases;
`KeepsPromise` is the refinement.

## 3. Runs

| Run | Instance | Shows |
|---|---|---|
| `scripts_safety` | one request; health (script), review (gate), repair (agent), done; 4 attempts, 3 operator requests, 1 fault, a completion handler beside the recovery; 2.8 M states | `OneExecutor`, `EvidenceBeforeEffect`, `OutcomeFromOwner`, `OneAutoRetry`, `ChildRunsAlone`, and the refinement `KeepsPromise` |
| `scripts_liveness` | two script steps in a row, so that one transaction hands over from attempt to attempt; 5 attempts, 2 operator requests, 1 fault, fairness; 1.4 M states | `AttemptsSettle` |
| `queue` | two requests of different priority on one slot; three agent steps, gate, checkpoint, terminal; 4 rows, 3 operator requests, 1 direct post, 1 fault, fairness; 120 K states | `OneExecution`, `OneRunPerKey`, `MovesAreOwned`, `RunsEnd` |
| `runtime_codex` | two calls and another client, receipts, room for 1 ended job, 2 transport attempts, 5 jobs, 1 fault, 1 restart, fairness; 1.7 M states | `OneRunPerKey`, `NoOrphan`, `AnswerIsOwn`, `ResultsStay`, `CallsEnd` |
| `codex_job` | two attempts, two preparations, idle limit 3, maximum 5, a pipe of 1 event, fairness; 490 K states | `OperatesOnce`, `OneAgent`, `NoLateSpawn`, `JobEnds` |
| `tasks` | one task of either kind with two runs at a time, 2 edits of its row, a schedule that parses and one that does not, 1 fault, fairness; 823 K states | `StartedOnce`, `OneOpen`, `RunsAreFiled`, `RowsRule` |
| `turns_all` | one conversation on any platform, 3 prompts, 2 profiles, 1 change of profile, 1 fault, fairness; 1.2 M states | `TypeOK`, `OneAtATime`, `OwnInstructions`, `RepliedOnce`, `ThreadKept`, `TurnsEnd` |
| `telegram_updates` | 3 updates in batches of 2, 3 faults, fairness; 7 K states | `NothingLost`, the refinement `AtMostOnceInOrder`, `UpdatesEnd` |
| `buzz_poll` | 2 events in a channel, a clock to 3, overlap, lag and ahead 1, reads of 1 message, a file that holds 1 id, 2 faults, fairness; 1.5 M states | `MentionsOnce`, `NeverPassedBy`, `EventsEnd` |
| `voice` | 2 channels, 2 recordings, 1 fault, fairness; 455 K states | `OneFinalizer`, `HookOnce`, `AnnouncedKept`, `RecordingsEnd` |
| `turns_profile` | as `turns_all`, no fairness | refutes `NeverOtherInstructions`, finding 1 |
| `voice_join` | `VoiceConnections` with 2 channels, 1 connection that fails | refutes `JoinedIsNotRecorded`, finding 2 |

Each passing run takes less than three minutes with two workers. Deadlock is
checked where something can always happen (`tasks`, `voice`); elsewhere
`CHECK_DEADLOCK FALSE`, because the system may come to rest: no work is owed. Type
invariants are proved; `turns_all` checks its own as well, because an upsert that
clears a thread in part breaks the type of a session.

Every property of a passing run has a mutant, an operator `X_Something` beside the
definition `X` it replaces (a dropped check, a missing case, one too many), that
makes TLC refute the property.

**Why the bounds are enough.** A cause of trouble here is a pair: two actors on
one row, a row and its retry, an old answer and a new attempt. The bounds give
each pair, and one more: four rows hold a first attempt, its retry, an operator's
restart and the next step; three operator requests allow cancel, reopen and
restart in one behaviour; one fault at any point covers a crash between any two
steps, and the recovery from it. Two calls, with one job retained, make every ended
job of the first prunable while the second runs, and a job of another client evicts
one more. Two attempts of an agent allow a replay; `MaxMs` exceeds `IdleMs`, so that
either limit comes first. Two edits take a task off the list and bring it back
while a run is at work, so that two runs of it meet. Three prompts are a turn
under the old profile, one that fails under the new, and the one that inherits.
Three updates fill a batch and leave one over; three faults interrupt a recovery of
what an interrupted recovery left. A file of one id, and a read of one message, hold the first of two
events or the second; overlap, lag and ahead of 1 make events that the overlap still
reaches and, behind a cursor that a deferred event left ahead of its poll, ones that it does
not. The run has one channel, whose events would be read in turn with those of another;
the theorems hold for any. Two recordings are the active one and the one the route recovers. The
safety properties that involve counts beyond that are the ones that are also proved
for all bounds.

Two bounds distort, and are chosen around it. `RecoverLimit` is 100 in the code: with
1, TLC finds that an attempt whose advancement always rolls back starves the ones
behind it, which the code has as well at 100 (`workflow-script-store.ts:196`); the
runs use 2. `MaxAttempts` also blocks an insert, so the liveness run has as many
rows as its requests and faults can use (with 4 the bound cuts off a retry, and TLC
refutes `AttemptsSettle` for that reason alone), which is why the two script runs
are separate. `runtime_codex` is the Codex adapter; `RuntimeProofs` covers
both.

## 4. Fairness

Weak fairness only, for what the code drives by itself; never for operators,
deliveries, faults or agents. Faults are bounded, so eventually nothing fails:
liveness says what becomes of things then.

* `WorkflowScripts`: the runner's poll and its child (killed after 30 s), agent
  runs (their leases end), each lease's expiry, each finalizer's awaits (local
  writes), the recovery (dispatcher heartbeat).
* `AgentRunQueue`: `Dispatch` (heartbeat, `workflow-agent-run-queue.ts`), the
  steps of a handler (calls to gateway and runtime have timeouts), the expiry of
  a lease that nobody renews.
* `RuntimeJobs`: the steps of a call (each wait has a deadline) and the handling
  of a create by an adapter that is up. Not `Finish`: `CallsEnd` holds although an
  agent may hang for ever.
* `CodexRun`: the clock, the timers (`Timeout`, `Retry`, `Kill`), reading, the
  close event once nobody holds the pipes, and the return of preparations and of
  git at the end. The last is an **assumption**: git commands have no timeout, so
  a push that hangs keeps a job beyond its budget (hazard at
  `codex-runtime.ts:1617`). Nothing is assumed of the agent, which may report
  progress for ever.
* `TaskSchedule`: the loop (it never returns, and every call it makes has a
  deadline), an answer to a request that has read the rows, the steps of a run
  (requests time out), and time. Not operators, requests or late creates.
* `ConversationTurns`: each turn's steps; requests have deadlines, and the runtime's
  answer or failure is `CallsEnd`.
* `TelegramUpdates`, `BuzzInteractions`: the chain of steps of a poll, which a timer
  starts again and again. A handler returns or throws, as turns end.
* `VoiceRecordings`: steps of commands, timer and finalizations, each an await of a
  request or file operation, and an armed timer. Not the recovery route's or a
  member's first move.

## 5. Findings

1. `turns_profile`. The upsert before the runtime is called merges the *new*
   profile into a Telegram or Buzz session and leaves the *old* thread there. If the
   turn fails before it stores its own thread, the next one finds profile and
   session equal and resumes the old thread (`index.ts:2996-2999`);
   `docs/features/external-interaction-interfaces.md:357-360` says it must not
   silently be reused. `OwnInstructions` shows that it happens after such a turn
   only.
2. `voice_join`. /prism-join from another channel takes the server's only connection
   without a look at the recording that is being started, as in TLC's trace, or active,
   answers "connected but not recording" (`voice.ts:653-659`) when it is active, and
   whoever speaks in that channel is captured into the recording, against
   `docs/features/discord-voice-plan.md:34-36`.

Met while modelling and recorded here without a run of their own. The first five
were also counterexamples of TLC, to properties this project no longer runs or before
they named their exception; the others are readings of the code that the models follow:

* `dreamer-workflow-script-pilot-plan.md:116-117`, no fallback or retry beside a live
  child: the runner accepts an answer to a claim for 120 s (`httpTimeoutMs`), the
  lease it conveys lasts 90 s, and the child is started although the attempt may have
  been expired and retried. `ChildRunsAlone` excepts this child (`slow`) and no other.
* `pilot-plan.md:113-114`: cancelling a request leaves a failed attempt alone that has
  not advanced; if the request is reopened on the same step, the recovery retries it.
* `durable-agent-run-model.md:147-148`, terminal states are final: a handler that read
  the workflow, awaits credentials and then starts its run sets the workflow active
  on the step it had read, although it was closed in between. By the same cause a run
  canceled in that window is started (`admin-ui-feedback-checklist.md:37`).
* `durable-agent-run-model.md:144`: a run that the expiry of its lease failed becomes
  succeeded, and moves its workflow, when the runtime answers after all.
* `durable-agent-run-model.md:157-158`: a checkpoint in front of a terminal step
  completes the workflow while it stays on the checkpoint.
* `task-runner/README.md:111-112`, no concurrent runs of one key: a task that is
  deleted and created again during a run (or left out of one listing) is started
  again next to it. `StartedOnce` says what holds: one run since the task came into
  the list. `task-runner/README.md:55`: a changed schedule of an enabled custom task
  takes effect only after its next run, because the new object is compared with
  itself.
* A schedule that does not parse: the task runs at every poll from its first due time
  on, and its rows stay "running" (`index.ts:2675`). A deleted task's run leaves its
  agent run "running". A restart leaves rows "running" for ever.
* The launch lock is in the process, as `dreamer-maintenance.md:37-41` says; a create
  that timed out and is carried out later gives a second open request.
* A canceled job whose receipt cannot be written turns failed
  (`codex-runtime/src/index.ts:410`, against `runtime-adapter-contract.md:126-128`); a
  canceled job is unknown after a restart that comes before its agent has wound down
  (against `docs/runtime-long-runs.md:38-39`).
* `telegram-update-processing.ts:4-6`, the journal retains the complete update: not
  if the process ends while the record is written; then its id is known and its text
  is not. The handler has not begun, `NothingLost` has the exact statement.
* `index.ts:2205-2207`, the Buzz cursor advances only through the instant the scan
  began: it exceeds it when a deferred event carries a time ahead of the clock. An event
  that is late by more than the overlap leaves is then passed by (`TooLate`).
* A Buzz channel with more new messages than `BUZZ_MAX_MESSAGES_PER_CHANNEL` (500): one
  read holds no more, the cursor moves to the start of the poll all the same
  (`index.ts:2344-2348`), and the rest is passed by (`missed`).
* A Discord answer in several messages of which a later one fails is followed by the
  error reply (`index.ts:4267-4304`), so that a member sees part of an answer, or all of
  it, and an excuse (`cut` in `RepliedOnce`).
* A recovery of one session takes another, active one off the map (`orphaned` in
  `RecordingsEnd`), and its finalization beside a stop or timer calls the hook twice
  (`overlapped` in `HookOnce`). A crash or a failed write while `session.json` or
  `metadata.json` is rewritten can leave a recording that nothing recovers, and so can,
  without either, rewrites of `session.json` that overlap because nobody awaits them
  (`voice.ts:477`; `AnnouncedKept`).

## 6. Proofs

No theorem assumes a bound: they hold for any workflow that passes validation,
any number of requests, rows, callers, updates, events, recordings, tasks and
faults, from the named `ASSUME`s of the module, which TLC evaluates in each run.
The shape is always the same: an inductive `IInv`, one step per action, lemmas for
what actions share, and a final temporal step. Every `IInv` was an invariant of a
TLC run before it was proved.

* **`WorkflowScriptsProofs`**, in four parts.
  *Types and owners.* `TypeCorrect` from `TypeInv`: `TypeOK`, and what
  finalizers, the sweep, the runner and leases refer to are rows that exist and
  belong to a run. `ExecutionOwned`: `OneExecutor` is inductive relative to
  `TypeInv`. An insert (`InsertOwns`) requires that neither an active row nor an
  agent run is there, whatever the route it comes from; an advance (`AdvanceOwns`)
  first takes its own attempt out of the active ones, so at most one replaces it;
  everything else activates nothing (`NothingActivated`).
  *History.* `HistoryInvariant` is what a row, its finalizers and its retry have
  been through: only a settled row advances, and an outcome is there once the runner's
  completion was accepted (`RowInv`); a receipt comes after all artifacts, and an
  advancement after the receipt (`EvidenceInv`); what a finalizer counts as saved the row
  has saved, and a finalizer that began on a completion does not meet a row that failed
  without evidence (`FinInv`); the rows of one run and step have different `try`, and
  behind an automatic one is the first of them, advanced (`TryInv`). The
  action-by-action part is separated from the invariant: `StepMoves` shows that every
  action moves each row in one of four ways (changes its status alone, is accepted, is
  failed by the sweep, is judged), `HistoryKept` that these moves keep the invariant. `EvidenceFirst`,
  `OutcomeTraced` and `RetriedOnce` are its corollaries.
  *The runner.* `ChildAlone` has no hypothesis: while the runner is busy and its lease
  did not lapse before the answer to the claim came, its row is running or canceling under a
  live lease and no completion of it is under way, so that nobody else may end it
  (`RunnerInv`).
  *Refinement.* `PromiseKept` is `Spec => KeepsPromise`. An insert opens one attempt
  of the promise (`InsertIsBirth`), an advancement applies or drops one
  (`AdvancePromise`), a change of status decides one or is a stutter
  (`StatusMovePhase`); no other row's phase changes, because a row that is final stays
  so (`HistoryInvariant`). `WorkflowAssumption` says for it that "none", the owner of
  a row that was not inserted, is not the name of a workflow run.
* **`AgentRunQueueProofs`**. `TypeCorrect` from `TypeInv` (with `Owned`: a row
  that exists or is executed belongs to a request). `ExecutedOnce` and
  `KeysAreUnique`: `Single` is inductive relative to `TypeInv`; `Alone` is the fact
  that a start which found no other active row of the request is the only one
  afterwards, `EnqueueSingle` that an insert found no row of its key, and `Quiet`
  covers actions that start nothing. `MovesOwned` goes action by action.
* **`RuntimeProofs`**, of both modules.
  *RuntimeJobs.* `Invariant`: `IInv` is `TypeOK`, `Registry` (what
  memory, agents and receipts say of a job agree) and `Keyed` (a key leads to a job in
  memory that was created under it, and a job executed under a key is the one the key
  leads to). `OneRunPerKey` is not inductive by itself: a retry is harmless because
  the key still leads to the job that runs, and that is `Keyed`; pruning removes keys
  of ended jobs only, and that is `Registry`. `ResultsKept` follows from `ReadStep`,
  one lemma on how an action may change what a job reads as; `AnswersOwn` adds that a
  call that is done has read a success. `NobodyLeft` needs `Attended`: unless something
  was lost, only the current attempt of a call that is creating has a request on the
  wire, and a job executed for a call is the one the call polls, looks at or cancels.
  *CodexRun.* `RunInvariant`: attempts that are over have nobody holding
  their pipes and began no operation; attempts to come have no process; and *what the
  current attempt began is either noted in `started` or still in the pipe*. The last
  conjunct carries `OperatedOnce`: the close event drains the pipe, so that a replay
  knows everything. `SpawnedInTime` follows from the one action that starts a leader.
* **`TaskScheduleProofs`**. `Owned`: the flag "running" of a task mirrors the one run
  that still has its state, through readings that forget it and edits that bring it
  back. `Timed`: a time that was used stays the next one only while that run is at
  work. `Spoils` follows a schedule that does not parse through the row, the readings,
  the list and the runs. With these, `TasksStartOnce` and `RunsAreReported`.
  `Launches`: who is between look and end holds the lock, one does, and who creates
  has found nothing open; with it `OneRequestOpen`.
* **`ConversationTurnsProofs`**. `IInv` is `TypeOK` and three parts. `InLine`: a turn at
  work is the head of its queue, or the only one of Buzz (`TakesTurns`). `Replies`: at a
  step from which a turn may still reply it has not replied, unless it is a Discord turn
  about to excuse itself for an answer cut in delivery (`RepliesOnce`). `Sessions`
  relates what a session says (`SoundAt`) to what the turns that read it know
  (`SoundOf`): a thread and the profile next to it belong together, unless a turn of a
  merging platform has spoilt it; a turn that has looked, and has not opened yet, knows
  the session as it is, because the queue keeps the others out; once it has opened under
  the profile it saw, the session names the thread it continues, or none. `OwnThread`
  and `KeepsThread` follow. The lemmas are one per kind of change: a turn begins, opens,
  stores, or gives a thread up.
* **`TelegramUpdatesProofs`**. The offset file moves by one update at a time: what a
  poll has yet to take has no gap from the offset on (`NoGap`), and of what is pending
  at most the first is beyond the file (`OneAhead`), because the recovery of every
  poll comes first. `PollKeepsLedger`: `LedgerStep` maps each action to the ledger's
  step or to none; `TurnPasses` is the fact that the fate of only one update changes.
  `NothingIsLost` from `Records`.
* **`BuzzInteractionsProofs`**. Where the next poll reads from lies `Overlap` behind
  the cursor, and the cursor is at most `lead` ahead of the poll that left it
  (`Clocked`); an event that becomes visible after its channel was read is at most
  `late` behind the clock; what the poll has read is taken, deferred or handled, what
  it had no room for is `missed` (`Settled`), and the cursor does not pass a deferred
  one. `NothingPassedBy` is the result, for any overlap, lateness and limit;
  `MentionsAnsweredOnce` needs `Remembered` (ids are handled) and the look at the
  thread before an answer.
* **`VoiceRecordingsProofs`**. `Locked`: which handler may be at which step under
  which value of the lock (hence `OneFinalizerOfASession`); `Single`: a session that
  no two finalizations worked on at a time has at most one that works on it, which has
  not called the hook before its last step; `Sealed`: metadata is followed by the hook
  or a failure (hence `HookIsCalledOnce`); `Kept`: an announced recording has a
  `session.json`, whatever is left of it, because who announces has awaited one write
  and no step takes the file away (`NoteKept`, hence `AnnouncedIsKept`).

Every safety invariant and every action property that a passing run checks is now a
theorem, and so are both refinements.

**Only model-checked.** Liveness (`AttemptsSettle`, `RunsEnd`, `CallsEnd`, `JobEnds`,
`RowsRule`, `TurnsEnd`, `UpdatesEnd`, `EventsEnd`, `RecordingsEnd`): fairness and
ENABLED are beyond this prover. Of the two properties that runs refute there is
nothing to prove.

## 7. Not modelled, and why

* Credential gateway: leases, expiry and revocation are planned; `AgentRunQueue`
  abstracts its answer.
* Loops (`workflow-control-flow.ts`): each workflow module runs one iteration.
* Grok's process supervision: one attempt, simpler than Codex's.
* Console jobs, hooks, recordings in the Site, external interactions: planned.
* Discovery of chats, delivery with fallbacks, collection of messages for the
  memory: formats and pagination of external interfaces; of the collection, the
  checkpoint that advances although a channel failed is planned.
* Script tasks and their credentials: sequential awaits inside one run of a task.
* Reconciliation and health reports: they read what `AgentRunQueue` models.
* Profiles, executors, policies, skills, pages: configuration and rendering without a
  protocol; the modules take what they decide as constants or choices.
* Prism Memory: batch data processing over documents, best tested on data. Prism
  Doctor: heuristics over logs. Prism Trigger: one request. Contracts: types.

## 8. Plan

Done, in this order: `WorkflowScripts` with `StepOutcome`, `AgentRunQueue`,
`RuntimeJobs`, `CodexRun`, `ConversationTurns`, `TelegramUpdates` with `UpdateLedger`,
`BuzzInteractions`, `VoiceRecordings`, `TaskSchedule`, `VoiceConnections`, and theorems
of each of them but the last, among them every safety property of the passing runs.

Modules next, the most consequential first: credential leases
(`prism-gateway/src/store.ts`, `task-runner/src/gateway-lease.ts`); hooks and
recordings in the Site, which `VoiceRecordings!Hook` calls; console jobs
(`docs/features/console-job-cancel.md`); loop control in `AgentRunQueue`; Grok's
process, sharing the environment of `CodexRun`.

Abstract specifications worth stating: one for a runtime call (submitted, then
exactly one of answered or failed), which `RuntimeJobs` implements and
`AgentRunQueue` and `ConversationTurns` rely on; one for a run of a step.

Theorems next: what the abstract specifications themselves imply (`StepOutcome`: an
attempt is decided once and takes effect once; `UpdateLedger`: the order of the
updates), which every implementation then inherits through its refinement; the safety
half of the liveness properties, that is, that a state with work owed has an enabled
step, as invariants without ENABLED.

## 9. Running

    tlc -workers 2 -config WorkflowScripts_safety.cfg MCWorkflowScripts
    tlapm WorkflowScriptsProofs.tla

`PROJECT.json` gives module and configuration of every run.
