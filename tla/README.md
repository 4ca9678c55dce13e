# A verification project for DeskCue

DeskCue runs a daemon on the user's machine that starts, continues, watches and
stops coding agents (Codex, Claude Code) and local models, and serves a web
dashboard. This directory holds TLA+ models of its logic, checked with TLC, and
theorems about them, proved with TLAPS.

`PROJECT.json` lists components, runs, findings, hazards and theorems, and maps
every definition to the source lines it stands for.

## The system

All paths below are under `src/`; the daemon is `apps/daemon/src`.

| Component | State | Operations | Hard because |
|---|---|---|---|
| Prompt journal (`persistence/journals/promptDeliveryJournalStore.ts`) | a row per prompt with a phase, in SQLite | insert, advance by id, advance the latest row of a session, sweep a session or the table | rows outlive the daemon; by-session statements do not name their prompt |
| Prompt transport (`backend/control/storeBackedPromptTransportCoordinator.ts`, `storeBackedPromptDeliveryLifecycle.ts`, `agents/*/session/*PromptDelivery.ts`, `agents/sourceAgentPromptProcess.ts`) | the operation in flight per session | prepare, preflight, kill the old child, dispatch, spawn, accept, save, attach the exit handler, fail | six awaits between the first check and the last write |
| Process runner (`sessions/process`) | tracked, retired and exited children | spawn, kill, kill for restart, close | processes exit at any time, and may not exit when killed |
| Session record (`sessions/state`, `sessions/lifecycle`) | status, reply state, prompt recovery; in memory and saved | finalize, update, hydrate | written by every other part between its awaits |
| Reply-state sync (`sessions/replyState`, `backend/control/storeBackedAttachedSessionReconciler.ts`) | pending journal resolutions | reconcile with the CLI's own transcript | the transcript belongs to another program and is read late |
| Stop and interrupt (`sessions/commands/sessionCommands.ts`) | a stop in flight | mark stopped, kill, roll back | the rollback writes what was true before the await |
| Storage of sessions (`sessions/state/sessionRepository.ts`, `persistence/storePersistence.ts`, `backend/persistence`) | sessions in memory, dirty marks, rows, a chain of saves | change, save, materialize, close, hydrate | a save writes at one moment and marks as saved at another |
| Opening and attaching (`sessions/attach`, `agents/*/session/*ReadOnlySession*.ts`) | attached sessions, creations in flight | find or create, claim, roll back | two requests for one chat |
| Interrupt lifecycle (`agents/sourceTurnInterruptLifecycle.ts`, `persistence/sourceTurnInterruptStore.ts`) | a row per interrupted turn | request, cancel, confirm, expire, force | evidence that is bounded, late, or of another turn |
| Update readiness (`application/update`) | work under way, the drain lease | admit, drain, close, back up | work admitted while the drain looks |
| Realtime and dashboard (`realtime`, `apps/web/src`) | cursor and replay buffer; the page's overview, selected session and load | publish, replay, reconnect, load | eviction, restarts, answers and events in any order |
| Notifications (`infrastructure/notifications`) | claims, durable outbox, retry timers | claim, enqueue, send, retry, drain | crash between send and delete, a state that cannot be saved |
| Local LLM chats (`localLlmChats`) | reservations, slots, generations, three files per chat | send, approve, interrupt, close, recover | a turn ends in three writes, and its error path writes too |
| Cloud connector (`infrastructure/cloud`, `persistence/cloud`) | profile, outbox and cursor, command receipts, one relay | project, send, acknowledge, run a remote command, change permissions | lost relays, commands sent twice, permissions changed during an await |
| Host (`apps/host/src`) | the daemon child, start, stop and update waiters, timers | start, stop, restart, apply update, close | timeouts race the child's events; restarts race stops |
| Update service (`packages/update/src`, `apps/host/src/updateService.ts`) | `update-state.json` and staged installers | check, download, apply, reconcile | a crash between two files |
| Manual commands, Git polling | bounded pools | run, coalesce, close | limits and close |
| Source transcripts, HTTP API, storage schema, files, CLI, packages | | | mostly I/O; see `PROJECT.json` |

How they interact. The dashboard calls the HTTP API, which calls
`StoreBackedSessionBackend`. A prompt goes to the transport coordinator, which
writes the journal, spawns a one-shot CLI through the `SessionRunner`, updates
the session's record and asks for a save. The exit of that CLI finalizes the
session and settles the journal. Independently, whenever somebody looks at a
session, its transcript is read and the record, and the rows of interrupted
turns, are reconciled with it. A stop kills the tracked child. A shutdown drains
operations, leaves one-shot CLIs running and saves; a restart rebuilds each
session's recovery from the journal and the saved record. Every change is an
event with a cursor: the socket carries it to the pages, the notification
coordinator may claim it, and the cloud connector projects the sessions after
it. The host starts the daemon, restarts it, and asks it to be ready before it
installs an update. The daemon is one Node.js thread: code between two awaits is
atomic, and everything else interleaves.

## What is modelled

| Module | Stands for |
|---|---|
| `PromptRows` | the rows of one session and every SQL statement that changes them, as functions on rows |
| `PromptJournal` | the store by itself, under callers that do anything |
| `PromptDelivery` | one session: transport, runner, record, save, transcript, stop, shutdown, crash, restart |
| `PromptPromise` | the abstract specification: what DeskCue promises about a prompt |
| `PromptDeliveryProofs`, `PromptDeliveryRefinement`, `PromptPromiseProofs` | theorems about the two |
| `SessionStore` | the sessions of one chat: openings, memory, dirty marks, saves, close, crash, hydration |
| `SourceTurnInterrupt` | what DeskCue remembers of the turns of one chat that it was asked to interrupt |
| `UpdateReadiness` | admission, drain, quiesce and backup before an update |
| `LiveUpdates` | cursors, replay buffer, socket, and the page that follows the sessions |
| `NotificationOutbox` | claims, outbox, deliveries and retries of notifications |
| `LocalChat` | chats with a local model: reservations, slots, generations, files, recovery |
| `CloudConnector` | projection, outbox, relay, receipts and permissions of the cloud connector |
| `DaemonSupervisor` | the supervisor of the daemon process: its fields and its processes in one record, a method, handler or timer per operator |
| `HostRuntime` | the host: the queue of control requests, the update, the initial start, the close and its retry, and everything that happens to the supervisor |
| `UpdateManager` | `update-state.json` and the staged installers |
| `SessionStoreProofs`, `LiveUpdatesProofs`, `LocalChatProofs` | theorems about the module each is named after |
| `DaemonProofs` | theorems about `PromptJournal`, `SourceTurnInterrupt`, `UpdateReadiness`, `NotificationOutbox` and `CloudConnector` |
| `HostRuntimeProofs` | theorems about `DaemonSupervisor`, `HostRuntime` and `UpdateManager` |
| `MCPromptDelivery`, `MCDaemon`, `MCHost` | instances |

`PromptDelivery` is the composition of the parts that share a session: transport,
runner, record, journal, sync, stop, shutdown and restart. `HostRuntime` composes
the supervisor with the queue of requests and the close. The other components of
the daemon share no state that their properties depend on. `MCDaemon` therefore
puts them side by side: its initial state chooses the one that is driven
(`focus`), and the others rest. What TLC explores is the sum of the components
and not their product, which would say nothing more. `MCHost` does the same with
the supervision and the update service, whose `launching` step is all that
`HostRuntime` sees of it.

### State of `PromptDelivery`

| Variable | Code |
|---|---|
| `rows` | the session's rows in `prompt_delivery_journal`; SQLite, durable at once |
| `session`, `disk` | `SessionDetail` in the repository and as last saved: status, whether `finishedAt` is set, `replyState`, `promptRecovery`, `inputHistory` |
| `current` | the entry of `SessionRunner.children`; the child of prompt d is called d, a terminal attached without a prompt is `Shell` |
| `alive` | the processes that run, tracked or not |
| `turn` | what the CLI's transcript says of each prompt: absent, active, completed, aborted |
| `op` | the prompt operation in flight (`runGuarded` allows one) and the await it is at |
| `stop` | the stop in flight with the status and reply state it captured |
| `resolution` | the entry of `pendingPromptRecoveryResolutions` |
| `daemon` | up, draining, closing, down, starting |

A reply state and a recovery name their prompt by number. `linked` says that they
carry the `requested_at` of the journal row, which is what hydration compares;
`observed` says that they carry the time at which the transcript shows the
prompt, which is what reconciliation compares. A recovery's `retryable` is true
exactly in the phase `not_sent`.

One action is the code between two awaits. `SendPrompt` is everything up to the
first await of the transport, `PreflightPasses` and `PreflightFails` what follows
it, and so on along `runSourcePromptProcessLifecycle`; `Started` is the end of
that function, where the exit handler is attached and an earlier exit replayed.
`ProcessExits` is `attachSessionExitHandler` with `finalizeSession` and
`recordSessionFinished`. `Sync` is one run of the reconciler on a transcript that
may lag behind the CLI (`Snapshot`). `Persist` is a queued save when it runs.
`Halt`, `Restart` and `RestartDone` are the end of a daemon and
`StoreBackedSessionBackend.hydrate`.

### State of `HostRuntime`

| Variable | Code |
|---|---|
| `sup` | `DaemonSupervisor`: a field per field of the class, see the comments in `Supervisor`; `proc` is what each process it has spawned does; `armed` counts restart timers, also one that `restartTimer` no longer points to; `wait` says for which promise of the supervisor each caller waits |
| `wanted` | `desiredDaemonRunning` of the host, as persisted |
| `boot` | `startInitialDaemon`: its `daemon.start` is due, was made, or was made amid the update that executes (the last two differ in history only) |
| `op` | the request that executes (`operationQueue` allows one) and the await it is at: `restart` and `restarting` are the two halves of a restart, `staging` to `recovered` the steps of `applyUpdate` |
| `shutdown` | `shutdownRequested` |
| `host` | `HostApplication.close`: not called, awaiting the queue, awaiting the daemon, done |

One action is again the code between two awaits: an event of the child
(`DaemonReady`, `DaemonExits`, ...), a timer, a request up to its first await, or
what follows a promise of the supervisor that has settled (`Resume`, `OpEnds`,
`RestartContinues`, `UpdateStopped`, `Recover`, `StartAfterStop`, `Closed`).
Continuations of settled promises run before the next event: `Quiet`. A stop that
settles wakes the starts that await `stopPromise` itself before the callers of
`stop`, which are one promise further away.

### State of the other modules

| Module, variable | Code |
|---|---|
| `SessionStore`: `memory`, `stamp`, `marks` | the sessions of `SessionRepository` with their revisions, which are dirty and which lightweight |
| `disk`, `saves` | the rows; the `persistChain` with what each save took, and the debounce timer |
| `open`, `creation` | requests to open the chat and the await each is at; who runs `attachedSessionCreations` |
| `SourceTurnInterrupt`: `interrupts` | the table `source_turn_interrupts`, keyed by turn and fingerprint; `rank` is the order of `requested_at` |
| `chat`, `managed`, `interrupter` | the transcript; the attached session and its child; the handlers under way, with the view they hold across an await |
| `UpdateReadiness`: `work`, `admission`, `drain`, `services` | each request; `UpdateAdmission`; `beginUpdateDrain` and what it has counted; the application |
| `LiveUpdates`: `daemon`, `link`, `page` | the sessions with `latestCursor` and `replayEvents`; the socket as each end has it, with frames on their way; the store of the page and its pending load |
| `NotificationOutbox`: `claimed`, `outbox`, `pending`, `delivery` | dedupe keys; rows with their next attempt; `pendingRetries`; the runs of `runRetry` and `scheduleRetry` |
| `LocalChat`: `manifest`, `checkpoint`, `stored`, `ended` | `chat.json`, `pending-assistant.json`, `messages.jsonl`, `events.jsonl` |
| `command`, `gen`, `slots`, `queue`, `interrupt`, `recovery` | the reservation and the generation of a chat, the gate, an interrupt, the recovery at start |
| `CloudConnector`: `profile`, `table`, `receipts` | the enabled profile; `cloud_sync_outbox` with its cursor; `cloud_control_receipts` |
| `relay`, `projection`, `permission` | the connection loop with its socket, sender and what is on the wire; the projection coordinator; `CloudConnectorPermissions.apply` |
| `UpdateManager`: `file`, `stage`, `service`, `job` | `update-state.json`; the installers; the state of `HostUpdateService`; the operation and the write it is at |

A variable or field described as history in its module is read by properties
only, apart from the bounds: every `Max...` constant caps a counter in a guard.

### Assumptions

- The CLI takes a prompt only while its process runs, ends with exit code 0 only
  after it has ended the turn it took, and reports an active writer only for a
  prompt it did not take (`MayExit`).
- A spawn either throws, or gives a child that never starts, or starts it;
  `startupReady` tells the last two apart.
- In `PromptDelivery` saves are atomic: snapshot and write are one step. Their
  failure is a fault. `SessionStore` has the steps.
- `Faults` says what goes wrong: `crash` (the daemon dies at any point), `kill`
  (a termination is not confirmed in time), `save` (a save is rejected).
- Prompts of a session have different texts and their `requested_at` differ, so
  their order is the order of the rows.
- The error of a spawn that failed comes before anything can ask the child to
  stop. `managedEntry` sends `startup-failed` with `retryable: false` only. The
  child says `stopped` before it exits with code 0.
- Interrupts: the user entry of a turn precedes its start in the transcript; the
  window that an interrupt reads (160 entries) contains the start; a chat has
  one managed session; kill and save end within the grace period.
- Live updates: the replay comes before presence, which needs a round trip.
- Notifications: a key belongs to one event.
- Local chats: a command begins once the recovery has ended, which every command
  awaits.
- Cloud: takes events in order, recognizes one it has, refuses only what it has
  not stored, and closes an old relay before it welcomes a new one. A receipt
  lives longer than Cloud repeats its command: the code keeps a completed one for
  7 days, unless 4096 newer ones push it out (`cloudControlReceiptRepository.ts:3`).
- Update service: requests come after `initialize`; the manifest of a version is
  not published twice; an installer has ended before the host starts again.

### Abstractions

Of the host: process ids, ports, generations, messages and delays are gone;
`stableRunTimer` may fire whenever it is armed. Not modelled: metadata that cannot
be written, `abortStart`, `update.check` and the autostart requests (they occupy
the queue only), and a failure to record that an update failed.

Of prompts: logs, exit codes, timestamps and texts are gone, except where a
decision depends on them. A turn that failed and one that was interrupted end
alike. Sessions share nothing but the daemon's phase, so one is modelled. Not
modelled: the queued prompt (no adapter's policy reaches it), image attachments,
`detachAttachedSession`, the interactive PTY interrupt, sessions restored as
attached terminals by markers in their logs, the launch of a new session with its
first prompt, and a journal row whose session record was deleted. By the time the
runner closes, the retired children are covered by the drain, which waits for the
operation that kills them.

Of sessions: a session is a revision and who wrote it. Workspace and Git reads
succeed or throw. Columns, pruning of rows and storage maintenance are left out.

Of interrupts: a failed turn counts as completed; readers other than the handlers
of interrupts read and decorate in one step.

Of updates: the five kinds of work that readiness counts are one; downloads,
signatures and snapshots succeed, fail or are cancelled; `.part` files are gone.

Of live updates: an update is the time of the last change that is shown. The code
filters the buffer by cursor (`readAfter`); `ReadAfter` takes the suffix with larger
cursors, which is the same because the buffer is ordered by cursor (`BufferInv`). Heartbeat,
access that is withdrawn, oversize events, loads that the user starts and the batching
of log lines are left out.

Of notifications: which events notify, subscriptions and pairing are left out, and
so are the bound of the claims and the expiry of rows.

Of local chats: text is whether there is any; tools, previews, quota and drafts are
gone; a mutation of a chat is a command that takes no slot.

Of the cloud: a session is a version and whether its labels are disclosed; one
control capability stands for the four; `close()` and a crash are one action, since
they differ in nothing that is stored; a socket that closes and its handler are one
step. Enrollment, remote reads, the realtime bridge, previews, the assembly of
frames, and the expiry and eviction of receipts and rows are left out.

## What the runs check

| Run | Instance | Question |
|---|---|---|
| `Daemon` | see the table below | what does each component of the daemon keep safe? |
| `DaemonLive` | smaller, fair | do stops, reloads, notifications and closes come to their end, and does Cloud catch up? |
| `Claude` | two prompts, all faults | the safety of the transport that refuses to replace a child |
| `CodexCrash` | two prompts, crashes, failed saves | the safety of the transport that replaces its child |
| `CodexLive` | one prompt, all faults | do operations, shutdowns and recoveries end? |
| `Host` | two processes, two restarts, all requests; three versions, failed writes, damage, installs by hand | one daemon, none forgotten, none beside an installer or after the close but by the initial start; are staged updates kept, and never older? |
| `FindRetry`, `FindStale`, `FindPartial`, `FindStaged`, `FindApply`, `FindBoot` | | disagreements, below |

Bounds. For prompts, two is the smallest number at which one is sent while
something of an earlier one (its process, its row, its recovery, a stop, a
resolution) is unfinished; the theorems cover every number. Two processes and two
restarts reach the limit of restarts from every side. In `Daemon` (in `DaemonLive`
less of each, since liveness is dearer):

| Component | Instance | Why |
|---|---|---|
| journal | two sessions of two prompts | the latest of several rows, and a row of another session, can each be the wrong one |
| store | two openings, one change, one failed save, one restart | the change and a second save on either side of an await, a rollback against the change |
| interrupts | two turns, two requests, two handlers | the evidence, the row and the handler may each be of the other turn |
| readiness | three pieces of work, two drains | one ends, one is admitted late, one runs on; a drain after a cancelled one |
| live updates | two sessions, two changes, replay of three events, two faults | eviction, a cut and a restart, before and after the load |
| outbox | two events, two providers, limit of two rows, one stop, one failed save | rows compete for the limit; each await meets a stop |
| local chats | two chats, one slot, a queue of one, two turns, one failed write, one restart, commands that send or generate (in `DaemonLive` that send or mutate, and no write fails); the two chats are symmetric | someone waits for the slot; each write fails or is the last before a crash |
| cloud | one session that changes once, an outbox of two rows, two changes of permissions, one fault of six kinds; in `Daemon` a command sent twice, in `DaemonLive` labels disclosed or not and changed once, and no commands | a command over the relay before and after a revocation; an envelope lost, refused or overtaken at each step |

Three versions let a downgrade, an upgrade and an update by hand all differ from
what is staged. Deadlock is checked in the runs of prompts that are meant to
pass: a daemon can always be shut down, and one that is down restarted. It is not
checked elsewhere, since the other instances stop when their bounds are reached
or the host has closed.

The properties, by component:

- Prompts. `RetryableIsSafe`: the prompt that the recovery card offers to send
  again is in no runtime and in no process; with unconfirmed kills and Codex see
  `FindRetry`. `RecoveryIsSound`, the journal's side of it, always holds.
  `InFlightAttended`: the latest prompt is never forgotten while it may be
  running. `ReplyHasItsChild`: a busy session is watched through the process of
  its own prompt. `ClearedByEvidence`: a running daemon forgets an unknown outcome
  only when the transcript shows the end of that very turn. `StartUnblocked`: no
  process is started while an earlier outcome is unknown, however long ago that
  was checked. `SettledIsFinal`: history is not rewritten. `KeepsPromise`:
  refinement of `PromptPromise`. `OperationEnds`, `ShutdownEnds`, `RecoveryEnds`.
- Sessions. `UnsavedIsDirty`, `ClosedIsSaved`: a change that falls between a save
  and its mark is written later, by the close at the latest. `NothingTakenBack`,
  `NothingUndone`: what two requests for one chat share is not taken from one by
  the failure of the other.
- Interrupts. `ConfirmedStays`, `OwnRequestTakenBack`, `StopIsConfirmed`.
- Readiness. `NothingCutOff`: work admitted before the drain is counted by it.
- Live updates. `NothingMissed`, `NeverOlder`, `SelectedCatchesUp`: gaps can come
  only from four known causes, what is shown never goes back, and the selected
  session recovers even from a gap.
- Notifications. `NothingLost`, `EachSettles`: what is claimed is sent, refused or
  tried to the end, across crashes.
- Local chats. `AnswerKept`, `EndsOnce`, `SlotsCounted`, `ClosedIsQuiet`,
  `StopsEnd`.
- Cloud. `RunsOnceWhileAllowed`: no command is executed twice or with permissions
  that were withdrawn (a change of labels has no part in it, so `Daemon` has none). `CloudCatchesUp`: Cloud ends with each session as it is,
  except after a revocation, one that failed, or a full outbox.
- Host, with requests from the moment the control socket listens. `OneDaemon`,
  `RunningIsServing`, `NeverForgotten`, `RequestEnds`, `HostCloses`.
  `OnlyBootIntrudes`: no daemon runs, or is about to, while an installer is prepared
  and launched, unless the initial start, which has no place in the queue, came amid
  that update (`InstallsAlone` without the exception is `FindBoot`).
  `OnlyBootIsLeft`: a host that has closed leaves no timer, and no daemon but one of
  an initial start that waited for the same stop as the close.
- Updates. `StagedIsKept`, `NeverBackwards`.

### Fairness

`PromptDelivery` assumes weak fairness of what the Node.js event loop and the
code's timeouts guarantee: the next step of an operation, of a stop (which is
confirmed or times out), of a queued save, of a resolution, of the shutdown. It
assumes nothing of users, CLIs and crashes. `SyncFresh` assumes that a session
whose recovery is pending is looked at again: the realtime sync, the session
routes and the diagnostics overview each start a reconciliation, so this holds
while anybody watches. Liveness is checked with one prompt, because
`OperationEnds` and `ShutdownEnds` concern one operation at a time.

For the host, weak fairness of what follows a settled promise and strong fairness
of timeouts, of the poll of a start, of the steps of an update and of the close:
they are due, but callbacks of the child may come first. A process that was sent
SIGKILL exits sooner or later. The poll every 25 ms sees a start that failed
before the restart timer (at least 250 ms) makes another. Nothing is assumed of
users, of a booting or serving daemon, and of the restart timer.

`InterruptFairness`: the chat is read again, by a reader whose window contains the
turn. `LiveFairness`: frames and presence arrive, replays are made, and the page
reconnects; `MCDaemon` spells the fairness of each component out for the one that is
driven, since a page at rest would still connect. `OutboxFairness`: timers fire, a send
answers or times out, a service that closes has closed in the end, and one that
stopped is started again.
`ChatFairness`: writes end, a runtime or tool ends once its signal is aborted, and
a generation that has a result goes on; a runtime that is not aborted may never
answer. `CloudFairness`: the interval timer, the HTTP deadlines, the timeout of
the welcome and the host's restart. No fault is fair.

### Disagreements

Each is a run that TLC ends with a violation:

- `FindRetry`. The rollback of a stop that was not confirmed writes back a reply
  state captured before the await. It may name an older prompt than the one that
  runs by then, and an active-writer conflict of the newer one then offers the
  older, which was taken, for retry.
- `FindStale`. What a restart clears of a session that is not loaded in full is
  changed in memory only; the first read takes it from the database again.
- `FindPartial`. An answer that is interrupted after an approved action is in no
  message when the interrupt returns, although the API promises it.
- `FindStaged`. A check that is interrupted takes the staged installer with it.
- `FindApply`. The documentation says that an update that fails restores the
  requested daemon state. The recovery starts the daemon even if it was stopped on
  request before.
- `FindBoot`. The documentation says that the host stops the daemon and launches the
  installer. Requests are served before the initial start, which is not in their
  queue. A start and an update that overlap with a slow `autostart.refresh` have the
  daemon stopped when the initial start comes, and it spawns one beside the
  installer.

Others were seen while modelling and have no run:

- A prepared prompt is documented to surface as `not_sent`
  (`docs/recovery.md:61`). The exit of the session's previous child settles every
  recoverable row, that of a prompt in preflight included, as completed or
  interrupted (`storeBackedPromptTransportCoordinator.ts:503`).
- A stop that was not confirmed logs that the process "remains attached"
  (`sessionCommands.ts:252`). If the leader of the process group has exited and
  another member has not, the runner has already deleted the child.
- After a restart only the latest recoverable row of a session becomes its
  recovery (`storeBackedSessionBackend.ts:270`); an older prompt of unknown
  outcome is not shown, although `docs/recovery.md:73` says it is.
- The host may close beside a daemon, the exception in `OnlyBootIsLeft`. A request
  starts a daemon, its start times out, and the initial start waits for the stop; the
  host is shut down, and its close gets its answer from the same stop. The start that
  waits comes first and spawns without looking at `desiredRunning` again
  (`daemonSupervisor.ts:140`). The daemon ends only because its host disconnects
  (`docs/distribution.md:160`); `hostApplication.test.ts:109` has the host wait until
  the daemon exits.
- Two requests to open a Codex chat can both find no session and make one each
  (`codexReadOnlySession.ts:86`; `docs/daemon-api.md:528`): `CreatesOrReuses`.
- The rollback of a Claude opening removes the session from memory while a save
  that was queued behind it (`storePersistence.ts:62`) may still be written; after
  a restart the chat has two sessions: `RetryIsClean`.
- A view of a transcript that lacks the start of a turn can confirm its row with
  the outcome of a newer one (`sourceTurnInterruptLifecycle.ts:338`):
  `OutcomeOfItsTurn`.
- A failure of `abortApply` is swallowed (`hostRuntime.ts:300`): the phase stays
  applying, and the lifecycle stays locked though no update is applied.
- Local chats. A crash while an action waits for approval stores the checkpoint as
  a message, and the resumed answer is appended again. With two slots, an approval
  that overtakes the end of the generation that asked for it is refused by
  `resumeAfterAction`, and the turn stays active with nobody at work. A failed
  write after the action was saved ends the turn but leaves the action pending. A
  crash after an approved tool has run leaves it to be approved, and run, again.
  A failed write at the end of a turn can store message and terminal event twice.
- Cloud. A full outbox never drains: every relay projects before it sends, the
  projection does not fit, and the relay is closed (`cloudConnectorService.ts:143`);
  without the exception `Crowded`, `CloudCatchesUp` fails. A projection under way
  when labels are withdrawn enqueues them once more, to be corrected by the next
  one (`cloudProjectionCoordinator.ts:143`). A revocation that fails by a network
  error leaves the connector offline, and asking for the same permissions again
  does not repair it (`cloudConnectorPermissions.ts:58`).
- Notifications. A full queue drops a web push for good, since it has one attempt,
  although the answer says that the outbox will retry.

## What is proved

Every safety property that a passing run checks is also a theorem, for every value
of the constants that the assumptions named in the modules allow. Each rests on an
inductive invariant; a lemma per operator says what it keeps, the proof of a step
has a case per action, and the theorem joins them by temporal logic.

| Module | Theorems | Properties |
|---|---|---|
| `PromptDeliveryProofs` | `TypeCorrect`, `SafetyInvariant`, `RecoverySound`, `LatestIsAttended`; with a hypothesis: `BlockedInvariant`, `StartsUnblocked`, `OnlyEvidenceClears`, `RetryInvariant`, `RetriesAreSafe`, `RepliesHaveTheirChild` | `RecoveryIsSound`, `InFlightAttended`; `StartUnblocked`, `ClearedByEvidence`, `RetryableIsSafe`, `ReplyHasItsChild` |
| `PromptDeliveryRefinement`, `PromptPromiseProofs` | `KeepsThePromise`, `RetryNeverDuplicates` | `KeepsPromise` |
| `HostRuntimeProofs` | `HostTypes`, `AtMostOneDaemon`, `RestartsAreReasonable`, `StatusIsTrue`, `RequestInvariant`, `InstallsUndisturbed`, `ClosedLeavesNothing`, `NothingForgotten`; `UpdateInvariant`, `StagedStays`, `OnlyForwards` | `OneDaemon`, `RunningIsServing`, `OnlyBootIntrudes`, `OnlyBootIsLeft`, `NeverForgotten`; `StagedIsKept`, `NeverBackwards` |
| `SessionStoreProofs` | `StoreInvariant`, `UnsavedStaysDirty`, `CloseSavesAll`, `OnlyOwnUndone`, `AnswerStays` | `UnsavedIsDirty`, `ClosedIsSaved`, `NothingUndone`, `NothingTakenBack` |
| `DaemonProofs` | `DrainCutsNothing`, `RowsAreAccounted`, `SettledStays`, `InterruptInvariant`, `ConfirmationsStay`, `OnlyOwnTakenBack`, `ConnectorInvariant`, `CommandsRunOnce` | `NothingCutOff`, `NothingLost`, `SettledIsFinal`, `ConfirmedStays`, `OwnRequestTakenBack`, `RunsOnceWhileAllowed` |
| `LocalChatProofs` | `GateInvariant`, `SlotsAreCounted`, `ClosesQuietly`, `TurnInvariant`, `AnswersAreKept`, `TurnsEndOnce` | `SlotsCounted`, `ClosedIsQuiet`, `AnswerKept`, `EndsOnce` |
| `LiveUpdatesProofs` | `LiveInvariant`, `NothingIsMissed`, `NeverGoesBack` | `NothingMissed`, `NeverOlder` |

Assumptions on constants say only what the code fixes or what keeps two names
apart: the adapters and faults there are, counts that are not zero, an absent child
that is no process, openings that are not called like the other writers of a
session (`OpensAssumption`), a finite set of local chats (their slots are counted).

### Hypotheses

Some theorems have one, because TLC refutes them without it.

- `Calm`: the adapter is Claude, or every termination is confirmed in time (`kill`
  is not a fault). With Codex and `kill`, TLC finds a counterexample to each of
  `RetryableIsSafe` (the run `FindRetry`), `StartUnblocked` and `ClearedByEvidence`,
  all by the rollback of a stop: it gives back the status or the reply of before the
  await while the next prompt is already on its way, and the exit of the child that
  was to be stopped then makes an outcome unknown in the middle of that operation.
  A Claude session starts nothing while a child is tracked, and needs no such
  hypothesis.
- `RepliesHaveTheirChild` is for Codex with confirmed terminations, the instance that
  a run checks. The rollback breaks it as well; and a Claude session goes on waiting
  for the transcript after its process has ended, so it is no promise there.

### Prompts

`RecoveryIsSound` is not inductive. The statement that makes it hard is
`markNotSentAfterActiveWriterConflict`, which changes the latest row that is not
settled, whatever prompt the refused child carried. For that row to be the right
one, (1) a tracked child must belong to the youngest prompt that was started
(`TrackedInv`), which needs (2) that an operation carries the youngest prompt and
has not started it before its dispatch (`OpInv`), and that a child which is being
killed for it may be tracked again; (3) the row of a tracked child that can still
be refused is either unsettled or has no unsettled row below it (`RefusedInv`),
which includes that after a failed start the outcome is shown as unknown, so that
no younger prompt is prepared; and (4) a daemon that is down tracks nothing
(`DownInv`). `SafetyInv` is their conjunction; the other invariants build on it.

- `AttendedInv` adds who attends to the latest row in flight, also within an
  operation, where the row of a prompt whose process starts belongs to the tracked
  child (`OpRowInv`), and that a restart leaves no row in flight (`SweptInv`).
- `BlockedInv`: an operation that has not started its process yet sees no unknown
  outcome at any await. What could bring one is the exit of another child with a row
  in flight; such a child is tracked without a reply and without a recovery only if
  the session was stopped, and the exit of a stopped session asks for no recovery.
- `RetryInv`: what the session in memory, or the one on disk, offers to send again
  is a prompt that was asked for, that nothing has and that nothing is about to
  start. The copy on disk counts because a crash makes it the session. An active
  writer offers the prompt of the reply that is waited for, so `AwaitedInv` must
  say that this is the prompt of the child that was refused.
- `LinkedInv`: the reply of a prompt from here is gone before the next operation.

The refinement maps phases to verdicts (`VerdictOf`). The one step that needs the
invariant is the conflict, which makes a prompt whose process was started
retryable: `PromptPromise` allows that only when the process is gone and took
nothing.

### Host

The supervisor's invariant (`SupervisorInv`) is one of the supervisor alone; what
the host does is a composition of its operators (`StepKeepsSupervisor`). Two
conjuncts make it inductive: a stop in progress concerns the child at hand, which
is in `stoppingChildren`, so that a child that is gone leaves no stop behind when a
restart is scheduled; and a child that still boots was not told to stop, so that a
spawn that failed is not one that was stopping. `RequestInv` adds what the request
that executes waits for at each of its awaits, that the stop of an update is never
one after which the child is started again, and that a stop in progress is followed
by a restart or by the request that asked for it. Nothing is assumed of when requests
come: until the initial start is made it answers for a daemon that is desired and not
there, and what an update relies on (`InstallInv`) holds unless that start came amid
the update.

For the update service, every state says the truth about the installer that it
names: the one in the file, the one a write will put there, and the one an
operation falls back to when it fails (`StatesInv`). `JobInv` says which states
these are at each step, `VersionInv` of which version they are.

### Daemon

- Store (`StoreInv`). What a running save has written is what is in memory as long as
  the stamp is the same (`SaveInv`); only the first save of the chain has started;
  the openings of a Claude chat share one creation, and who is answered has the
  session of an opening that is over (`SharedInv`).
- Readiness (`ReadinessInv`). Nothing is admitted from the count to the close, and
  nothing that was counted runs when the services close.
- Notifications (`OutboxInv`). The attempt in a row, in a timer or under way is the
  next one or one that was made.
- Interrupts (`InterruptInv`). A rank is given once, so that a row that a handler
  takes back is the one it made; a handler concerns the turn it saw active.
- Cloud (`ConnectorInv`). Nothing was started without a receipt, no relay allows more
  than the profile, a revocation under way has revoked already.
- Local chats. `ChatInv`: the slots are counted by commands and generations, and the
  step of each says what the other may be. `TurnInv`: every turn is of one chat, the
  checkpoint goes only when the message is there, the manifest is cleared only when
  the end is in the ledger, and, until a write fails, a turn that may still end has
  not.
- Live updates (`LiveInv`). Everything that is shown, kept or on its way is a state
  the session has had, and they are ordered alike by time and by content
  (`OrderInv`); the buffer is ordered by cursor (`BufferInv`); and as long as no
  update got out of reach, whatever the page lacks of a session is in the channel or
  behind the cursor from which a replay will begin (`LinkInv`).

Only model-checked: the liveness properties (`OperationEnds`, `ShutdownEnds`,
`RecoveryEnds`, `RequestEnds`, `HostCloses`, `StopIsConfirmed`, `SelectedCatchesUp`,
`EachSettles`, `StopsEnd`, `CloudCatchesUp`): fairness and `ENABLED` are beyond the
prover, as is induction over data. The disagreements are counterexamples of TLC.
Only proved: the invariants above, which the properties follow from, and
`RetryNeverDuplicates`.

## Not modelled

Manual commands and Git polling are bounded pools of one class each, covered by
their unit tests. The order in which services close and its deadline are covered
by crashes at any point. The HTTP API, the preview relay, workspaces, files, Git,
diagnostics, the CLI, the storage schema and the parsers of transcripts are
validation, rendering, parsing and I/O, without interleavings of their own. Of the
dashboard only what follows the daemon is modelled: the rest renders.

## Plan

1. `SelectedCatchesUp`, `CloudCatchesUp` and the other liveness properties stay with
   TLC; what can be proved of them is the safety they rest on: that a reload is
   pending whenever the selected session lags, and that an outbox row is there, or a
   projection due, whenever Cloud does.
2. What the theorems under `Calm` leave of themselves when a kill may fail: the same
   statements for steps before the first rollback of a stop.
3. Manual commands and Git polling; enrollment of the cloud connector; interactive
   PTY interrupts.
