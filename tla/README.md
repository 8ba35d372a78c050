# TLA+ models of my-ax

My AX is a single-operator agent that runs on Cloudflare: a Worker, Durable
Objects (DOs), D1, R2, KV and a container per owner. These modules model the
parts of it in which state is shared between executions that overlap, fail or
die, translated from the TypeScript in `src/src` (paths below are relative to
that directory unless they start with `src/`). `PROJECT.json` maps every
definition to the lines it stands for.

## How executions interleave

Everything the modules say about atomicity rests on four facts of the platform:

- **One D1 statement is atomic.** The code uses no transactions across
  statements, so between two statements of one request any other request may
  run. A statement that fails has had no effect.
- **A request gives up control at every `await`.** Locals read before it may be
  stale after it. Each module keeps them in the record of the execution,
  `proc[p]`, and every later step uses that record, as the code does.
- **A call to another object may fail after it had its effect.** The models have
  both outcomes, whether the code compensates for them or not.
- **An isolate may die between any two steps** (deploys, evictions, limits). No
  code runs afterwards: there is no background repair (`src/README.md:68`).

Inside one isolate or one DO, code between two awaits is one step.

## Inventory

Each part with its state, its operations, what it talks to, what is hard about
it, and what makes it correct. **Bold** parts are modelled.

| Part | State | Operations and partners | Hard behaviour | Correct when |
|---|---|---|---|---|
| **Recurring jobs** `job-service.ts`, `jobs.ts`, `agent.ts:446`, `routes/sessions.ts:417` | D1 `jobs`, `job_events`; native alarms inside session DOs | create, update, pause, resume, run, delete; the alarm callback; deletion of a session. Calls the session DO to schedule, cancel and inject | stale rows, two stores that are not transactional, compensation that fails, leases, quota check before use | no run happens twice, limits hold, an active job has an alarm, a key injects once |
| **Delegated batches** `delegate-serial.ts`, `delegate-many.ts` | in-memory window, queue, attempts | admit, release, narrow, widen, back off, defer | up to 1000 tasks share one counter; retries of two kinds; a deadline | no slot leaks or idles, retries are bounded, every task is answered |
| **Decisions** `routes/decisions.ts`, `decision-response-program.ts` | D1 `runs`, `run_events`; the inbox of the asking session | ask, supersede, answer, roll back; page and pending list | concurrent taps and questions, a resume that fails after delivery, crashes | a decision ends once, the answer shown is the answer heard |
| **Run receipts (append)** `run-receipts.ts` | D1 `runs`, `run_events` | append an event, move `open` to `running` | acts on decisions too | does not disturb an answer |
| **Machine relay** `machinectl-host.ts` | sockets of the companion, storage (generation, catalog), memory (cache, pending calls) | connect, hello, result, close; invoke, list; timers; calls come from the page and from MCP | a new connection while calls of the old one are pending; late frames and closes; hibernation, restart | every call is answered, from the connection it was sent on; the live laptop's catalog is served |
| **Workspace container** `workspace-lifecycle.ts`, `workspace-object.ts`, `disk-sandbox.ts`, `workspace-boot.ts` | container and its generation, `verified`, `booting`, `expected` | use, boot, replace, save and stop on idleness; joins one boot | concurrent callers during a replacement, a container that stops silently | work runs on a restored home, a side effect is not repeated |
| **OAuth grants** `oauth-store.ts` | connector, token set and one-time states in a DO; grants at the provider | add, authorize, complete, import, refresh, disconnect, remove | flows and refreshes side by side, rotating refresh tokens, clients registered per flow, lost answers, a fetch across a disconnect | the stored refresh token is the one the provider takes, with the client it is bound to; a state is used once |
| **Turn lifecycle** `agent.ts:780-`, `turn-watchdog.ts`, `turn-continuation.ts`, `conversation-log.ts` | D1 `sessions`, `conversation_entries`; DO storage, schedules, tracker in memory | accept, prepare, settle, auto-continue (3), watchdog, abort, exhausted recovery | four actors act on looks taken before an await; any insert or schedule may fail; the isolate dies | a turn that stalls is ended, its end told once, the composer unlocked |
| **Dead sessions** `dead-session*.ts` | D1 `sessions`, alerts | the cron scan: list, read, settle, revive, alert | rows and turns change between its steps | one silent revival per dead turn, then one alert |
| Notifications `notify.ts`, `push.ts` | D1 `attention_items`, subscriptions | notify, push, dismiss, trim to 200 | SELECT before INSERT; retries | one item per key and hour |
| **Desk** `desk-board*.ts`, `routes/desk.ts`, `desk-write.ts` | one JSON board per owner, compared as text | upsert, remove, clear | compare-and-set with retries, unconditional clear, lost answers | a confirmed write was applied once, to the board of that moment; at most 30 cards |
| Snapshots `workspace.ts`, `workspace-policy.ts`, `workspace-snapshot-program.ts` | R2 objects, pointer and history in D1 | save, restore, shrink guard | partial publication, publications out of order, a home replaced between measure and backup | the pointer names a complete snapshot |
| Session pinning `session-pinning*.ts`, `fractional-index.ts` | pin rank per session | pin, unpin, reorder | limit checked before the update; stale ranks | at most 20, a total order |
| **Error issues** `error-issue.ts` | D1 `error_issue_fingerprints`, GitHub issues, the desk | claim, look, wait 8 x 250 ms, create, remember, card | a waiter outlives the claimer; claims without a number; a row older than a day | one issue per fingerprint |
| **Pi engine** `pi-engine/pi-chat-agent.ts` | status and copied rows in D1, a mark and a schedule in the DO, two promise chains in memory | submit, publish, index, watchdog, abort, open | the status cache runs ahead of the row, chains reject, the watchdog writes outside the chain, an isolate dies between two inserts | the copy is a prefix of the conversation; the status settles |
| Sessions, recipes, bridge, pantry, artifacts, code mode, client UI | D1, R2, memory of the tab | see `PROJECT.json` | see "Not modelled" | see "Not modelled" |

`PROJECT.json` lists every component with the reason for what is left out, and
under `hazards` each hard behaviour at its line with the properties that would
catch it.

## Modules

| Module | Models |
|---|---|
| `RecurringJobs` | jobs, alarms, reservations and all that touches them |
| `DelegateWindow`, `TaskWindow` | a delegated batch; `TaskWindow` is what it promises |
| `Decisions`, `DecisionPromise` | the decisions of one question; `DecisionPromise` is what they promise |
| `MachineHost` | the relay between callers and one laptop |
| `WorkspaceLifecycle` | the container of a workspace and the uses of it |
| `SessionTurns` | the turns of one conversation, the watchdog, the cron scan of dead sessions and the end of a recovery |
| `PiChat` | one chat of the Pi engine: run, publications, copies, watchdog |
| `OAuthGrants` | the tokens of one connector, its provider and its callers |
| `Selection` | what `filter` leaves of a sequence, for the users of a conversation and the cards of a desk |
| `DeskCards`, `DeskBoard`, `DeskPromise` | the desk as a value, how it is written, and what it promises |
| `ErrorIssues` | live errors filed as issues, on top of `DeskBoard` |
| `MC*` | instances for TLC, one per component |
| `*Proofs`, `SelectionTheorems` | theorems with TLAPS proofs; `ToolsProofs` is about `DelegateWindow` and `MachineHost`, `WorkspaceProofs` about `WorkspaceLifecycle` and `PiChat`, which share no names, the others about the module they are named for |

### RecurringJobs

`rows[j]` is a row of `jobs`; a missing row has status `"none"`, and `0` stands
for SQL NULL. `alarms` are the native schedules alive in the session objects,
`events` the run reservation per idempotency key, `dispatched` the prompts that
reached a session. `proc[p]` is an execution: the step it stands at and what it
has read. Each `Begin...` action is the reads a request starts with (they only
feed the guards and the record), and the other actions are one statement or one
remote call each, with the `catch` block as the failing disjunct.

`Schedule` has the outcomes of `scheduleEvery`: a new alarm, or the one there is, for the
SDK answers a call that repeats callback, interval and payload with the schedule it
holds, and an update that leaves prompt and cadence alone is one. Which of the two
depends on texts the model leaves out, so it is a choice. A call that fails may have
made its alarm (`ScheduleFails`) or cancelled it (`CancelFails`). `drifted` is history, for
`FailuresCompensated`: a cancellation nobody has recorded (a pause or a delete whose call
was done and then failed, an alarm cancelled by the deletion of a session before its
rows go), or an alarm handed to a second holder.

The owner's requests, the alarm callback (`AlarmFires` continues with the claim,
like a run) and the deletion of a session share the same steps they share in
the code. An alarm that fires in session `a.session` cancels in that session;
`new_session_per_run` goes by `runJobNow` and looks at the row's session, hence
the choice in `AlarmFires`. `Limits` are the values of `max_runs` the owner may
give. Left out: names, prompts, cadence and times, `thread_mode` (but for that
choice), the session a run may create, the audit rows of `job_events` that
carry no key, and the receipt in `recurring-job-run.ts`. A failing audit row is
modelled where it triggers a compensation (create, delete).

### DelegateWindow

`phase[i]` says where `runOne` stands for task `i`; `limit`, `active` and
`waiters` are `AdmissionState`. The code between two awaits is one action, so
`RateLimited`, `Interrupted`, `Finish` and `Throw` contain `release`, and what
follows it up to the next await. `release` runs under the old limit, before
`narrow`; `widen` hands over once more, which together is one hand-over under
the widened limit. `late` is the batch deadline, which may pass at any moment.
`TaskWindow` says: the window is halved or widened by one, a task is launched only where
all that run fit in the window, so that after a halving nothing starts until they do,
and an answered task does not run again. The window of an admission is that before or
after the step, since `release` hands over under the old limit.

### Decisions

`runs`, `events`, `link` are the tables; `inbox` is what the session keeps under
the idempotency key `decision:<id>`: the first message only. `confirmed` are
the answers whose request ended with success. A statement that fails goes to
the compensation the code has; the call to the session that fails may have
delivered. One question of one session is modelled, because every query binds
owner, session and question. `DecisionPromise` has three actions: ask, accept,
retire.

### MachineHost

A handler of the object is one action: it waits for storage only, and a Durable
Object delivers no event while a storage operation is under way (input gates).
The exception is `callLaptop`, which waits for its promise: `Forward` ends there,
and the promise is settled by `Message`, `Timeout` or `RejectPending`.

A connection `k` is its own generation, since each draws a random one.
`socket[k]` is the ready state the object sees; `inbound[k]` are the frames of the
laptop that have not been handled, in order, and a socket that is `closing` may
still deliver some and will be closed. `generation` and `storedTools` are the
storage, `cachedTools` is memory, and `Served` what `tools()` returns from the
two. `pending` are the entries of `this.pending`, `outcome` what the caller of
each has been told. They are separate because a caller is forgotten when an entry
goes away without an outcome. `sentOn`, `answeredOn` and `published` are history,
for the properties. `LaptopSends` is free: it may answer a call late, twice, over
another connection or not at all. `Hibernate` and `Restart` are the platform's:
sleep empties memory and keeps sockets; a restart loses both, and no handler
runs, so storage keeps a generation whose socket is gone.

Left out: the audit receipt of a call, the machine's name, the arguments and
their size limits, the status cache of the routes.

### WorkspaceLifecycle

A `Use` is a call of `use()`: every operation of `WorkspaceObject` is one, of one of
two kinds. `pc[u]` is the await it stands at, `stage[u]` whether it has replaced the
container and when. `boot` is the promise `booting` with the await the boot stands
at; `Booted` and `BootFailed` settle it and let all that wait for it go on in the
same step, since no event comes between. What one step tells about an await is what
holds when its answer is handled.

`container`, `starts` (its boot id), `home`, `ready` (the marker names this boot id) and
`fromDisk` are the container as the object can see it. `Answered` is a call that is
answered: one made on a stopped container starts it, from the saved disk or empty,
which is how a boot begins and how a restore is retried after a destroy. `boot.on` and
`on[u]` are the container a call was made for; a call fails where that one is `Gone`
or hangs. A boot waits for D1 between its calls, so a container that goes away between
two of them is started again by the next; an operation does not. `home` is `"saved"`,
`"older"` or `"blank"`: what `homeLooksWiped` and the order of the candidates tell
apart. `owed` is history: a stop while nothing was in use that was not announced.

`Budget` bounds the mishaps, each and all. Left out: `awake({ restoreLatest: false })`,
`bootFrom`, disks saved at other boundaries, which call an operation makes, the log
of losses, containers that hang and recover.

### SessionTurns

One conversation of the Think engine. `status` is the row of `sessions`, `users` the
user rows of `conversation_entries` and `answered` whether an assistant row follows
the last one, which is all the scan looks for. `accepted`, `queue`, `history` and
`unlogged` are what Think holds. Five chains of awaits run side by side, and each
action is what the code does between two of them: the turn (`turn`: `prepareTurn`,
the turn, `onChatResponse`), the watchdog alarm (`check`), the owner's abort, the cron
scan (`scan`) and the end of an exhausted recovery (`term`). `ends` are the two callers
of `endStuckTurn` that have cancelled and not yet settled. `Crash` empties the memory
and turns a turn under way into Think's incident, which is then recovered or
exhausted. A retry by the scan is a message named for the row it retries, because its
key is derived from that row. Left out: the text of messages, tools and pending page
calls, the count of recovery attempts (`Recover` or `Exhausted`, freely), times (a
turn may hang, a row may be stale).

### PiChat

The harness is a run that is `busy`, its `entries` and whether the last turn
`failed`. `jobs` and `pub` are the chain `publishing`, `wanted`, `index` and
`poisoned` the chain `indexing`: a promise chain that has rejected calls nothing any
more. `published` is the cache that `publishRunStatus` compares with, `through` the
stored mark of the copy. `crossed` is history: the watchdog, whose UPDATE is outside
the chain, wrote while a publication was about to. Left out: the events and views
that clients see, the models, the tools of a run.

### OAuthGrants

The provider is external: it issues a grant to a client, may give a new refresh token
with every refresh (`rotates`), and takes only the newest (`newest`) and only from the
client the grant was issued to (`client`). The storage is `mcp`, `tokens` and
`pending`. A flow registers a client of its own when the connector has none (`dyn`),
so flows side by side have different ones; a call is somebody who wants an access
token. Every fetch is a step of its own, during which the owner may disconnect, remove
or add the connector again. `late` and `returned` are history: a request that began
before the tokens were taken away wrote its tokens afterwards, which is where the
promise about clients ends. `ImportToken` is the method of that name; no code in `src/`
calls it yet. Left out: PKCE, discovery, the text of tokens, the audit rows.

### DeskCards, DeskBoard, DeskPromise, ErrorIssues

`DeskCards` is the pure part: what an upsert or a removal makes of a board. `DeskBoard`
is `writeWithCompareAndSet`: `work[p]` is what the loop has read and made, `Swap`
succeeds only on the row that was read, byte for byte, and its answer may be lost.
`landed` is history. `DeskPromise` is the atomic desk: ask, apply, answer, drop, clear.
`ErrorIssues` composes it with the reports of live errors: requests meet on a row per
fingerprint (`marks`), the one that inserted it files, the others take its number or
wait, and who has filed writes a card through the same `BeginWrite` as every other
writer. `calm` is history: nobody ran out of patience and no issue was closed. Left
out: the text of cards and issues, promotion of apps, undo, the broadcast's content.

## Runs

`CHECK_DEADLOCK FALSE` is set because jobs, batches, answers, calls and uses do
end: a state in which nobody asks for anything more is the normal end. Where one
execution waits for another (a task for a slot, a caller for the laptop, a use for
a boot) a liveness property says that the wait ends.

| Run | Instance | Shows |
|---|---|---|
| `jobs_work` | 1 job, 1 key, 2 executions, limits 1 and 2, 3 alarms, 3 runs, 1 fault, 1 crash, 1 lapse, the session deletable, in three corners | types; no run claimed or injected twice; the limit; no refund; one injection per key while no lease ran out; an active job keeps a live alarm although a call fails, unless something has drifted |
| `delegate_window` | 4 tasks, window 3, 1 rate-limit retry | slots, bounds, deadline, refinement of `TaskWindow`; with fairness, every task is answered |
| `decisions_answers` | 2 decisions, 3 executions, 2 answers, 1 fault, 1 crash | answers stay on record and on the page; redirects lead to newer decisions; refinement of `DecisionPromise` |
| `machine_relay` | 2 connections, 3 calls with a limit of 2, 2 catalogs, 3 frames, 1 failing send, 1 restart | calls accounted for and answered from home, the catalog; with fairness, every call is answered |
| `workspace_use` | 2 uses of the two kinds, 2 snapshots, any 3 of 6 mishaps, each at most once | lost commands, announced stops; with fairness, every use is answered |
| `session_turns` | 1 message, 1 automatic continuation, any 2 troubles | one retry and one alert per dead turn, the end told once; with fairness, the composer unlocks |
| `pi_chat` | 3 entries, 1 opening, 1 failed call, 1 restart | the copy is a prefix; with fairness, the status settles |
| `oauth_grants` | 2 flows, 2 callers, 2 grants of 3 turns, added twice, 1 lost answer or death | the refresh token is current and goes with its client |
| `desk_issues` | 3 requests, 2 attempts, 2 reports, 1 other write, 1 clear, 1 fault | one issue per fingerprint; the desk refines `DeskPromise` |

Why the bounds are enough: the races are between two executions over one row
(three for decisions, where two answers and a question meet), and two runs, two
limits or three alarms suffice for one to be stale and one to be current. One
fault or crash is what the code compensates for; with two, compensations fail
and the properties that need them do not hold (`FailuresCompensated` is the
promise against one failure, and excepts crashes because the code
has no repair for them). All of the jobs at once is more than TLC can search, so
`jobs_work` expands the states of three corners (`Corners` in `MCRecurringJobs`): limits,
crashes and the deletion of the session without faults and keys, with two alarms; runs
under a key with a fault and a lapse, with one alarm; and the compensations of one
fault, with three alarms. Each property has its races in one of them, and for every
value of the constants, with no corners, it is proved. Identical ids are symmetric: they are drawn at random
and only compared. For the relay two connections are an old and a new one, and
three calls one more than the limit; for the workspace two uses are one that
replaces and one that boots or works meanwhile, and of three mishaps one can hit
the operation, one the boot and one the replacement. For a conversation one message
is enough, since a turn, its continuation and its retry are three turns already, and
two troubles are the death that starts a recovery and one that hits it. For the Pi
chat three entries are one that is copied, one that is being copied and one that
comes meanwhile. For the grants two flows are one that is overtaken, and three turns
let both callers refresh; `RefreshTokenCurrent` is promised while no answer of the
provider is lost, which is why faults are few and free. For the desk two attempts are
one that is refused and a last one, and three requests are one that files, one that
waits and one that writes elsewhere; no board reaches its limit of two cards with more,
so that the cut is not exercised by this instance. Liveness runs use no symmetry.

### Disagreements between the code and its words

Each of these runs, which ends in a violation unless noted, checks one statement of a doc,
comment or test that the code does not keep; `findings` in `PROJECT.json` quotes it.

| Run | Statement | What happens |
|---|---|---|
| `jobs_silent` | recurring jobs survive partial scheduler failures instead of being silently inactive (`src/CHANGELOG.md:177`) | `PauseCancel` and `DeleteCancel` stand outside the `try`: a cancellation that is done and then fails leaves an active row with a dead alarm. With `MaxFaults = 0` TLC finds the other way: an update gets the job's own alarm back as its replacement and then retires it. `src/README.md:68` admits drift |
| `workspace_blank` | a replacement container restores the latest snapshot before it accepts work | two uses replace the same hung container; the second destroys what the first has restored, and the boot under way initialises an empty one |
| `pi_index` | every chat is in the full-text search | one failed insert rejects the chain of copies for good |
| `delegate_window` (passes) | at most two children, one after the other, serially (`src/docs/architecture.md:13`, two snapshots at `:32`) | up to 32 children run at once, and `NoIdleSlot` says that the window is used; `src/README.md:55`, `src/docs/principles.md:33` and the description of the tool agree with the code, so `TaskWindow` states what they say |

### Known gaps

Behaviour the modules have because the code has it, which no run states as a property.
The properties above are worded around these, and each exception is named there.

- A job update writes the status of the row it has read, which may have been
  exhausted meanwhile. Two retries of one key may both renew the same expired lease. A
  job that is created while its session is deleted may outlive it.
- A second, different answer to a decision whose first delivery failed late is
  confirmed and not heard, and an execution that dies before the resume is not
  repaired.
- A refresh or a completion in flight while the owner disconnects writes its tokens
  back (`returned` in `OAuthGrants`).
- The watchdog and the scan act on a look taken before an await: a healthy turn that
  began meanwhile can be cancelled as stuck, and a healthy turn that has been silent
  for long can be revived.
- An issue that is closed, or a row older than a day, may be answered with the old
  issue; a waiter that loses patience files a second one.
- The preview of a desk app is promoted without a look at the board.

## Fairness

In the first five components `Spec` (`RelaySpec` for the relay) has none and `FairSpec`
(`FairRelaySpec`) has weak fairness on the steps of an execution that
has begun (a Worker request runs on unless its isolate dies, which is `Crash`),
for a batch on the end of a child (it ends, or `DELEGATE_TIMEOUT_MS` aborts it)
and on the end of a backoff (a timer), for the relay on the timer of a pending
call, which lives as long as its entry does, and for a workspace on the steps of
its uses and boots (calls to the container have timeouts). The owner's requests,
alarms, leases, the deadline, the laptop, the network and mishaps are never
forced.

In `SessionTurns` weak fairness is on what the platform promises to continue: Think
takes the work it holds (`TakeWork`), the cron trigger comes and its scan goes on
(`ScanStep`), the end of a recovery goes on (`TermStep`). It is not on the turn, nor on
the watchdog: `ComposerUnlocks` has to hold although both stand still. In `PiChat` it is
on the two chains, on a submission and on the watchdog, whose schedule is persisted;
a run may never end. `OAuthGrants` and `ErrorIssues` have none.

## Proofs

All proofs hold for every value of the constants, under the assumptions the
modules name (ids differ from `None`; limits and bounds are natural numbers;
the sets of decisions, connections and calls are finite; a batch and its window
are not empty; the owner's messages have other names than the retries and the
continuations the code makes).

- `RecurringJobsProofs`: `TypeCorrect`, and `RunClaimedOnceHolds` by
  `RunInv == TypeOK /\ FreshIds /\ CountedRuns /\ RunClaimedOnce`.
  `RunClaimedOnce` alone is not inductive: a row that is deleted and created
  again would start to count from zero. `FreshIds` says that an id is drawn
  once, so nothing is known of a job before its row is inserted, and
  `CountedRuns` that every claim and injection is at most the `run_count` of
  its row. The claim takes `run_count + 1`, which therefore is new.
  `RunsNeverRefundedHolds` follows from `RunInv` and from `RowsKept`, the lemma that an
  id never names a second row. `RunLimitHonouredHolds` takes a largest limit `m` and uses
  `LimitInv(m)`: the limit of a row is one of the limits, a claim counts up to its number,
  and a number is injected once, so more injections than the limit would need a number
  beyond it. `KeyedRunOnceHolds` uses `KeyInv`: a key whose lease never lapsed is
  carried by at most one execution, nothing has been sent under it while one does, and
  only a key that lapsed is taken over.
  `FailuresCompensatedHolds` assumes nothing: `TickGuarded` says that `TickInv` holds as long
  as what happened is `Calm` (no drift, no crash, one fault at most), and calm is not
  regained (`NextWorse`). `TickInv` says who can
  cancel what. An alarm that was made and not written is known to its maker alone
  (`Holding`, `Fresh`), who reads a row and later cancels its alarm does so only when that
  alarm is no longer the one of an active row or while it answers for the job
  (`Replaced`), and a job without an alarm in its row has somebody who answers for it
  (`Ticking`). `Stepped` is what any step does to alarms, rows and its execution; each
  action is shown to be such a step, and the invariant to survive it. `Sound` carries the
  bound on failures: a compensation runs after the failure, so in calm it does not fail
  itself. An alarm whose call failed is nobody's (`OrphanAlarm`), and in calm the deletion
  of a session has no alarm to cancel (`PurgeSteps`).
- `ToolsProofs`, for `DelegateWindow`: `TypeCorrect`, `AttemptsBoundedHolds` by `LaunchInv`
  (a task that waits has been launched at most once more often than it was
  rate limited; the queue holds waiting tasks, each once, so a hand-over
  launches a task once) and `NoRetryPastDeadlineHolds`.
  `WindowInv` adds to `LaunchInv` the accounts of the slots and the queue, and that the
  counter never passes the width of the window; from it come `SlotsAccountedHolds`,
  `NoIdleSlotHolds`, and `KeepsPromiseHolds`, the refinement of `TaskWindow`: a hand-over
  launches as many as fit under the limit it is given (`HandOverFits`), and no other
  task's count moves (`StepLaunches`).
- `DecisionsProofs`: `TypeCorrect`, and `PromiseKept`, the refinement of
  `DecisionPromise`, by `HoldInv`: a decision being made is known to its maker
  alone, an execution between completing a run and its end holds the run
  alone, and a confirmed decision is completed and confirmed once. Without it
  a rollback could reopen a decision that another execution had confirmed.
  `ConfirmedOnRecordHolds` by `EventInv`, `RedirectsLeadForwardHolds` by `LinkInv` (a
  new row is numbered above every row there is, and a decision is retired only in favour
  of a newer one), `PageTellsAnswerHolds` by `PageInv` (while nothing fails or dies, one
  event is left of a completed decision, that of the answer its session received).
  `OneAnswerHolds` and `EndsForGoodHolds` are consequences of the promise, carried over by
  the refinement: at most one answer is ever accepted, and nothing takes it back.
- `ToolsProofs`, for `MachineHost`: `RelayTypeCorrect`, `WaitingAccountedHolds`,
  `AnswersStayHomeHolds` and `CatalogKeptHolds`, by `RelayInv`. `AnswersStayHome`
  rests on `WaitingAccounted` (a pending call was forwarded on the active
  connection, and only frames of that one are heard), which rests on
  `OpenIsActive` (a call is forwarded on the newest open socket, which therefore
  is the active one). `CatalogKept` needs `CacheAgrees`: the object may sleep at
  any time it has no pending call, and then serves storage.

- `OAuthGrantsProofs`: `TypeCorrect`; `RefreshTokenCurrentHolds` by
  `RotationInv`: while nothing is lost, a caller that has refreshed holds the newest
  token of its grant (`Ahead`), one that has not yet holds at most the newest
  (`Behind`), at most one caller has refreshed a grant and not stored it (`Alone`), and
  a grant that is not stored yet has not been refreshed (`Unused`). `ClientIdMatchesHolds` by
  `ClientInv`: a set is kept with the client its grant was issued to, wherever it is,
  and one that needs the connector's own client finds it there until it is taken away.
- `ErrorIssuesProofs`: `KeepsDeskHolds`, the refinement of `DeskPromise` by the
  composition. `DeskInv` says that a board that is ready to be swapped in was made from the
  one that was read; the swap compares with that one, so it is made from the one that is
  there. What a write makes of a board stays opaque: the proof holds for any. It also
  needs `IssuesTyped`, for the card of a report is a write. `OneIssueHolds` by `IssueInv`:
  who is about to file is alone, holds the row without a number, and finds no issue.
  `TypeCorrect` by `TypeInv`, which adds that the boards being written are well formed
  (`DeskTyped`) and that no row gives a number of an issue there is not. `AppliedGood` is
  what `DeskTyped` rests on: a write keeps a board well formed, whatever its cards.
- `SelectionTheorems`: `KeptProperties`. `filter` on an array is a recursive function
  here, and what it keeps is by induction over the sequence. The library's induction
  takes an operator as a parameter, so `NatSetInduction` is the same for a set of
  numbers, proved from the well-foundedness of `<`. Both `TypeCorrect`s of the modules
  that filter, and `OneRecoveryHolds`, rest on it.
- `SessionTurnsProofs`: `EndToldOnceHolds` by `EndInv`: an incident whose end is not on
  record has not been told, nor has one whose end is being written. `OneRecoveryHolds`
  by `DataInv`: nothing that Think accepted is accepted or queued again (`SentInv`), the
  rows are messages of the history, each once (`RowsInv`), the row of the retry of an
  alerted one is at or below the mark that the next alert has to exceed (`AlertsInv`), the
  row a scan acts on is still the one it read (`ScanInv`), and a turn answers what is in
  the history (`TurnInv`). `TypeCorrect` adds `FlagInv`, the ranges of the flags.
- `WorkspaceProofs`, for `WorkspaceLifecycle`: `TypeCorrect`, `LostMeansGoneHolds` and
  `StopIsAnnouncedHolds` by `WorkspaceInv == TypeOK /\ UseInv /\ OwedInv`. `UseInv`
  tells from where a use stands how often its operation was begun, and that the
  container of a use that has replaced it is gone unless a destroy failed. `OwedInv`:
  while a loss is owed nothing runs, the loss is expected, and every use stands before
  its operation, behind the boot that will announce it.
- `WorkspaceProofs`, for `PiChat`: `PiTypeCorrect`, and `CopyIsPrefixHolds` by `CopyInv`: the next entry to
  copy is at most one behind the last row, so that an insert finds it there or adds it
  at its place.

Every safety invariant, action property and refinement that a passing run checks is
stated by a theorem. Liveness is out of the prover's reach and only model-checked:
`EveryTaskAnswered`, `EveryCallAnswered`, `EveryUseAnswered`, `ComposerUnlocks`,
`StatusSettles`. `ActiveJobsTick`, `RestoredBeforeWork` and `EveryEntryIndexed` do not hold (see the
disagreements above).

## Not modelled

- Snapshots (`workspace.ts`): what a publication promises depends on R2 and on the
  container's own archive; `WorkspaceLifecycle` knows snapshots only as the candidates
  of a restore.
- Notifications, session pinning and the job quota: read, then write, with nothing
  between them. The code promises nothing when two overlap, and alone they are a single
  statement.
- The capability bridge, recipes, pantry and code mode: calls into generated code,
  whose state is the tab's or the container's.
- The UI (`ui/*.svelte`), HTTP composition and views: rendering. Artifacts, audio,
  uploads, models, gateways, connectors' HTTP, voice, costs: I/O around one call.

## Plan

1. Done: `RecurringJobs`, `DelegateWindow`, `Decisions`, `MachineHost`,
   `WorkspaceLifecycle`, `SessionTurns`, `PiChat`, `OAuthGrants`, `DeskBoard` with
   `DeskPromise`, `ErrorIssues` on top of it.
2. Next: `WorkspaceSnapshots` on top of `WorkspaceLifecycle` (the snapshot of a blank home
   never replaces a published one), `NotifyDedupe`, `SessionPinning`, the transcript merge
   of the client.
3. Compositions: the workspace lifecycle with snapshots; the receipts of a run with the
   recurring jobs; the notifications of the dead-session scan.
4. Proofs: of the modules to come. An alarm for every active job beside the deletion
   of a session, whose two statements and loop an update may cross by moving a job away.
