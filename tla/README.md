# Verification of daas-engine

TLA+ models of the control plane of daas-engine (`app/`), TLC runs that check
them on small instances, and TLAPS proofs of what matters most for every
instance. Every definition is a translation of the code; `PROJECT.json` maps
each to its lines.

daas-engine is one process (`workers=1`): an asyncio event loop with worker
threads, a control database (SQLAlchemy; SQLite in WAL mode or Postgres) and,
per organization, a DuckDB file with directories for uploads and reports. Code
between two awaits is atomic, every await is a point where anything else may
run, and a committed SQL statement is atomic. This is the grain of all modules.

## 1. Inventory

| Component | State | Operations | What is hard | What makes it correct |
|---|---|---|---|---|
| Job executor (`control/executor.py`, lifespan in `main.py`) | `jobs`, `run_records`, `usage_counters`; tasks, semaphore, listeners | start, stop, submit, `_run`, `_execute`, `_progress`, `_finish`, `cancel_job` | tasks, threads and late progress coroutines interleave; crash at any await; cancel against claim | one run per organization, bounded runs, no forgotten job, a cancelled job never runs, counted and announced once |
| Job admission (`api/v1/jobs.py`, `plan_guard.py`) | the same tables | `plan_guard`, `queue_job`, auto-run | checks and INSERT are statements of their own | queue limit, plan limit |
| Event streams (`JobBus`, `_event_stream`) | events per job, slots per principal | subscribe, publish, open_stream, release, shutdown | wake-up between read and wait; disconnect at any await; release in a thread | no lost wake-up, slots returned, limit, streams end |
| Tenant registry (`control/tenancy.py`), deletion (`orgs.py`) | LRU of runners, locks, use counts, the directory | get, aget, mark_in_use, evict, lock, forget, delete_org | threads and tasks share it; a deletion waits for nobody | a runner in use is not closed, the registry is bounded, a deleted organization leaves nothing |
| Retention (`retention.py`) | uploads, run records, files, DuckDB rows | purge_org, loop | two databases and a disk without a common transaction | an upload of a queued job is kept, expired data goes, marks are true |
| Report reads (`runs.py`, `app/api/routes.py`, `reporting/generator.py`) | `runs`, `run_records`, files | write, report, status, details, evidence | three reads without a lock beside a purge | a recorded report is served whole, `expired` only when purged |
| Uploads (`uploads.py`, `upload_guard.py`, `xlsx_import.py`) | temporary and final files, rows, usage | check, stream, convert, move, commit | rename before commit, threads that hold the file, one quota read | a refused upload leaves nothing, the quota is passed by a known amount |
| OAuth server (`control/oauth.py`) | clients, codes, grants, tokens | authorize, exchange, rotate, revoke, purge | what a handler loaded is used in a later transaction | a code is sold once, one live pair, reuse revokes for good |
| Members (`members.py`, `service.py`, `api_keys.py`) | memberships, invitations, keys | invite, accept, change role, remove, operator commands | roles are read before the guarded statement | an organization keeps an owner, keys are bounded |
| Sign-in (`auth.py`) | links, sessions, account | request, open, confirm, consume | two verifications of one link, a failure after the consumption | one session per link |
| Reminders (`schedule.py`) | one schedule row per organization | put, tick, claim, mail | claim against edit and restart, several loops | a slot is sent at most as often as it was armed |
| Webhooks, chat, mail (`webhooks.py`, `notifications.py`) | hooks, deliveries in memory, audit | create, delete, deliver with retries, ping | hooks change while deliveries wait; a stop ends all | accepted once, attempts bounded, audit true |
| Restore tools (`restore.py`, `restore_reconcile.py`) | the restored database and the one it replaced | quarantine, reconcile | rows depend on rows that are in one of the two only | nothing revoked comes back, a second run finds nothing |
| `migrate-runtime` (`migrate_runtime.py`) | old and new directories, both databases | move, rewrite paths, register runs | breaks off anywhere and is called again | nothing is lost or overwritten |
| Rate limiter (`core/ratelimit.py`) | buckets | hit, prune | the clock is read before the lock | dropping buckets gives no requests, the table is bounded |
| MCP server (`mcp_server/`) and the API's door (`deps.py`) | credentials, jobs | authenticate, scope, start_run, reads | look and insert apart; a credential withdrawn under way | served within rights, jobs of one upload bounded |
| Policy (`core/policy.py`) | budget, prints, audit | enforce | order of its checks, boundaries of its budgets | nothing runs that policy forbids, one line per call |
| Client's file (`sources/csv_mapper.py`, `ecommerce_transform.py`) | `ecommerce_orders` | map, check, deduplicate, cut to the period, sum | order of mapping, duplicates and period | reports on consecutive periods add up |
| Evidence (`uksc_*`, `duckdb_client.py`) | `runs`, `uksc_hosts`, `uksc_checks` | store, look up, compare | the row of a run precedes its result | no successful run is skipped |
| Data health (`data_health.py`) | reads only | weeks, streak, status | weeks over a change of the clock | an upload is counted in exactly one week |
| Settings, redaction, other CLI commands, cockpit, deployment | none of the control state | | | not modelled (section 6) |

They interact through the control database and a few objects of the process:
`queue_job` inserts a row and calls `executor.submit`; the executor holds the
organization's lock of the registry, which retention takes too; it publishes on
`JobBus`, which wakes the streams, and hands `run.finished` to the webhook
dispatcher and the notifier. `delete_org` and retention remove rows and files
beside all of them. A shutdown stops the scheduler, the executor, the
dispatcher, the notifier and the registry, in this order.

## 2. Modules

| Module | Models |
|---|---|
| `JobLifecycle` | The promise of the job tables: one action per committed transaction that changes a job's status. Abstract specification `RowsSpec`. |
| `JobExecutor` | The executor, await by await. `status`, `recorded`, `usage` are the tables; `pc` is where a job's task stands; `holder`, `permits` are the lock and the semaphore; `threads` the runs in worker threads; `inflight` the scheduled progress coroutines; `phase` the process. |
| `JobAdmission` | The checks before a job, with the executor's effect on the rows as environment (`JobLifecycle` actions). |
| `JobStream` | The event streams of one job: `row` is the job's row, `unpublished` counts commits whose `publish` is to come, `pc`, `last`, `event` are the generator's place, what it sent and its event; `held`, `count`, `bg`, `left` the slot, the counter and the background task. `DeleteRow` is the cascade of `delete_org`, in any status of the job and without a publish. |
| `Retention` | What an organization keeps and the purge pass. `file`, `row` are an upload on disk and in the control database; `asked` is the upload a `queue_job` has found and not yet used; `stage`, `data`, `runs`, `report`, `latest`, `record` follow the run of a job from the tenant's data tables over the report files and the `runs` row to the RunRecord; `expired`, `age` are `retention_until` and the two cutoffs as flags; `pass`, `due`, `old`, `targets`, `todo`, `stuck` are `purge_org` and its local variables; `holder` is the organization's lock. |
| `GrantPromise` | What the authorization server promises of a grant: one chain of refresh tokens, each exchanged at most once, that never starts again. Abstract specification `PromiseSpec`. |
| `OAuthGrants` | Codes, grants and pairs of tokens as rows; a handler keeps what it loaded in one transaction and uses it in the next. `refresh`, `access`, `age` are a pair, `of` its grant. |
| `Members` | Roles, invitations, keys and the deletion of one organization, which was founded with an owner or is the default one without; callers are members and keys. `request` is what a request has read of the rows it will write, `keys` the active keys by who made them, where all that keys have made count as one maker. |
| `SignIn` | Links, the account, sessions; `visit` is a verification between its statements. |
| `RestoreReconcile` | Two snapshots, `cur` and `pre`, of people, roles and rows, of which OAuth's three levels depend on each other; `Planned` is the plan, `Reconcile` applies it. |
| `TenantRegistry` | The LRU of runners, use counts, the directory, jobs and purges that use a runner, the deletion. |
| `Reminder` | The schedule's row, senders (loops, and what a stop leaves of one) and PUTs with the `now` they began with. |
| `WebhookDelivery` | Hooks, the announcement of a run and of a ping, each delivery from its start over its attempts to its audit line; restarts with another key or in maintenance. |
| `ClientFile` | The report on an order file: what is kept of its lines, `Figures` and the steps of a run. Money is an integer, a sum the units that orders bring less those that corrections take. |
| `UkscHistory` | Packages, the rows they leave, the baseline and the difference. |
| `ReportReads` | Writer, purge and readers of a report, in their steps. |
| `DataHealth` | The dashboard, one SELECT after the other, while runs end and uploads expire: `place` is where a row stands, `seen` what each statement returned, `board` the answer. A job is dated by `finished_at`, its report by `RunRecord.created_at`. |
| `RuntimeMigration` | The moves in their order, with torn copies and repeated calls. |
| `Platform` | The twelve modules from `OAuthGrants` on; `part` says which one moves. |
| `UploadIntake` | A request with a file, from its checks to its answer; threads that keep a temporary file; the sweep of old temporary files, which may take that of a stalled request; crashes. |
| `McpCalls` | A call from its credential over the scope to its tool; `waiting`, `atWork` are the jobs of one upload, `withdrawn` the credentials that were revoked. The queue is counted (`CountQueue`) and the job inserted (`SubmitCall`) in steps of their own. |
| `RateLimiter` | Buckets, clocks that lag, pruning; `unpruned` is the table that never drops an idle bucket. |
| `PolicyGate` | `enforce`, step by step of its order, with the budget of one agent. |
| `Doors` | `JobAdmission` and the four modules above; `door` says which one moves. |
| `MC*` | Instances for TLC. |
| `JobExecutorProofs` | Theorems about `JobLifecycle` and `JobExecutor`. |
| `DoorProofs` | Theorems about the five modules of `Doors`, and about `Doors`. |
| `JobStreamProofs`, `RetentionProofs` | Theorems about the module of that name. |
| `AccessProofs` | Theorems about `SignIn`, `Members`, `RestoreReconcile`, `OAuthGrants`. |
| `TellingProofs` | Theorems about `Reminder`, `WebhookDelivery`, `TenantRegistry`. |
| `RecordProofs` | Theorems about `ReportReads`, `RuntimeMigration`, `UkscHistory`, `ClientFile`, `DataHealth`. |
| `PlatformProofs` | The next slot of a reminder, and theorems about `Platform`. |

`JobExecutor` and `JobAdmission` extend `JobLifecycle`; `JobExecutor` implements
it (`RowsSpec` is a property of its run and the theorem
`ExecutorImplementsLifecycle`), which is why `JobAdmission` may use its actions
as environment. `Retention` stands beside them: it keeps of a job only what the
files and rows depend on (queued, running, ended, `upload_id`) and adds the
order of the writes of a run, which `JobExecutor` sees as one thread. It is the
place where the four stores meet: control database, DuckDB, `uploads/` and
`reports/` have no common transaction, so every one of its actions is one
statement that commits or one file that is written or unlinked.

`Platform` and `Doors` compose modules that write disjoint rows and share no
memory. A step of one commutes with every step of another and no property
speaks of two, so nothing is lost by letting one move in each part of the state
space; what the composition gives is one instance, one type invariant and one
run for them. The theorems `DoorsKeepPromises` and `PlatformKeepsPromises` carry
what is proved of each module over to the compositions. The composition of
components that do interact is inside the modules: executor, locks and handlers in `JobExecutor`, runs, uploads and the
purge in `Retention`, runs, the purge and readers in `ReportReads`, runs, the
registry and the deletion in `TenantRegistry`.

A definition whose comment starts with "Variant:" or "A slip of" is the one it
names with a plausible mistake (a dropped condition, a missing reset). No
specification uses it; put in place of the right definition it makes a property
fail, which shows that the property depends on that line of the code.

## 3. Runs

| Run | Instance | Shows |
|---|---|---|
| `executor` | 2 organizations, 3 jobs (two of one organization), 2 permits, progress marks {10, 90}, 1 stop or crash | The guarantees of `executor.py:3-10` under every interleaving, and the refinement of `JobLifecycle`. |
| `executor_liveness` | same jobs, 1 permit, no progress | Permits are conserved; every queued job ends in spite of a stop or a crash. |
| `doors` | 4 jobs, 2 requests at once, queue limit 2; 3 uploads of four kinds, 2 at once, quota 2; 2 calls and 3 places; 3 callers, 2 buckets, lag 1; 3 steps of an agent | The queue limit is passed by the requests counted side by side at most; a refused upload leaves nothing and the quota is passed by a known amount; calls are served within their rights; a dropped bucket gives less than a request more (or what two clock lags bring); nothing runs that policy forbids. |
| `admission_queue` | queue limit 1, 2 requests at once | Violated: the documented queue limit. |
| `admission_plan` | plan limit 1, 1 request at a time | Violated: the plan limit, because the two reads are not one snapshot. |
| `stream` | 2 streams of one principal, limit 2 | No missed wake-up, slots returned, streams end. |
| `stream_limit` | 4 streams of one principal, limit 2 | Violated: a release in a worker thread loses an increment of the counter. |
| `retention` | 1 upload, 2 jobs on it, 1 failure or restart | Nothing goes before it is due or while it is read, what is marked as purged is gone, whatever breaks off is found again, everything due goes in the end. |
| `retention_queued` | 1 upload, 1 job, no failure | Violated: an upload that a queued job reads is kept. |
| `retention_latest` | 1 upload, 1 job, no failure | Violated: reports are removed after `retention_days`. |
| `platform` | see the head of `MCPlatform.cfg` | The properties of the twelve modules, and that `OAuthGrants` implements `GrantPromise`. |
| `registry_delete` | 3 organizations, one of them deleted, 1 runner, 1 run | Violated: a deleted organization leaves no directory. |

`platform` has about 737 000 distinct states, `doors` 844 000 and `stream`
322 000; the first two take a minute or two, the last half a minute.

Several properties have named parts: `AnnouncedTruly` is `CancelledNeverRuns`
and `NotifiedAtMostOnce`; `NoMissedWakeup` is `NoLostWakeup` and
`ShutdownWakes`; `NothingTakenEarly` is `SourceStays` and `KeptUntilDue`;
`NothingOutOfReach` is `PurgedMeansGone` and `Reachable`; `DueGoes` is
`DueUploadGoes` and `DueRunGoes`; `CondemnedForGood` is `RevokedForGood` and
`ReuseIsRemembered`; `RunnersKept` says `RegistryBounded` of the states and
`UsedRunnerStays` of the steps. `RowsSpec` implies `UsageCountsSuccesses`,
`RecordsMatchStatus` and `TerminalIsFinal` by theorem, so the runs check
`RowsSpec` only.

Bounds and why they are enough. Two jobs of one organization and one of another
are what the lock can confuse; with two permits the semaphore admits both
organizations, with one permit they compete. `MaxRestarts = 1` gives a stop or
a crash at any point with a full recovery after it; a second one starts from
the same kind of state, because nothing of the process survives. Two progress
marks can be reordered. `MaxInFlight` names how many requests of an
organization are handled at once; one billing month is modelled, so `usage`
never restarts. In `JobStream` the progress of the row takes one value in the
runs: the status alone makes all the changes a stream must not miss, and the
row may be deleted in each of them. Symmetry
is used for jobs of one organization, for streams of one principal and for
requests, uploads and calls side by side, in runs without liveness only. In
`Retention` two jobs on one upload give the purge a busy and a finished reader
at once, and two runs of which one may be stuck; the uploads do not interact
with each other, so one is enough. One fault gives every break-off point of a
run, an upload and a pass with full passes after it; the second of two faults
meets a state that `Reachable` already describes, and the theorem holds for any
number. All runs are of one pipeline, so there is one `latest`. Times are
flags: an upload expires at least a day after it was stored (`uploads.py:223`),
and no run lasts as long as the retention of its organization, which is the one
relation between clocks that the model assumes.

In `Platform` and `Doors`, two overlapping requests are what a stale read
needs, and the theorems of section 4 remove the bound where they exist. Three
pairs are a first one, its successor and one more that reuse could revive. Two
users with two owners' requests can remove each other; a member and the key
of the deployment can pass a limit of one key. A stalled upload is swept by the
request beside it. Three organizations, a
limit of one runner and one run force an eviction beside a run, a read and a
deletion. Files of two lines meet as duplicate, correction and refund on two
of three days, with either end of the period open. Three packages give a
baseline, a failed run after it and the run that compares. Time zones are two
that go forward and two that go back, at the start of a week and beside it; at
most two events meet between the statements of one dashboard, and a report is
made in the hour of its job's end or in the one before, in another week.
Deadlock is not checked, since all these systems may come to rest (all jobs
finished, all streams over, all bounds used up).

Fairness. `JobExecutor`: weak fairness of start, exit, submit and of every step
of a task (the event loop runs what is ready, threads return, compose restarts
the container, `deploy/compose.yml:24`), strong fairness of the two
acquisitions, because `asyncio.Lock` and `asyncio.Semaphore` serve waiters in
FIFO order. Nobody is obliged to end a maintenance, and a task that died in its
last `_finish` leaves its job to the next restart: both are exceptions that
`QueuedJobEnds` names. `JobStream`: weak fairness of the generators and of the
background tasks; none of `Publish`, because a handler may fail between commit
and publish, so `StreamEnds` rests on the fallback poll; the client is assumed
to read what it is sent. `Retention`: weak fairness of `StartPurge`, because
`retention_loop` repeats for ever, and of the steps of a pass and of a run;
strong fairness of the two takers of the lock, which is a FIFO `asyncio.Lock`.
Nobody is obliged to upload, to queue, to cancel or to age, and failures are
bounded by `MaxFaults`: what is due goes "once failures cease" (`DueGoes`). The
modules of `Platform` and `Doors` state safety only and assume no fairness:
reminders and deliveries are promised at most once and may be lost at a stop
(`docs/ARCHITECTURE.md:76`).

### Disagreements

The six violated runs are disagreements between the code and its documents;
`PROJECT.json` quotes them under "findings".

- `admission_queue`, `admission_plan`: limits that are counted in one statement
  and used in a later one.
- `stream_limit`: a counter changed by a worker thread and by the event loop.
- `retention_queued`: `queue_job` neither takes the organization's lock nor looks
  at `retention_until`; between the choice of the idle uploads
  (`retention.py:140`) and the unlink of their files a job is accepted that then
  ends as SOURCE_UNAVAILABLE. `SourceStays` shows that a job which has begun to
  read is safe.
- `retention_latest`: `ReportGenerator.write` copies the report to
  `<pipeline>_latest.*`, which no row names and no purge removes.
- `registry_delete`: a job queued and claimed between `delete_org`'s count and
  its commit makes the directory again after `shutil.rmtree`.

### Observed while modelling

These are states or exceptions of the models, or cases that a model leaves out
in so many words; no run is spent on them. The properties are stated so that
they are true of the code as it is.

Jobs and stored data:

- What a request or a run has written when the process dies before it is named
  (the file of an upload before its row, `ingest = "lost"`; data rows and
  report files before `upsert_run`, `stage = "cut"`) stays for ever: no purge
  finds it. Between the two cutoffs, `runs.started_at` and the later
  `RunRecord.created_at`, the files of a run are gone while `report_purged_at`
  is NULL; `DueRunGoes` says that this ends, `ReadsTellTheTruth` what is
  answered meanwhile.
- A purge between the reading of the record and of the file makes
  `read_report_file` answer 404, or raise `FileNotFoundError`, instead of 410;
  evidence after the retention is 200 with an empty list. A selfhost report is
  404 after the runtime directory has moved, although `/api/v1` finds the file
  by its name.
- The rows of a package from a run that failed or was cut off stay and are the
  baseline of the next one. `ComparedWithTheLast` says what is left of
  "the previous run of the same station": no successful run is skipped.
- `docs/ARCHITECTURE.md:60` says that an organization with a run in progress is
  never closed; between `aget` and `mark_in_use` its runner may be evicted, and
  runners in use let `DAAS_MAX_ACTIVE_TENANTS` be passed. `RegistryBounded` has
  the true bound, the larger of the limit and one more than the runs.
- A crash between the commit of a deletion and `rmtree` leaves the directory.
- A job that is queued or claimed between `delete_org`'s count and its commit goes
  by cascade without a publish. A stream of it may sleep over that
  (`NoLostWakeup` names it as the one exception) and finds out at its next poll.
- The statements of the dashboard are no snapshot: a run that ends between them is
  a report and no success, and at a Monday's midnight the report of a run may
  stand in the week before its job. `WeeksTellTheTruth` has the true brackets.
- `docs/API.md:470` says of `stale_upload` "no upload for 7 days or more";
  `build_issues` tells it, too, when the month has upload bytes and no row of an
  upload is left, which a retention of less than a week brings about in fewer
  days. `WeeksTellTheTruth` speaks of the uploads whose rows were there.
- `POST /run` of the selfhost mode takes neither lock nor semaphore: two runs of
  one pipeline may be each other's baseline, or leave `<pipeline>_latest.*` of
  different runs.

Files:

- `_sniff_separator` decodes the first 65 536 bytes strictly: a longer UTF-8
  file with a character across that boundary is read as CP1250 or refused. This
  is the exception `cut` of `ReadAsChecked`.
- In `ingest_upload` a failing `db.refresh` after the commit removes the file
  of a committed row, and the bytes stay charged.
- The quota is read once before the body is received, and a workbook may grow
  when it is converted; `QuotaExcessBounded` has both.
- `docs/SECURITY.md:42` says that temporary files are removed on failure and at
  start; in cloud mode only the next upload of the organization removes those
  older than 15 minutes. It goes by the time of the last write alone, so it also
  removes the file of a request that has sent nothing for that long; that request
  is refused when its body has come.
- Lines of a client's file without a number in a file that has numbers all get
  the number "nan" and are one order.
- `migrate_runtime` puts the old `.wal` beside a database that already stood in
  the target.

Access:

- An invitation that was left pending by a race of invitation and acceptance
  re-admits a removed member. A `create_key` under way may insert a key after
  `remove_member` has revoked those of its creator. A grant survives the
  removal of its user and serves again when he is back, unless a refresh was
  tried meanwhile.
- A refresh token that expires between its judgement and its rotation is
  rotated; this is why expiry does not spend a token in the refinement.
- The MCP gate authenticates before the body has come: a credential revoked
  meanwhile still acts once. `start_run`'s look for a pending job, its check of
  the plan and its insert are separate, so calls side by side make several jobs
  of one upload, against `reused` in `docs/MCP.md`. `ServedWithinRights` speaks
  of the credential when the call came: what was let in before a withdrawal is
  still served.
- The default organization has no owner and gets none, since only owners offer
  ownership; `OwnerRemains` says both. A key that holds `keys:manage` makes keys
  whose maker is the key: removing the member who made the first one revokes that
  one and not those made with it.
- `deps.py:118-123` writes `auth_denied` before `_unauthorized` throttles, so
  attempts beyond the budget do reach the audit log, against the docstring of
  `throttle_auth_failure`.
- A rate-limit bucket that is dropped and made again while a request waits for
  the lock may give as much as comes back in two waits, or a part of a request;
  otherwise `ratelimit.py:9-10` holds.
- `policy.enforce` writes "allow" for a call whose `approve` or tool raised.

Reminders and webhooks:

- Two overlapping `PUT /schedule` write only the columns that each has changed,
  so that the row may mix both, against `docs/API.md:340`; a PUT over a tick may
  arm a slot that was already sent. `RemindedOnce` counts how often a slot was
  armed.
- The limit of webhooks is counted and then used in two statements, and two
  equal URLs are refused by the constraint only.

## 4. Proofs

Every invariant and action property that a passing run checks is also a theorem,
and so are the refinements `RowsSpec` and `GrantPromiseKept`: what a run shows of
a small instance holds for any finite set of jobs, any assignment to
organizations, any number of permits, restarts, streams, keys, grants, pairs,
requests, uploads, calls, hooks, runs, lines, days and weeks. The proofs assume
the named ASSUMEs of the modules only, which TLC evaluates in the runs:
constants are numbers where they are counted, sets of actors are finite where
they are counted, values that mean "none" are not in the sets they extend. Two
say more. `ClientFileAssumption` gives the cells of a file the types that the
parsers return. `HealthAssumption` excludes a time zone that skips an hour with
a midnight of Monday in its middle; none of the tz database has since 1970, and
there the end of the gap, which `local_midnight` answers, is later than events
that `week_of` puts into the week.

- `JobExecutorProofs`. The invariants are not inductive by themselves: that a
  cancelled job never runs needs to know that a task past its claim has a
  running row, which needs that no other task or thread of the process can
  touch that row, which needs the lock. `IInv` collects this: who holds a lock
  is inside it (`LockHeldByTask`), tasks exist only in a serving process
  (`TasksOnlyWhenUp`), threads belong to waiting tasks or to a stopped process
  (`ThreadsOwned`), and what a task's place says of its row (`RowOfTask`),
  together with the conservation of permits (`RunsBounded`). `TaskInv` is
  proved action by action in groups (process, handlers, inside the locks, lock
  taken, locks left, completion, threads); the permits are counted separately,
  because they need cardinalities. The usage counter of `JobLifecycle` is the
  cardinality of the succeeded jobs; each step adds at most one. `IInv` and a
  step imply a `RowsNext` step or a stutter (`StepImplements`), so what is
  proved of `JobLifecycle` carries over to the executor.
- `DoorProofs`. A request that has passed the queue check is counted as the row
  it will insert, and so is a call of `start_run` (`CountedInv`: the waiting jobs
  and the calls about to insert are together at most the limit and the other
  calls). For the calls of agents, what a call has established when it
  stands at a place (its credential was in force, its door reads it, it has the
  scope) is carried to its answer; and the jobs of agents together with the
  calls that have looked and not yet inserted never exceed the calls at once
  (`LookInv`). Uploads: sizes are added by counting their units, so that the
  laws of a sum (`TotalOfOne`, `TotalOfSums`) follow from cardinalities; a
  request that receives, or whose file was swept and is made again, counts with
  all that it may still take (`Taken`), and
  `FileSoFar` says what is on disk and in the table where a request stands. The
  limiter: two times reach the lock in the wrong order by at most `MaxLag`, so
  a bucket is compared with the one that is never dropped at `moment - MaxLag`;
  from there both fill alike. The gate: the last three marks are kept, so a
  third call in a row finds the two before it.
- `JobStreamProofs`. `ReadIsCurrent` carries the fact from the read to the wait:
  without a signal and with everything published, what was read is the row, or
  was until it was deleted (`HasSent`).
- `RetentionProofs`. That a marked run is gone, or that a pass never takes the
  source of a run, depends on where the pass stands, so `RetentionInv` adds four
  parts: `LockHeld` (a run or a pass that works has the lock, so never both),
  `UploadShape` and `RunShape` (what each stage of an upload and of a run leaves
  in the four stores) and `PassPlan` (what the local variables of the pass still
  say about the stores: what it chose is due, what it has unlinked is gone, what
  is stuck still has its rows). Each action is treated in the group it belongs
  to (upload, request, run, pass); the four safety properties follow at once.
- `AccessProofs`. Sign-in: a verification that has consumed a link is alone
  with it, because the conditional UPDATE changed its row (`ConsumedAlone`).
  Members: the guarded statements leave another owner, which needs that two
  owners have a subset with a cardinality above one; the rows of the active
  keys, whoever made them, are counted together with the requests that have
  counted them. Restore:
  rows that are on after `--apply` were on in both databases at every level they
  depend on, nobody ranks above what he had, and the plan is idempotent on its
  own result; the proof needs of the snapshots only that a retained organization
  has an owner. Grants: that two pairs are never live needs all that a handler
  may still do with what it loaded. `GrantInv` says that pairs are issued in
  order (`IssuedInOrder`), that a grant has at most one live pair and what its
  row and its place in the chain say of each pair (`TokenInv`), that the guard
  statement lets at most one handler of a grant rotate, which then holds its
  only live token (`OneRotation`), and that a code is sold to one grant
  (`SoldOnce`). The refinement of `GrantPromise` follows from it step by step.
- `TellingProofs`. Reminders: what was mailed, the senders that hold a claimed
  slot and the row that still waits for it are together at most what was armed
  (`SlotsAddUp`). Deliveries: the place of a delivery says how often it was
  tried and whether it was accepted (`SoundDelivery`), and what has not been
  announced has no delivery (`NotYetTold`). The registry: a counter is up only
  while a job is marked, so at most as many runners are in use as jobs are at
  work, and an eviction takes the others first (`RunnerInv`); that a runner in
  use stays is an action property of that invariant.
- `RecordProofs`. Reads: what a reader knows where it stands is still true, or
  the run is due by now (`ReadSoFar`), given what the writer has made of each
  run (`RunSoFar`). The move: a torn copy has its original, what was taken is in
  its target, and what the cursor has passed is moved or a conflict
  (`MigrationInv`). Evidence: the runs of an organization and their times go
  one after another, so the latest row that began before is no earlier than
  the last success (`EvidenceInv`). The file: duplicates are dropped before the
  cut, so the kept orders of a period are the disjoint union of those of its
  halves, and sums and counts of a disjoint union add (`PeriodSplits`,
  `TotalsAdd`). The dashboard: an instant is past `local_midnight` of a week
  exactly if its local week is that one or a later one (`WeeksAreLocal`), by
  the bounds of a quotient (`WeekBounds`); and what a statement has returned lies
  between its selection of what stayed and of what was ever there, so the figures
  do too.
- `PlatformProofs`. `NextSlotIsFirst`: the slot that `compute_next_reminder`
  returns exists, is the first after its `now` and at most a week away. Then
  each step of `Platform` is one step of one part, so its behaviours are
  behaviours of all twelve specifications (`AccessApart`, `ServicesApart`,
  `RecordsApart`), which gives `PlatformTypesHold` and `PlatformKeepsPromises`.

Least and greatest elements of sets of numbers (`LeastNumber`,
`GreatestNumber`) come from the well-founded order of the naturals, not from
induction over a formula. Sums are defined as cardinalities for the same reason.

What the proofs have changed: the excess of a dropped bucket was first stated as
twice the clock lag, which is false where the price of a request is larger (once
the two buckets differ at all, one may pay for a request that the other refuses,
and the other for the next); `Slack` covers both. The zone assumption above was found by a proof that failed,
as were the types of cells; and the count of sessions in `SignInTypeOK` had been
bounded by a set that need not be finite.

Only model-checked: `QueuedJobEnds`, `StreamEnds` and `DueGoes`. They are
liveness under fairness, and TLAPS treats neither fairness nor ENABLED.

## 5. Plan

What is left is liveness, which stays with TLC; its safety part could still be
made explicit (a variant that each fair step decreases). The other direction is
breadth: the purge of the CLI without the server's lock, the change of the
billing month, and `POST /run` of the selfhost mode.

## 6. Not modelled

- Narrative, charts, the layout of reports and the legacy sources: data and
  presentation in one thread. The models keep the progress of a run, its
  outcome, its exceptions and the order in which it writes.
- The purge of the CLI, which runs in a process of its own without the lock of
  the server, `dry_run` and the verify route.
- The change of the billing month and the request validation in front of the
  admission, which only refuses.
- In `McpCalls`: other organizations' credentials, `upload_bytes` and prompts;
  in `OAuthGrants`: scopes, PKCE and redirect URIs, which compare a request with
  stored values; in `SignIn`: cookies and CSRF headers; in `PolicyGate`: the
  cost limit, since `enforce` charges no cost; in `UploadIntake`: the bytes of
  archives and spreadsheets, of which the findings of the checks are kept.
- ULIDs, which are random apart from the clock; metrics and the audit log,
  which append what other code has done; schema migrations; settings, start-up
  checks and redaction, which are functions without state.
- `POST /run` of the selfhost mode without lock or queue (see above).
- The web cockpit, the deployment scripts, the tools and the n8n workflows.
