# Verification of the merge queue bot

This directory models the backend of the merge-queue bot
(`src/backend/src/gitlab_queue`, Python/asyncio) in TLA+. The bot watches a
GitLab project: a merge request that gets a trigger label (queue label or hotfix
label) is put into a queue, rebased, tested and merged one at a time. Users,
webhooks, a poller and the processing loop act on the same row of the database
concurrently, and GitLab calls fail, time out or lose their answers.

The models follow one merge request, from three sides: how a lifecycle is
**worked through** (`Processing`, and `PipelineWait` for the rebase, the pipeline
and the merge), how it **ends** and possibly **begins again** (`QueueCompletion`,
`AdmissionDelivery`), and how **webhooks that failed** come again (`RetryQueue`).
`MergeRequestLifecycle` states what the queue promises about the merge request,
and the first two are shown to keep it. Paths below are relative to
`src/backend/src/gitlab_queue`.

## Inventory

| Part | State it keeps | Operations | Hard because |
|---|---|---|---|
| Event order (`models/event_order.py`) | none | `definitely_before`, `compare_event`, `preserve_uncertainty` | timestamps are truncated, so they only order changes partially |
| Requeue request (`core/queue.py` `_write_requeue`) | column `requeue_request` | `defer_requeue`, `cancel_requeue`, `_merge_requeue`, acknowledge | webhooks come late, twice, in any order, while the row changes owners |
| Completion (`core/queue_completion.py`, `prepare_completion` … `finalize_completion`) | column `pending_completion`, comment and labels in GitLab, history | freeze, comment, clean up, reread, restore, archive, transfer, recover | several awaits on GitLab between two transactions; interruptions anywhere; its own label changes come back as webhooks |
| Merge request webhooks (`webhooks/handlers.py`) | per-request task | labeled, unlabeled, merge, close, update | check-then-act over awaits; several handlers at once |
| Scheduler sync (`core/scheduler.py`, `core/polling.py`) | none durable | list, compare, add, remove, refresh, recover completions | works from a list that is old by the time it is used |
| State machine (`core/state_machine.py`) | status of the row | transitions, `on_enter_*` callbacks | rebuilt per task from the row, so two instances may both transition |
| Processor (`core/processor.py`) | attempts, status | next row, rebase/test/merge, fail, startup recovery | errors and timeouts between status and GitLab; a restart in the middle |
| Rebase, pipeline wait (`core/rebase_*.py`, `core/pipeline_handler.py`) | expected commit, pipeline id, job retries | rebase and verify, wait, retry jobs, replace pipelines | the commit or the pipeline changes while it is waited for |
| Retry queue and dead letters (`webhooks/retry_*.py`) | tables of stored webhooks | add, dispatch, back off, move, retry from dead letters | dispatch is at least once by several workers |
| Queue cache (`core/queue.py` `QueueCache`) | cached list, version | invalidate, refresh | slow refresh against a newer write |
| Metadata, notifications (`core/queue_metadata.py`, `core/queue_position_notifier.py`) | revision, pending notification | refresh, acknowledge | optimistic checks against snapshots |
| Circuit breaker, retries (`utils/circuit_breaker.py`, `utils/retry.py`) | state, counters | before/after a call | results of old calls |
| Router, client, notifier, database, shutdown, API, auth, analytics, start-up, dashboard | — | — | plumbing, see *Not modelled* |

How they interact: the router hands a webhook to a handler task; handlers, the
sync and the processor change the row through `QueueManager`, each in its own
transactions, and reach GitLab through the client. A terminal transition of the
state machine, the merge webhook and recovery all end in `QueueCompletion`,
which is serialised per merge request by `completion_lock`. Handlers take
`admission_lock` while they look at a row and write its request;
`finalize_completion` takes it too. Nothing else is serialised: processor,
handlers and sync interleave at every await. Failed webhooks go to the retry
queue and come again.

What makes each part correct:

- event order: a reported order is the real one; merging clocks loses no instant;
- requeue request: its verdict (wanted or cancelled) depends on the order of the
  users' changes as far as it can be known, not on the order of delivery;
- completion: one outcome per lifecycle, every step of it done before the row
  leaves, every user's wish that arrives meanwhile carried over exactly once,
  no confusion of the bot's own label changes with a user's, and an end to it;
- handlers and sync: they never take a row from the completion that owns it;
- processor, rebase, pipelines: a merged commit is one whose pipeline succeeded;
  a restart loses no row; attempts are bounded;
- retry queue: every stored webhook is handled or ends among the dead letters;
- cache, metadata, notifications: newer state is never overwritten by older.

The hazards this list is drawn from are in `PROJECT.json`, each at its line.

## Modules

| Module | Models |
|---|---|
| `EventOrder` | the three functions of `models/event_order.py` on clocks `[at, width]` |
| `Admission` | a requeue request and `_write_requeue` on it, as operators (no state); EXTENDS `EventOrder` |
| `AdmissionDelivery` | one request under late, repeated, reordered webhooks of one user; EXTENDS `Admission` |
| `QueueCompletion` | one merge request with everybody who ends, owns or renews its row; EXTENDS `Admission` |
| `MCQueueCompletion` | `QueueCompletion` for TLC (symmetry of the handlers) |
| `MergeRequestLifecycle` | abstract: lifecycles of a merge request, one after the other, each with at most one outcome, told before it makes room |
| `Processing` | one merge request with the processor, its state machine, error handling, startup recovery, handlers and the sync |
| `PipelineWait` | one lifecycle from the rebase to the merge, commit by commit and pipeline by pipeline |
| `RetryQueue` | stored webhooks, dead letters, retry processors and operators |
| `AdmissionDeliveryProofs`, `QueueCompletionProofs`, `RequeueProofs`, `QueueCompletionRefinement`, `ProcessingProofs`, `PipelineWaitProofs`, `JobRetriesProofs`, `RetryQueueProofs` | the theorems |

The modules divide the system, and each leaves open what another one models:
`Processing` lets an outcome be told and archived in single steps (`Tell`,
`Archive`), whose awaits are `QueueCompletion`'s subject; `QueueCompletion` has one
"active" state and one `Decide`, whose detail is `Processing`'s; `Processing` has
one step `WaitForPipeline` with every result, which `PipelineWait` opens up;
and every handler of theirs may be called again at any time, which is what
`RetryQueue` does with it. Both `QueueCompletion` and `Processing` implement
`MergeRequestLifecycle` (`ImplementsLifecycle`), so what they say of a lifecycle's
beginning, outcome and end is about the same thing.

### `QueueCompletion` and the code

State: `row`, `history`, `nextId` are the database; `label`, `mrOpen`,
`updatedAt`, `sent`, `comments` are GitLab (`sent` keeps every webhook ever
emitted: any may arrive, late and again); `requests`, `fin`, `hooks`, `sync` are
tasks, lost in a crash. `fin` is the holder of the completion lock together with
its local copies of payload and request, `requests` those who wait for the lock.
`now` is a logical clock that ticks with every change in GitLab and every
decision, and a webhook's timestamp is that tick truncated to a multiple of
`Prec`. A label change remembers who made it: a user, the bot's completion or a
handler of the bot (`by`); the bot itself only sees the account (`ByBot`).

| Actions | Code |
|---|---|
| `UserToggles` | a user adds or removes the trigger label |
| `Decide` | `on_enter_merged`, `on_enter_failed` of the processor's state machine; for "merged" it has merged the merge request before |
| `Prepare` | `prepare_completion` under the completion lock (its compare-and-set loop is one atomic step) |
| `Recover` | `recover`, called from `recover_all` by the sync, from handlers, and after a restart |
| `PostComment`, `SaveComment` | `_deliver_comment`: POST, then save |
| `BeginMutation`, `PutLabel`, `SaveMutation` | `_mutate_labels` (operation saved, PUT, bookkeeping in memory) and `_record_label_event`, for the clean-up and for the request |
| `Reread`, `Finalize` | the rest of `_finish` and `finalize_completion` |
| `FinisherFails` | any await of the completion raises |
| `Receive`, `WriteIntent` | `_resume_completion` with its filters, and the write of the request, both under the admission lock |
| `HandleAdd`, `RefreshMetadata`, `StaleEnqueue`, `FetchMergeRequest`, `AddFetched` | `_handle_labeled` / `_handle_update` |
| `HandleRemove`, `CompleteDirectly`, `RemoveQueueLabel` | `_handle_unlabeled` with its fallback |
| `HandleMerge` | `_handle_merge` |
| `HookFails` | a GitLab call of a handler fails; the webhook may be delivered again |
| `SyncList` … `SyncFails` | `_do_sync` of the scheduler |
| `Crash` | the process stops; the database and GitLab remain |

Abstractions: the four active statuses are one ("active"); queue label and
hotfix label are one label; titles, branches, label snapshots and positions are
dropped; an operation on the labels is named by its kind, which is what the
event filters compare; a row's comment is the set of lifecycles that have one.
Handlers release the admission lock between `Receive` and `WriteIntent` only
through `WriteIntent` itself, so the lock is the step `"write"`. Close events,
the priority of hotfixes and the refresh of metadata are left out.

### `Processing` and the code

State: `row` and `nextId` are the database, `told` the lifecycles whose
outcome was posted, `mr` and `happened` GitLab (any event that happened may be
delivered, late and again), `proc` the processor's task with its state machine,
`hooks` the handlers' tasks. A machine changes its own state first and writes
the row afterwards; the row is found by the merge request's iid, so the write
may meet a successor. `proc.id` is the machine's `queue_id`.

| Actions | Code |
|---|---|
| `Start`, `RecoverySnapshot`, `RecoveryAsks`, `RecoverySkips`, `RecoverySettles` | `MergeProcessor.run` up to its loop: `_recover_interrupted_state` row by row, with the row of the snapshot |
| `PickNext`, `CreateMachine`, `Verify`, `VerifyFails` | `get_next_mr`, `create_state_machine_for_mr` (reads the row again), `_verify_mr_in_queue` |
| `Begin`, `Rebase`, `ReachTesting`, `WaitForPipeline`, `Merge` | `_execute_workflow` from whichever state the machine is in |
| `Complete` | a terminal transition: `prepare_completion` for the machine's `queue_id` |
| `HandleError`, `Reset`, `CountAttempt`, `DiscardRow`, `RemoveLabel` | `_handle_processing_error`, `_fail_mr_permanently` |
| `HandleEvent`, `HandlerCompletes` | unlabeled, close and merge webhooks: lookup, then completion |
| `AcceptPipeline`, `RecordPipeline` | pipeline webhooks: lookup, then the write of "testing" or "merging" |
| `AddToQueue`, `RemoveOrphan`, `Tell`, `Archive` | the queue's other actors |
| `UserActs`, `Crash` | users; the process stops |

Abstractions: the processor is "idle" while it is busy with another merge
request; which webhooks are ignored, the requeue requests and the steps of a
completion are in `QueueCompletion`; whether an ended pipeline is the row's is
left open here and decided in `PipelineWait`.

### `PipelineWait` and the code

State: `gitlab` (head commit, behind its target or not, merged commit) and
`pipelines` are GitLab; `row` has the columns `status`, `pipeline_id`,
`expected_sha`, `retried_jobs`; `proc` is the processor with everything it remembers
over an await (the commit `get_mr` showed, the commit of before the rebase, the
pipeline it fetched, `job_retry_count`, `canceled_seen_count`, the number of
rebases, the last chance after the timeout); `elapsed` says that the timeout has
passed.

| Actions | Code |
|---|---|
| `UserPushes`, `TargetMoves`, `PipelineStarts`, `PipelineEnds`, `UserRetries`, `TimePasses` | GitLab, its users and time |
| `CaptureMergeRequest`, `CapturePipeline`, `StartWithoutRebase` | `capture_pre_rebase_state`, and the way of an up-to-date branch |
| `Rebase`, `ReadMovedHead`, `MatchPipeline` | `process_rebase`, `wait_for_post_rebase_pipeline` |
| `StartRound` | `check_pipeline_termination_conditions`, then `get_latest_mr_pipeline` |
| `CheckRebase`, `RebaseAgain`, `ReadHeadAgain`, `MatchPipelineAgain`, `GiveUpNewPipeline`, `ForgetRetries` | the rebase of a row under test |
| `CheckStale`, `SwitchToSeen`, `RecoverFromStale`, `HandleStatus` | `check_stale_pipeline`, `_try_recover_from_stale_skip`, `handle_pipeline_status` |
| `FetchJobs`, `PostRetry`, `SaveRetries` | `handle_pipeline_failure_retry`: jobs, POST, record |
| `CheckMergeable`, `PutMerge` | `merge_mr`: its own `get_mr` and comparison, then the PUT |
| `ReceivePipeline`, `HookSwitches`, `HookWrites` | `_validate_pipeline_event`, the switch to a newer pipeline, and the write of the event; both may bind the row (`BindRow`), counted in `setbacks` unless to a newer pipeline |
| `Crash` | a restart: the row is reset and processed anew |

Abstractions: a commit is a number, a pipeline has one job that may fail;
"running" stands for every status before the end; a blocked, manual or skipped
pipeline ends a wait as a failure without a retry does; a rebase that changes
nothing is left out; polling the rebase is one step; label checks and errors
are in `Processing`.

### `RetryQueue` and the code

State: `retry`, `dlq`, `lastIds` (AUTOINCREMENT) are the tables, `ready` the rows
whose `next_attempt_at` has come, in that order, `workers` the retry processors,
`seen` the pages operators have had on their screens. A delivery's number
is a ghost: the program knows rows by their ids only. `settled` and `tries`
record what became of deliveries and rows.

| Actions | Code |
|---|---|
| `StoreWebhook` | `add_to_retry_queue` of the router's error paths |
| `BecomesDue` | time passes `next_attempt_at` |
| `OperatorRetries`, `OperatorDeletes` | `retry_dlq_entry`, `delete_dlq_entry` |
| `Fetch` | `get_events_ready_for_retry` |
| `Handle`, `MarkSuccess`, `MarkRejected`, `MarkFailed` | `_process_retry_item` and the `mark_retry_*` it ends in |
| `FindRow`, `MoveFound` | `move_retry_to_dlq` of an unknown project's row: two transactions |
| `TransactionFails`, `Restart` | the database raises; a crash, or a shutdown and a deployment that knows the project or does not |

Two workers are the overlap of a rolling update (the deployment has one
replica). Payloads, errors and the length of delays are left out.

### Seeded faults

Operators that begin with "Seeded fault" in their comment are not part of the
model: each is a variant of the definition that follows it, with a plausible
programming error, and shows that the properties notice it.

## Runs

| Run | Question | Bounds |
|---|---|---|
| `delivery_uniform` | does the request end with the verdict `event_order.py` promises, in any order of deliveries? | 7 changes, precision 4 |
| `completion_core` | does one failing lifecycle end right and is the next one started exactly when it should be? | 1 handler, 3 user changes, exact timestamps, 3 lossy PUTs, 1 crash, successor started once |
| `completion_hooks` | the same with two handlers and unknown order of neighbouring changes | 2 handlers, 3 user changes, precision 2 |
| `completion_polling` | the same with successful merges, merge webhooks and the sync competing | 2 user changes, 1 crash, answers of PUTs that change nothing may be old |
| `completion_liveness` | is every frozen lifecycle archived in the end? | as `completion_core` with 2 user changes |
| `processing` | does every lifecycle end truthfully, for the lifecycle that was decided about, and does none wait for ever? | 1 handler, 3 attempts, 3 lifecycles, 3 acts of users, 1 crash |
| `pipeline_wait` | is what is merged tested, are job retries limited, does the wait end? | 1 handler, 1 retry, 1 rebase under test, 1 grace poll, 2 commits, 3 pipelines, 2 acts |
| `retry_queue` | is every stored webhook handled or dead, in one place, after a bounded number of tries? | 2 workers, 2 attempts, 2 stored webhooks, 1 dead letter sent back, 1 fault |
| `merged_stuck`, `finalized_rows`, `stale_enqueue`, `bot_cleanup` | statements of comments and tests that the code does not keep (below) | the smallest instances that show it |

Bounds. `MaxInstant`: precision 4 and 7 changes give changes in the same, in
neighbouring and in distant intervals. `MaxUserActs` 3 lets a user
enqueue, cancel and enqueue again during one completion; the fourth change would
only repeat a verdict that the request forgets. `MaxId` 2 starts one successor
(nobody *begins* to end a lifecycle once it is reached, so the last one still
exists when its predecessor's webhooks arrive); the runs that need two ended
lifecycles use 3. `MaxLost` bounds how often the answer to a PUT may be lost,
since each loss adds a change of the bot to repeat. `MaxCrashes` 1 suffices
for the safety of one completion because a crash forgets everything volatile.
Deadlock is checked in the runs of `AdmissionDelivery` and `QueueCompletion`; the
deliveries of old webhooks never end, so it says little. It is not checked in
the other three, where the instance may stop: when its lifecycle has ended, its
webhooks are settled, or the processor is dead and every bound is used up.

In `processing`, three attempts are needed for a row that fails, is counted and
then gets further; three lifecycles for a task of the first one that meets the
second while a third can still be added; three acts for a user who takes the
label off, puts it on and closes or merges. In `pipeline_wait`, an act of a user,
of the target branch or a crash costs two of `MaxActs` and a pipeline that
somebody asks for costs one, so that one surprise meets the wait at each of its
awaits (a rebase makes the second commit by itself); with three pipelines one
can be superseded and its replacement too. In `retry_queue`,
`BatchLimit` is at least the number of rows, so that a batch is what it is in
production; two attempts make the last one different from the first; one fault
can hit every single step, and the dead letter sent back needs an id of its own.

Fairness. In `QueueCompletion` (`FairSpec`, used for `PendingIsArchived` only), `Recover` is weakly
fair because the sync calls it on every round. The completion's own steps are
weakly fair because asyncio runs every ready task. The POST and the PUTs are
strongly fair when taken with an answer: GitLab does not fail for ever. `Finalize`
is strongly fair because asyncio's locks are handed over in FIFO order, so a
task that waits for the admission lock gets it although handlers take it again
and again; `WriteIntent` is weakly fair, so nobody keeps it. Nothing is assumed of
users, deliveries, decisions or the sync itself.

In `Processing` only the processor's task is weakly fair, as asyncio runs it
whenever it is ready; GitLab need not ever answer, so what may then happen for
ever is named in `EveryLifecycleAdvances`. In `PipelineWait` the processor is weakly
fair, and time is strongly fair: a timeout that is awaited again and again
passes at last (`TimePasses`, and `GiveUpNewPipeline` for the wait for a new
pipeline). No pipeline has to end. In `RetryQueue` each delay passes and each
worker keeps running; no handler has to succeed.

### What the runs show

All properties of the runs that are to pass hold. `OwnChangesAreNotIntent`,
`RequestIsRestorable`, `AdmittedIntentSurvives` and `LabelFollowsRequeue`
together say that writing the operation down before its PUT, and the token-like
comparison of the guarded DELETE, really close the gaps between the awaits.

`processing`: the outcome "merged" is always true (`MergedIsTrue`); the
converse is not, since a merge whose answer was lost is recorded as failed. A
machine ends its own lifecycle (`EndsItsOwnLifecycle`), except that
`_fail_mr_permanently` archives whatever incarnation it finds when the machine
cannot fail any more, and a machine that was made without a row has no
`queue_id` to compare. `get_next_mr` looks at queued rows only, so a row in
an intermediate state needs somebody to move it on: `NoRowIsAbandoned` shows that
errors, completions and crashes never leave it alone, and names the three steps
that do (below). `EveryLifecycleAdvances` says that a row which stays active for
ever is waited for in GitLab again and again, or fails its verification again
and again (an error before the machine has left "queued" is not counted), or is
abandoned, or the processor is dead: counting an error twice, or not at all,
would show there.

`pipeline_wait`: a verdict is only ever taken from a pipeline of the commit that
the row expects, and the row enters "merging" only when that commit was
tested. What is merged was tested too, unless it was pushed between
`merge_mr`'s comparison and its PUT, which names no commit (`MergedIsTested` lets
only this happen). A job is retried as often as configured and once more for each crash
between the POST and its record; each webhook that read the row earlier and binds
it (`BindRow`) again to its own pipeline, or to an older one, forgets the counts,
so that they start again. (The run has one configured retry; with
`MaxJobRetries = 2` and one commit, outside the run, the property holds as well,
and it is proved for every number.) The wait ends although each switch of pipelines starts the clock again.

`retry_queue`: with two workers, old pages and failing transactions, a stored
webhook is in the retry queue, among the dead letters or settled, in exactly one
place; it leaves the retry queue; and it is tried as often as configured, but for
one more try per other worker and per fault. Handling is at least once: a
webhook that was handled but could not be acknowledged is handled again, which
the other modules allow.

Limits of the code that the properties name or the runs led to, without a
statement in the repository that says otherwise:

- Abandoned rows. A recovery that GitLab did not answer, or that saw a row
  while it was still queued, leaves an intermediate row alone; a pipeline webhook
  that read a row before it was reset writes "testing" into it afterwards; and a
  task of an ended lifecycle that writes its successor's row then leaves it. The
  row stays until the next restart.
- An exception in the recovery other than GitLab's (a webhook completed the row
  while GitLab was asked about it, so its reset finds none) ends `run()`; nothing starts
  the processor again, and the row waits in "queued" (`ProcAt("dead")`).
- When `_fail_mr_permanently` deletes a row and the label's removal fails, the
  next sync adds the merge request again.
- `_remove_queue_label` of a handler is no operation on record. It runs for a row that
  the sync removed while the handler was about to, and when it is slow it takes the
  label off a later lifecycle: its webhook may then cancel that lifecycle's request
  as if a user had, or a successor is left in the queue without its label
  (`LabelFollowsRequeue` with `Polling`, two handlers, `MaxId` 3 and three user changes;
  TLC finds this when the first eight steps are prescribed, the full instance is too large).
- When three changes fall into one timestamp interval, the request of a user who sets
  and removes the label within the tick of the clean-up is taken for uncancelled
  and has no triggers to restore (`RequestIsRestorable` with `Prec` 3): the row stays
  pending, as in `merged_stuck`.
- A webhook that arrives while the circuit is open is answered 503 and not
  stored; GitLab does not repeat it, so it is left to the sync. The client
  records failures for the breaker in an `except RetryError`
  (`clients/gitlab.py:720`) that `reraise=True` never lets it reach, so a closed
  breaker does not open.

Where the code and a statement of the repository part:

- `merged_stuck`: for a merged merge request the filter for the bot's own
  events does not apply (`state` is no longer "opened"), so the webhook of the
  label clean-up becomes a cancelled request without triggers; the receipt of
  the PUT then makes it "not cancelled", and `requeue["triggers"]` raises in
  this and every later attempt. It needs a webhook timestamp equal to the one in
  the answer to the PUT, as in the repository's own fakes.
- `finalized_rows`: the history keeps one row per merge request, so the
  outcome of a second lifecycle is archived nowhere.
- `stale_enqueue`: a handler that read the row just before the outcome was
  frozen writes an enqueue from before the outcome into the pending row.
- `bot_cleanup`: a late webhook of the bot's own clean-up removes a row that
  an ordinary webhook added after it.

Two limits of the request are visible with `AdmissionDelivery` when precisions
are mixed (`Widths = {1, 4}`): `ProvedCancelWins` fails because a coarse
cancellation that overlaps a sharper one replaces its clock, and
`RedeliveryKeepsVerdict` fails because a message that changed nothing is not
remembered in `seen_messages`. `UnrefutedEnqueueWins` holds there too; this is
proved. With `Prec = 2`, `UserCancelHonoured` fails in `QueueCompletion`: a
cancellation in the same interval as the bot's own change cannot be told from
it, which `event_order.py` accepts ("deliberately preserves intent"). With
`NoopEcho`, `RequestIsRestorable` and `LabelFollowsRequeue` fail: a PUT
that changes nothing is answered with the time of a user's change, and that
change is then taken for the bot's. These instances are therefore outside the
runs that check those properties.

## Proofs

`AdmissionDeliveryProofs`, for every number of changes, every set of
precisions and every schedule of deliveries:

- `CompareEventIsSound`, `UncertaintyIsPreserved`: the two facts about
  intervals that the protocol rests on;
- `EnqueueIsNeverLost`: `Spec => []UnrefutedEnqueueWins`. The property is not
  inductive: the verdict says nothing about clocks. The invariant adds that a
  message names one change (`OneMessageEach`), that the messages a request has
  seen were delivered (`SeenWasDelivered`), that a cancelled request carries the
  clock of a delivered cancellation (`CancelIsBacked`), and, the heart of it, that
  no unrefuted enqueue ends later than the wanted request's clock
  (`EnqueueIsCovered`); a cancellation proved to follow the request is
  then proved to follow each enqueue in it;
- `DeliveryTypeCorrect`.

The converse holds while GitLab reports one precision, of any width
(`UniformPrecision`): intervals are then equal or apart, and "overlapping" is
transitive. (With two precisions TLC refutes both properties, see above.) The
invariant `UniformInv` says what became of each delivered change (`Settled`): the
request took it, or is later than it, or it is a cancellation that an enqueue of
its interval defeats; and a wanted request carries the clock of a delivered
enqueue (`WantedIsBacked`). From it:

- `ProvedCancelIsNeverLost`: a request does not survive a delivered cancellation that is
  proved to follow all its enqueues;
- `RedeliveryIsIdempotent`: delivering a webhook again leaves the request unchanged;
- `DeliveryOrderDoesNotMatter`: the verdict is a function of the *set* of webhooks that
  arrived, although `_merge_requeue` folds them one by one in any order.

`QueueCompletionProofs`, for every number of handlers, lifecycles, user
changes, lost answers and crashes, every precision, both values of
`SharedAccount`, `NoopEcho` and `Polling`:

- `CompletionLockOwnsRow`: whoever holds the completion lock owns the row. This
  is the inductive invariant itself, with the types and the fact that running
  handlers hold an event;
- `OutcomeIsFrozen`, `OwnedRowsLeaveDone`, `IntentIsTransferred`: action
  properties that follow from it, through one lemma: a step either keeps an owned
  row's outcome or is `Finalize` with its guard true (`OwnedRowSteps`);
- `TypeCorrect`.

`RequeueProofs`, on the same invariant: how the request of a row under completion, the
operations and instants on record, the label in GitLab and the webhooks on
their way agree. No property here is inductive, because they relate what four
tasks write at different times. The actions are first summed up as thirteen kinds of
steps (`StepKind`), so that each part of an invariant is proved once per kind.

- `CompletionIgnoresItself`: `Spec => []OwnChangesAreNotIntent`, for all values of all
  constants. `OwnInv` follows the webhook of an own change: the operation is on
  record before the change happens (`OwnOnRecord`, `HolderOnRecord`), so whoever
  receives the webhook while the row is pending ignores it; a handler that
  decided to write *before* the outcome was frozen holds a webhook from before the outcome
  (`WritesAreNotOwn`), since the outcome's instant is taken before the lock is
  waited for (`RequestsStamped`).
- `OpenRequestsAreRestorable`, `RequestsAreRestorable`: `RestoreInv` says that the instants on record are of
  own changes (`InstantsAreOwn`), that a request without triggers was cancelled
  (`WantedOrCancelled`), that removals do not follow each other (`NoTwoRemovals`) and
  that the label is only put back for a request with triggers (`AddsAreWanted`).
  The hypotheses are needed; TLC finds a counterexample without each: three
  changes in one interval (`Prec` 3), a PUT that echoes a user's instant
  (`NoopEcho`), and a merged merge request, whose case is the finding `merged_stuck`.
  The first theorem therefore speaks of an open merge request, whatever the
  outcomes; the second is the property of the runs, for failures.
- `LabelAgreesWithQueue`: `Spec => LabelFollowsRequeue` for every precision and
  both outcomes. `LabelInv` says that after the holder applied its request the
  label is as it should be unless a user changed it without its request knowing
  (`Applied`), and that after a clean-up without a request the label is off
  unless a user put it back (`CleanedUpIsClean`). The hypothesis `~Polling` is needed, see
  the limits above; `~NoopEcho` as before.
- `UserCancellationsCount`: `Spec => UserCancelHonoured` while timestamps tell changes
  apart (`Prec = 1`): the request's clock is then the newest change it took
  (`NewestIsSeen`), so an uncancelled request ends with an enqueue, and a
  cancelled one with a cancellation that no own change explains. TLC refutes it
  with `Prec = 2`, with `NoopEcho`, and with the outcome "merged" (the bot's own
  label change then replaces the cancellation and is forgiven as its own).

`QueueCompletionRefinement`: `CompletionImplementsLifecycle`, from the inductive
invariant of `QueueCompletionProofs`. The abstract state is read off the row, its
id counter and the comments, so most steps are invisible; for the others one lemma
each says which abstract step it is, and the invariant which rows it may meet.

`ProcessingProofs`, for every number of handlers, lifecycles, attempts, acts
and crashes. The invariant `IInv` is `TypeOK` with two facts about what tasks carry
from one step to the next: `Intentions` (what is about to be written is of its
kind, a machine at work is in a working state) and `Truth` (whoever is about to
say "merged" has it from GitLab, which never takes it back). Without `Truth`,
`MergedIsTrue` is not inductive: the outcome is written some awaits after GitLab
said it. The other argument is `RowStep`: every step of the processor and the
handlers leaves the row, writes its state, freezes an outcome or deletes it, and
each of the four keeps within `MergeRequestLifecycle` and ends a lifecycle only
as `EndsItsOwnLifecycle` allows. Theorems: `ProcessingTypeCorrect`,
`MergedOutcomesAreTrue`, `ProcessingImplementsLifecycle`, `OwnLifecycleIsEnded`,
`RowsAreAttended`.

`PipelineWaitProofs`, for every number of handlers, commits, pipelines, retries,
acts and crashes. The invariant `IInv` is `TypeOK` with `Knowledge`: what the
processor carries from one await to the next. A pipeline that it has seen succeed
is one of a tested commit, before a verdict this commit is the row's, and before
the PUT the row's commit is the merge request's as it was compared.
`MergingIsTested` alone is not inductive, because the row is written some awaits
after the pipeline was read, and others write it between. The argument rests on
`Grows`: pipelines are added and statuses change, but a tested commit stays tested,
so every step has only to be shown to write what it knows. One lemma per action
says what it leaves of the row and of that knowledge. That a commit with a pipeline
has a latest one follows from the well-foundedness of the numbers
(`MaxOfSome`). Theorems: `WaitTypeCorrect`, `RowsCommitIsTested`,
`MergesWhatWasCompared`, `VerdictsAreAboutTheRow`.

`RetryQueueProofs`, for every number of workers, webhooks and faults:
`RetryTypeCorrect` and `DeliveriesAreInOnePlace`. The strengthening relates ids,
rows and deliveries: no row has an id beyond the last one given out, ids of a table
and deliveries of both name their row, and what a worker holds was once such a
row, so a worker with an old copy removes that row or none.

The module also proves `TriesAreBounded`. While a row is stored, its tries are the
attempts it counts and those that a worker has made and not recorded (`Tried`); once
it has left the table, only workers that still have a copy can try it (`Holding`).
No worker is in both sets, so when the row leaves they have together at most one
member per worker: what an attempt limit per row cannot prevent is one try for each
other worker. A fault may erase an unrecorded try.

`JobRetriesProofs` proves `RetriesAreBounded` over the invariant of
`PipelineWaitProofs`. Retries are counted for the row's pipeline only and forgotten
when the row is bound to another, so the count alone bounds nothing. Setbacks and
crashes give a pipeline a `Budget`; what it was retried beyond that, the row
remembers (`RowRemembers`), or the processor that has not told the row yet
(`ProcessorRemembers`); pipelines newer than the row's are within the budget
(`NewerAreFresh`), and so is the one whose count is about to be forgotten (`MayForget`).
A row that is bound back is a setback, which pays for every retry so far. That the
processor and a handler never move the row at the same time while it is rebased
(`RebasedAlone`) is part of the invariant.

Assumptions on the constants: `None` is no instant, no request and no record
(`NoneIsNoInstant`, `NoneIsNoRequest`, `NoneIsNoRecord`), precisions are
positive, `"processor"` is not the name of a handler (`CompletionConstants`,
`DeliveryBounds`), `None` is no row and no outcome (`NoneIsNoRow`), bounds and
limits are natural numbers and workers are finitely many (`ProcessingConstants`,
`RetryConstants`, `WaitConstants`). TLC evaluates each of them in the runs.

Only model-checked: liveness, which is out of the prover's reach under fairness
(`PendingIsArchived`, `EveryLifecycleAdvances`, `WaitEnds`, `RetriesEnd`). Every other
property of the passing runs is a theorem. Five of them (`ProvedCancelWins`,
`RedeliveryKeepsVerdict`, `RequestIsRestorable`, `LabelFollowsRequeue`, `UserCancelHonoured`) are
proved under hypotheses on the constants, each of which excludes a
counterexample; the runs that check these properties satisfy the hypotheses.

## Plan

1. Done: `EventOrder`, `Admission`, `AdmissionDelivery`, `QueueCompletion`;
   `MergeRequestLifecycle` with its two refinements; `Processing`, `PipelineWait`,
   `RetryQueue`; the proofs above.
2. Done: the theorems about the request of a row under completion and about
   deliveries of one precision. Next: `UserCancellationsCount` for open merge
   requests whatever the outcomes, as `OpenRequestsAreRestorable` is; what the
   handlers' own label changes (`_remove_queue_label`) may do to a request.
3. Small modules that remain: the circuit breaker with late results, `QueueCache`
   with its version check, metadata revisions and pending notifications. They
   would need runs of their own.

## Not modelled

The queue's cache, the refresh of metadata, position notifications and the
circuit breaker (see *Plan*): nothing modelled here reads them, and a call that the
breaker refuses is a call that fails. The rest of the GitLab client, the
router's parsing and secret check, the notifier's texts, the database layer (a
transaction is one step, its locks are the locks of the model), shutdown
(covered by `Crash` and `Restart`), the clean-up of old dead letters (nothing
calls it), migrations, the HTTP API, websockets, authentication, analytics,
metrics, configuration and the dashboard: they read or carry state and decide
nothing about the queue. Most of the repository's lines are of this kind (the
dashboard, tests, views), so the modules map a small share of it. Two different
merge requests interact only through the order of the queue and the
notifications of positions, which are left out.
