# MediaFlux in TLA+

This directory holds TLA+ models of MediaFlux, the configurations that check them with TLC, and
proofs that TLAPS checks. MediaFlux is a Python service that moves media
between download clients, a cloud drive (Guangya), a local library and a media server. Its hard part
is not any one algorithm. It is that every step is a call to a system that may fail, answer late or
not answer, while several threads, processes and users work on the same rows of one SQLite
database. The models are about exactly that.

Paths below are relative to `src/app/` unless they start with `src/`.

## 1. Inventory of the system

### How the parts hang together

    user, bot, agent, RSS, subscriptions (admissions keep a media key)
          |  submit / retry / cancel                    users, other programs
          v                                                    |
    download requests --- dispatcher ---> qBittorrent          v
          |                          \--> Guangya cloud    local library (files)
          |  tracker follows both                              ^
          v                                                    |
    local media tasks  ------ move transaction ----------------+
    Guangya organize jobs --- plans of renames and copies in the cloud drive
          |
          v
    STRM generation ----> media refresh queue ----> coordinator ----> Emby / Jellyfin
          |
          v
    Telegram notification outbox

All components keep their state in one SQLite database (`database.py`, WAL). A function of
`repositories/` is one transaction. Threads meet only through that database, through a few file
locks (`modules/process_lock.py`) and through in-memory tables. So the models make one step of a
transaction, and separate steps of reading, calling a remote system and writing.

### Components

The status is the one of this project; `PROJECT.json` lists the same components with their sources, and the
hazards of each at its line.

| component | state it keeps | operations | hard behaviour | what makes it correct | status |
|---|---|---|---|---|---|
| Media refresh queue and coordinator (`repositories/media_refresh_queue.py`, `modules/media_refresh_coordinator.py`) | groups with pending and inflight paths, lease, backoff; recently refreshed items | enqueue, claim, settle, recover; the thread's loop | producers add paths while a claim is at the server; partial answers; two processes; crashes; a deduplication window | no change is lost; a claim is not stolen; the queue drains | modelled, proved |
| Local media move transaction (`modules/local_move_transaction.py`, renames of `local_storage.py`) | files under visible and hidden names, step records, `_moved`, `_replaced_backups` | execute, commit, rollback | every call can fail, also during the rollback; other programs act on the same directories | no media is lost at any instant; a failure that reports nothing is a full rollback | modelled but for locks, restarts and pruning, proved |
| Local media service and scheduler (`modules/local_media_service.py`, `local_media_scheduler.py`, `repositories/local_media.py`) | tasks of a path, confirmation cards, the writer lease, the paused torrent | scan, bind, retry, claim, execute, settle, recover | several claimers of one row, belated handlers, restarts of other processes, crashes between the pause and the end | files move only while the torrent rests; a cut-off write waits for a person | modelled for one path, proved |
| Download requests, dispatcher, tracker (`repositories/download_requests.py`, `modules/download_dispatcher.py`, `modules/download_tracker.py`, `indexers/downloads.py`, `modules/qb_control.py`) | rows with a root status and one status per target, keys of a resource, task ids | submit, append, retry, receipt, cancel, remove, recover, track | lost and late answers, hung threads, snapshots, retries that supersede a row, user removals | a running task is not forgotten, a cancelled one not revived, one submission per target | modelled for magnets and torrents, proved |
| Media subscriptions and admissions (`modules/media_subscriptions.py`, `repositories/media_subscriptions.py`, `strm_request_ownership.py`) | one active admission per media key, bound to a request | claim, dispatch, sync, hand over, revive, reconcile at start | requests outlive their callers; retries and resumed stages bring admissions back | one download per key, no key kept for nothing | modelled for one key of several candidates, proved |
| Guangya organize jobs (`repositories/organize_operation_jobs.py`, `modules/organize_tasks.py`, `guangya_fs_change.py`) | leased jobs, plans with a journal of intents and receipts | enqueue, claim, send, poll, defer, cancel, expire, recover | a copy in the cloud of unknown outcome, cancelled while it runs; torn journals | nothing is sent twice; an unknown outcome ends in review | modelled for change plans, proved |
| Telegram notification outbox (`repositories/telegram_notifications.py`, `modules/telegram_notification_center.py`, `notifier.py`) | rows with revisions and leases, the message of each | upsert, claim, send or edit, complete, retry, recover, purge | a first send of unknown outcome, a newer revision during a send, writers of one thread | one message, newest content, no fact lost | modelled, proved |
| Download staging (`modules/download_staging_cleanup.py`, `_reconcile.py`) | staging directory of a cloud task | wait until stable, organize, remove | removal while the task still writes | no directory in use is removed | not modelled |
| STRM generation (`modules/strm.py`, `strm_recovery.py`) | runs, pointer files | scan, publish, recover | an interrupted run owned by a request that was retried | only the current owner settles | not modelled; its trigger and its ownership appear in `OrganizeJobs` and `Admissions` |
| RSS (`modules/rss.py`, `repositories/rss.py`) | entries | claim, dispatch, reconcile | restart between claim and dispatch | found again by the key of its request | not modelled |
| Automation rules (`repositories/media_automation_rules.py`) | leased rules | drain, publish, edit | an edit while the handler runs | an old worker publishes nothing | not modelled |
| Agent jobs, confirmations, effects (`repositories/agent_jobs.py`, `agent/confirmation.py`, `agent/kernel/effects.py`) | leased jobs, one-shot tickets, effect plans | schedule, confirm, consume | a ticket used twice | at most one effect per ticket | not modelled; what a confirmed plan does is in `OrganizeJobs` |
| Concurrency primitives (`concurrency.py`) | single-flight table with generations | get-or-compute, clear | `clear` during a computation | old results are not published | not modelled |
| Media server client (`clients/base.py`), Guangya client, indexers, media proxy | none worth checking | HTTP | lost answers | - | appears through its outcomes only |
| Recognition, scraping, agent domains and tools, routes, bot, front end, migrations, configuration, Jellyfin plugin | data | parsing, presentation, one-off scripts | - | - | not modelled: data and I/O, no control to check |

### How the project grew, and what would come next

Modelled in this order: the refresh queue with its refinement; the move transaction; the download requests; the outbox;
the organize jobs; the admissions; the local media tasks. What is left, in the order of its worth:

1. `LocalTasks` with several paths: planning in parallel, overlapping paths, the projection to download requests.
2. `KeyedSingleFlight` with `clear`: a waiter is woken by its own generation only.
3. RSS entries and automation rules, both leased rows in front of components that are modelled.

## 2. The modules

| module | models |
|---|---|
| `DurableIntent` | abstract: what a durable work queue promises its producers |
| `MediaRefresh` | the refresh queue, the coordinator thread of each process, the process lock, the answers of the media server |
| `MediaRefreshProofs` | inductive invariant, safety theorems and refinement of `MediaRefresh` |
| `LocalMove`, `LocalMoveProofs` | one move transaction against a file system that others use; its invariant and theorems |
| `LocalTasks`, `LocalTasksProofs` | the tasks of one path, whoever runs them, the torrent and the restarts; its invariant and theorems |
| `DownloadRequest` | the requests of one resource, the submitting threads, tracker, recovery and user |
| `DownloadRequestProofs` | inductive invariant of `DownloadRequest`; its rows, root statuses, cancellations and superseded rows |
| `DownloadCallerProofs` | on top of it: one thread per target of a row, running tasks accounted for, removals, one row per target under way, the lifecycle of a target |
| `Admissions`, `AdmissionsProofs` | the admissions of a subscription and the requests they are bound to; its invariant and theorems |
| `OrganizeJobs`, `OrganizeJobsProofs` | the queue of cloud operations, its worker, plan and journal; its invariant and theorems |
| `NotificationOutbox`, `NotificationOutboxProofs` | the outbox, its dispatcher, its writers and Telegram; its invariant and theorems |
| `MC...` | the instances for TLC: `MCMediaRefresh`, `MCLocalMove`, `MCLocalTasks`, `MCDownloadRequest`, `MCAdmissions`, `MCOrganizeJobs`, `MCNotificationOutbox` |

Definitions named "Mutant: ..." are faulty variants of the definition below them. No specification uses
them; they serve to confirm that a property notices that fault.

The modules meet at contracts rather than in one big product. `LocalTasks` uses of `LocalMove` that a move is whole, undone, reported as
incomplete (`OutcomeIsTrue`), or, if the database fails, incomplete without a report (finding 2); `Admissions` sees the requests of `DownloadRequest` with one target; the STRM trigger counted in
`OrganizeJobs` is what fills the queue of `MediaRefresh`.

### MediaRefresh

`status`, `pending`, `inflight`, `due`, `attempts`, `owner`, `lease`, `gen` and `recent` are the JSON document in
`settings_kv`, field by field. `lock` is the process lock. `pc`, `batch`, `claimGen`, `cur`, `skip`, `outcome` and
`succeeded` are the local variables of `_loop` and `_process_group`. `fresh` is a history variable: what producers are owed.
Instants are kept as the time left until them, so that `Tick` moves every clock at once.

`Enqueue` is `enqueue_media_refresh`, `Claim` is `claim_due_media_refreshes` with its recovery of expired claims, `Recover`
is the forced recovery of a new lock holder, `Settle` is `settle_media_refresh` with its lease check. `CallOK`, `CallFailed` and
`NoClient` are the outcomes of `_process_group` around `refresh_for_paths`: some items accepted, some refused, some
skipped because they were refreshed recently. `Stop`, `Crash` and `SettleFailed` are the faults.

Abstracted: how a path resolves to a library item (`TargetOf` is a constant), JSON, error texts.

### LocalMove

`fs` maps names to files: source, target, old version, and the four hidden names that carry the operation token. A rename
keeps the identity of a file, a copy has a new identity with the same content. `tx` holds the locals of the transaction,
`step` the rows of `local_media_operation_steps`. Each action is one file-system call of `_move_one`,
`_restore_replaced_backup`, `_restore_one`, `rollback` or the commit, with the checks the code makes before it. Each may fail.
`Create` and `Delete` are other programs, which see only visible names.

Abstracted: directory descriptors, fsync, fingerprints (content is what a fingerprint tells apart). Left out: the target
lock, pruning of empty directories, and restarts. A crash needs no action here: `MediaPreserved` holds in every state,
thus in the one a crash leaves behind. A file of another program that appears between the check of a name and the
`os.replace` onto it (`modules/local_move_transaction.py:478`, `:561` and `:595`), or before the removal of a copy that is given up, is
lost. The model contains these windows, so `ForeignPreserved` speaks of transactions that neither replace nor cross file systems; there
`RENAME_NOREPLACE` leaves no such window.

### LocalTasks

`rows` are the tasks of one path with what the rest depends on: the status, whether a hash of qB is bound, and whether the error starts with the
prefix of an interrupted write (`cut`). The statuses moving, verifying and refreshing are one, `writing`: every reader of
a row treats them alike. `ex` holds what a thread does and the locals of `execute_task` (`spent` are `move_committed`, `qb_task_retired` and
`rollback_errors`; `dropped` is a ghost, set if the move lost its errors, which no guard reads); a thread is the scheduler, or a request that runs a task at once. `listed` is the list `run_once` read and has not come to yet. `cards` are rows
with a confirmation card of their present version. `torrent` and `media` are external, `hit` and `torn` are ghosts: rows written by a thread that
had lost them, and rows whose write a crash cut off.

| action | code |
|---|---|
| `Scan`, `Download` | `create_local_media_task`, `create_and_link_qb_local_media_task`: reuse, bind, restart or insert by path and hash |
| `Retry`, `Delete`, `MakeCard`, `DropCard` | `reset_local_media_task` behind the check of an interrupted write, `delete_local_media_tasks`, confirmation cards |
| `List`, `Refuse`, `Claim`, `ClaimRaises` | `run_once`, `_claim_waiting_task`, `_mark_preclaim_failure`, `_process_waiting` |
| `Prepare`, `ClaimPrepared`, `ClaimByCard`, `NoClient` | `execute_media` and `_execute_local_media_confirmation` up to `execute_task` |
| `Reject`, `Begin`, `Pause`, `Move`, `Retire`, `Finish`, `Undo` | `_execute_task_under_writer`, from its refusals to its except clause; the lease is held in between |
| `Look`, `Overwrite` | the handlers of the callers, which read the row and write it later, without the lease |
| `Crash`, `Start` | a crash of the service; a start of it or of another process on the same database, with its recovery if the lease is free |
| `Control`, `Arrive` | controls of qB behind `assert_qb_control_allowed`; new files at an emptied path |

Left out: planning of several tasks at once, overlapping paths, several hashes of one task, the projection to download requests, moves to the
trash, removal of a source, and what somebody does in the interface of qB itself.

### DownloadRequest

`req` are the rows of one resource: root status, status of each target, and whether the id of the qB task is recorded
(`bound`). `canon` is the row that owns the identity keys (`download_request_keys`). `job` is what the downloaders really do: qB
has one task per torrent whichever row added it, the cloud one task per row. `thr` are the submitting threads (web, bot, RSS,
agent), `trk` is the tracker between reading a row and settling it, `removal` is a removal by the user under way.

| action | code |
|---|---|
| `Submit`, `Create`, `Claim`, `Append` | `_persist_and_dispatch`: reads the owner of the keys, decides, and then creates, claims or appends in a later transaction |
| `Resubmit`, `Succeed`, `Mark` | `resubmit_download_request`: capabilities of the row it read, the fenced creation of the successor, the mark of the old row |
| `Call`, `Record` | `_dispatch_claimed_targets`: qB first, under the lease of its torrent; the receipt in a transaction that checks the claim |
| `LeaseFails`, `RecordFails`, `Handle` | the exceptions of that loop and who handles them; only the creating path has a handler |
| `CancelPending`, `RemoveIntent`, `RemoveTask` | `cancel_pending_download_request`; `remove_qb_tasks`: intent stored first, remote deletion after |
| `RecoverStale`, `Restart` | `_recover_interrupted_download_submissions_conn`, by age or at start |
| `TrackRead`, `TrackApply` | the tracker's round: rows and task lists are read, then each row is settled if it is still the row that was read |
| `TaskMoves` | external: a task ends or leaves the list |

Abstracted, by leaving a choice: which submissions are older than 15 minutes, since when a task is missing, which ids the
cloud gave, whether a list could be read. A snapshot whose row has changed is dropped when the row changes and not when it is
refused: the reachable rows are the same and there are fewer states. Left out: share transfers, the identity of
HTTP torrents that is found late, and the columns of local import, organizing, notification and admission.

### Admissions

`adms` are the admissions in the order of their ids, `reqs` the requests, `cands` the candidates of one subscription `sub`, `callers` the threads inside
`download_candidate` together with the thread they wait for, which goes on when its caller is cancelled (`left`). A request carries what its admission depends on:
its status, whether a stage after the download failed, whether it owns the identity of its resource, and which request it is to mark as resubmitted.

`Claim`, `BeginDispatch`, `Settle`, `SyncResult`, `Abandon` and `Fail` are `download_candidate`; `Lookup`, `BindExisting`, `CreateRequest`, `Dispatch` and `Send` are
`_persist_and_dispatch` and the dispatcher; `Track`, `CancelPending`, `RecoverStale`, `UserDownloads` and `Retry` change requests and, through
`Projection`, their admissions in the same transaction; `PostprocessResumes` is the revival by `strm_request_ownership`; `Restart` and `ReconcileStartup` are separate steps, because the
service starts its schedulers in an order of its own.

Abstracted: downloading is merged with submitted; the age of a candidate is a choice of `OfferCandidates`; a deleted subscription
counts as paused. Left out: the check runs and their fences, several targets and several keys of one request (season packs).

### OrganizeJobs

`job` are the rows of the queue, `plan` the plan file with the items its journal tells, `worker` the thread under the organize lock with what it holds in memory,
`cloud` what really became of each operation, `sent` and `triggered` count what left. An operation is a write, which is verified at once, or a copy, which goes on as a task of the cloud
while the job returns to the queue with a marker.

The steps of the worker (`Work`) follow `execute_fs_change_plan`: reconcile what is unknown by reading the drive, clear the next operation, checkpoint its intent, look at the cancellation once more, send,
checkpoint the receipt, verify; then announce the STRM refresh, trigger it and close. Each checkpoint may fail or be torn, each answer may be lost, and the process may die between any two. `request_cancel` refuses when the journal
shows a copy under way or cannot be read.

Left out: other kinds of jobs (rename, cleanup, scrape), operations of two stages, deduplication and capacity, trimming of the history, a cancellation with an outdated generation (it changes nothing), a plan file
that is missing altogether.

### NotificationOutbox

`row` are the rows of the outbox with the set of facts as content, `chat` the messages Telegram shows for each row, `worker` the thread under `_delivery_lock`, `snap` what a writer read of the thread it updates.
`ReadThread` and `PublishThread` (a thread, with a revision check), `PublishOnce` (a one-shot event or a part of an answer) and `Invalidate` are `upsert_notification` and its callers.
`Dispatch` is the dispatcher: `Claim` takes the oldest due row, `Send`, `Edit` and `EditRefused` are Telegram with its answers (ok, rejected, busy, unknown, delivered in part),
`Refrain` and `Suppress` are policies, `Settle` and `SettleFails` store the outcome by lease generation. `Restart`, `Recover`, `LeaseEnds`, `RetryDue` and `Purge` are the rest of the repository.

Left out: the back-fill of Agent identities (`bind_*`), the outbox of confirmation receipts, `delivered_revision`, rendering and policies (a choice to refrain).

## 3. The runs

TLC uses small instances; the bounds are constants of the modules (`Max...`, `GenWrap`) or a constraint of the MC module. `CHECK_DEADLOCK FALSE` is set where
an instance really stops: producers and operations are bounded, and a transaction ends. The run `tasks` never stops and is checked for deadlock.

| run | question | instance |
|---|---|---|
| `refresh` | Is a change ever lost, a claim ever stolen? Does the queue implement `DurableIntent`, serve every change and drain? | 2 processes, 2 groups meeting in one item, 2 enqueues, 1 fault, fair |
| `refresh_defer` | Is a deferred group confirmed in the end? **No** (finding 1) | 1 process, 2 groups sharing 2 items, 3 enqueues |
| `move` | Is media lost at any instant? Do success, failure and the records say what is so? Are files of others safe? | 2 plans of every shape, 2 I/O faults, 1 failing record, 1 foreign file, 1 foreign removal |
| `move_dbdown` | Is the rollback complete when the database fails? **No** (finding 2) | 2 plans, 3 failing records |
| `tasks` | Does the torrent rest while its files move, is it resumed only over untouched files, as far as the move reports them? Is a second delivery of a completed task refused, does a cut-off write wait? | 2 tasks of one path, the scheduler, 1 request, 1 fault or crash, up to the first belated write |
| `download_safety` | Is the root status true, a running task accounted for, a cancelled target left alone, a target submitted by one thread? | 2 threads, a row and its successor, any targets, 2 submissions or retries, 2 troubles |
| `download_live` | Does a claim always end, is a vanished task always noticed? | 1 thread, 1 row, 2 submissions, 1 fault, fair |
| `download_single` | Is a target of a resource under way in one row only? **No** (finding 3) | 2 threads, 2 rows, 3 submissions or retries |
| `admissions` | Has a media key one active admission, every download its key, and no key an owner that is gone? | 2 callers, 2 candidates of one key, 2 admissions, 3 requests, 2 events |
| `jobs` | Is anything sent twice, does a copy leave after a cancellation, are the outcomes true, does every job end? | a plan of two operations with 2 troubles, or 2 short plans side by side, fair |
| `notify` | One message per row, in order, recorded as sent only when shown, no fact lost, no row waiting for ever? | 1 thread with 2 writers, 1 event, an answer of 2 parts, 2 publications, 2 attempts, 2 troubles, fair |
| `notify_partial` | Is what was delivered in part never replayed? **No** (finding 4) | 1 long event, 1 publication, no other trouble |

Why the bounds are enough. A refresh claim has one owner, so two processes show every hand-over (an old and a new lock
holder); two groups with one common item show deduplication; two enqueues put one change before and one into a claim. Two plans
show a failure in a plan after another was moved, which is all the rollback loop distinguishes. The request rules look at one row
and its two targets, or at a row and its successor: the constraint of `download_safety` gives the single row both troubles, and a row and its successor one trouble if each
has one target, and two threads throughout, so that one can be late with respect to the other. One media key with two resources makes admissions compete; a request, its successor
and a third show hand-over and return; two events with callers at rest, and one while both are under way or all three requests are there. A plan of two operations has one that is done
and one that is not; two single ones side by side make jobs wait for each other. Two parts of an answer show order, two publications of a thread meet a
send of the first, two attempts show a retry and the last one. Two tasks are what the rules of a path can confuse, one of them finished; a belated write is the end of a behaviour in `tasks`,
because everything after it is exempt from two of the four properties, and the theorems have no such bound.

Every safety property of a passing run is also proved without bounds (section 4), so that for these the instances serve to show that the properties
are the right ones, each with a mutant that breaks it. What TLC alone answers are the liveness properties and the four counterexamples.

### Properties worth an explanation

* `NoLostChange`, `KeepsIntent`: the refresh that confirms a path must have been issued after the path was enqueued. Deduplication
  makes that delicate: an item skipped as "recently refreshed" must not confirm anything.
* `ClaimsStayValid`: although leases run out while the holder of the lock works, nobody takes its claim.
* `MediaPreserved`, `OutcomeIsTrue`, `StepRecordsTrue`: relate what the transaction reports to what the names hold. `OutcomeIsTrue` has two parts, one for what is reported as
  committed, one for a failure without rollback errors.
* `QuietWhileMoving`: the check of the controls looks at rows, the pause at qB, and recovery rewrites rows of other processes; the property says that they fit together. A row written by a thread that
  had lost it (`hit`) is exempt: observation (b) of section 6.
* `ResumedOnlyUntouched`: three flags decide whether the torrent is resumed; the property speaks of the files instead. It does not hold of a run whose move lost the errors of its rollback
  (finding 2): such runs are marked by the ghost `dropped`, and exactly they are exempt. Without the exemption TLC finds the torrent resumed over half-moved files after eight steps.
* `CompletedStays`: the refusal of a second delivery is made under the lease, the claims are made without it. This refusal is all it covers: a handler or a list that is late does overwrite a completed row
  (observation (a)), and the rows so written (`hit`) are exempt.
* `InterruptedWaits`: six ways lead from a waiting or failed row to its execution, and only some ask.
* `AcceptedIsKept`: a task a downloader works on is not recorded as failed or absent in every row that could account for it; from such a
  state the next submission would start a second one without asking.
* `CancelledStays`: no late receipt, stale snapshot or recovery revives a cancelled target.
* `RemovalIsQuiet`: when a removal reaches qB no row still tracks the task, so its absence raises no alarm.
* `VanishedIsNoticed`: the tracker's list goes by target and not only by root, so a target still tracked under a root
  that is in manual review is followed.
* `HistoryStays` allows a superseded root to go to `manual_review`: recovery does that when the other target of
  the row was still being submitted. The mark and the tracker keep `resubmitted`.
* `DownloadHoldsKey`: an admission `released` by the reconciliation at start is exempt: observation (i).
* `SentOnce`, `NoCopyAfterCancel`: the intent is on disk before a send, and the cancellation is looked at between the two; the answer to a cancellation looks at the journal.
* `SentIsShown`, `FactsKept`: a send is under way while writers publish; generations and revisions decide whose word counts.

### Fairness

`MediaRefresh!Fairness` is weak fairness of the clock, of the coordinator thread (a loop with a bounded wait) and of its
restart by the service manager. `DownloadRequest!Fairness` is about the tracker's thread alone: its loop wakes up every 30 seconds and
survives exceptions. Recovery and the reading of a row are weakly fair, settling a row is strongly fair, because a change of the row in between
refuses the round and a later round repeats it. A *thorough* settling is one where the lists could be read and the grace
of a missing task is over; that it happens again and again assumes that downloaders are not unreachable for ever. Submitting threads
have no fairness: they may hang for ever, and `SubmissionSettles` holds all the same.

`JobsFairness` is weak fairness of the worker's thread (`Claim`, `Work`), of the recovery when it starts, and of two clocks: the deadline of a copy and the delay of a poll. The cloud has none: a copy may hang for
ever, which is why a job has a deadline. The outbox has weak fairness of the dispatcher's loop and of two clocks, the end of a lease and the delay of a retry; Telegram may stay unreachable, attempts are counted.

`download_live` has one row. Rows interact only through the keys and the qB task, neither of which the two properties mention.

## 4. What is proved

Eight proof modules; the assumptions are those on the constants (`MediaRefreshAssumption` and `PowersAssumption`, `RequestedAssumption`, `BoundsAssumption`, `LocalMoveAssumption`,
`OutboxAssumption`, `OrganizeAssumption`, `AdmissionsAssumption`, `RowsAssumption`, `ExecsAssumption`): kinds of sets, natural bounds, disjoint kinds of rows. TLC evaluates them in every run.

| module | theorems |
|---|---|
| `MediaRefreshProofs` | `TypeCorrect`, `NoChangeLost`, `ClaimsNeverStolen`, `ImplementsDurableIntent` (`Spec => KeepsIntent`, that is `DI!Spec` under `todo <- Todo`) |
| `LocalMoveProofs` | `Invariant`, `TypeCorrect`, `MediaAlwaysPreserved`, `OutcomeAlwaysTrue`, `StepRecordsAlwaysTrue`, `ForeignAlwaysPreserved` |
| `DownloadRequestProofs` | `InductiveInvariant`, `TypeCorrect`, `RootAlwaysTrue`, `CancelledForGood`, `HistoryKept` |
| `DownloadCallerProofs` | `OneCallerAlways`, `AcceptedAlwaysKept`, `RemovalAlwaysQuiet`, `SingleFlightUnlessReviewed`, `LifecycleKept`, `FinalForGood` |
| `NotificationOutboxProofs` | `TypeCorrect`, `OneMessageAlways`, `SentAlwaysShown`, `PartsInOrder`, `FactsAlwaysKept`, `ShownAtMostOnceAlways` |
| `OrganizeJobsProofs` | `RecordsTellTruth`, `JobsTypeCorrect`, `SentOnceAlways`, `CancelledAlwaysSettled`, `CompletedAlwaysTrue`, `NoCopyAfterCancelAlways`, `EndedForGood` |
| `AdmissionsProofs` | `AdmissionsConsistent`, `AdmissionsTypeCorrect`, `OneHolderAlways`, `DownloadKeepsKey`, `ClaimAlwaysWorkedOn` |
| `LocalTasksProofs` | `Invariance`, `TasksTypeCorrect`, `QuietAlways`, `InterruptedAlwaysWaits`, `ResumesUntouched`, `CompletedAlwaysStays` |

All hold for any processes, threads, rows, groups, plans and bounds.

### The refresh queue

`NoLostChange` alone is not inductive: settling a completed claim removes its inflight paths, and nothing in the
property says that they were served. The inductive invariant `IInv` adds

* `LockHeld` and `ClaimsWhileBusy`: a coordinator past the lock holds it, so at most one is there (`OneConsumer`), and it has
  claims exactly while it works on a group;
* `ClaimsStayValid`: these claims pass the lease check, so `Settle` acts on the group it called the server for;
* `InflightOnlyRunning`: outside a running claim nothing is inflight, so that a claim overwrites nothing;
* `CompletedMeansServed`: a claim about to be confirmed owes only what is pending again.

Each has a lemma with one step per action. The refinement maps `Enqueue` to `Ask`, the server call to `CarryOut`, the settling
to `Retire`, and everything else to a stutter; `RetireStep` is where `FreshHeld` of the next state is needed.

### The local move

`MediaPreserved` says of each content only that some name holds it; which name depends on how far the move, its handler or the
rollback has come. `IInv` therefore goes phase by phase (`Forward`, `Handling`, `InRollback`, `AtRest`, `Committed`) and says of each
plan which of five things it is:

* `Untouched`: its media is at the source, its old version at the target, nothing is aside;
* `MovingOK`, `HandlingOK`: it is the one at hand; one clause per label of `pc` says which of its names hold what;
* `Placed`, with `BackedUp`: it is registered in `_moved`, its file is at the target and its old version in the backup;
* `JobOK`, `RestoringOK`: it is the one being undone, with a clause per label again;
* `Undone`: it is back, or the transaction is to blame (`Blamed`: it reports an error, or a record could not be written).

At all times `Sound` holds of every plan: its content is under one of its own names, unless another program removed it. A step of the transaction concerns one plan, and
what it leaves alone stays what it was (`Frame`). So each call of the code has one lemma, about its own plan, and `BusyStep`, `JobStep` and
`RestStep` put the others back. Other programs only see visible names (`Meddling`): they may create a file
under one or remove what is there, but what they remove is on record (`gone`), so that what a phase says of a plan stays true (`MeddlingPlan`). `OutcomeIsTrue` reads off `Committed` and `AtRest`.
`ForeignPreserved` needs no phases: in a transaction that renames without replacing, every step leaves the files alone or
renames one to a free name (`RenamesToFree`), which keeps every content.

### The download requests

The argument goes row by row. `RowOK` is what the statuses of one row say of each other; it strengthens `RootIsTrue`,
which by itself does not exclude that a cancelled row has a failed target for a recovery or a retry to act on. Each function
that rewrites a row (`Claimed`, `Appended`, `Settled`, `Stopped`, `TakenOver`, `Recovered`, `TrackedRow`) has a lemma that it
takes a good row to a good one and respects what may not happen to a row (`Keeps`). The actions are then instances: each
writes at most one row, or all rows by one of these functions. What remains is that they are applied to the right row:

* `ThreadsOK`: a thread at a place where it writes a row has one, and has a target to work on;
* `SnapshotsOK`: a snapshot of the tracker that is still there is one of the row as it is, and knows a task for each tracked target. This is
  where the tracker's comparison with the row it read (`Current`) enters.

`OneCaller` needs another invariant, since a recovery may take a claim from a thread that hangs at the downloader. `ServedHeld`: a
target some thread serves is in a status no claim is made of (`Held`: submitting, in manual review, cancelled,
superseded). All writes but one keep a held target held; the exception is a receipt, and by `ServedAlone` the target of a receipt is served by
nobody but the thread that stores it.

`AcceptedIsKept` is about a row and what the downloader does behind it. That some row accounts for a running task is not inductive: a thread whose
own call was refused, or a tracker whose snapshot shows an earlier failed task, may be about to write "failed" there. `Firm` excludes both: no thread may
still report a refusal of this claim (`MayRefuse`), and the snapshot shows no failed task. A task that starts makes its row firm because its
target has one caller (`FirmStarts`, from `ServedHeld` and `ServedAlone`); after that every write keeps an accounted target accounted and makes no claim of it.

`RemovalIsQuiet` rests on `QuietInv`: a row that tracks the task knows its id, so the intent of a removal, which goes by ids, stops every such
row; from then on the lease of the torrent keeps away the receipts that would track it again.

`SingleFlightUnlessReviewed` draws a limit: `SingleFlight`, which `download_single` refutes, holds in every behaviour in which no retry
supersedes a row in manual review. Then the keys always belong to the newest row and every earlier row is over, all its targets final
(`SuccessionInv`), since a root that is over leaves no target to a manual review (`Decided`). So finding 3 has that one cause.

`LifecycleKept` sums up what every write may do to one target: it is claimed while it has no task or failed, never after an unknown outcome or from manual review; it completes only while it is tracked. The tracker's part needs that a snapshot
is one of the row as it is. `FinalForGood` follows: no way leads out of completed, cancelled or handed over.

### The outbox

A row that shows something although it knows no message is in doubt: it is being sent, or its outcome is unknown, unless an edit of its message was refused. A claim of a row without a message thus
finds an empty chat, and no second message is sent. Only refused rows lose their message. For `SentIsShown` the worker's copy of the row is related to the row by generation and revision: while both agree, what the worker shows is
the content of the row. `FactsKept` needs that a snapshot is true of the revision it names; the revision check then refuses every other.

`ShownAtMostOnceAlways` is the limit of finding 4: an event whose text is one message, and a part of an answer, are shown at most once. No edit of such a row is ever
refused, because a row that knows its message has been sent and is not claimed again (`OnceInv`); only a long text can leave the message of an unknown outcome behind.

### The organize jobs

`Truthful`: what plan and worker say of an operation never contradicts the cloud; "not started" means that nothing was sent, a known outcome is the outcome. An operation is only sent in a state where its intent is on disk and was not there before,
thus once. After an accepted cancellation no copy runs that the journal does not show (`Still`), and a job that is recorded as cancelled has none (`SettledIsStill`). The worker's row is leased to it as long as it has one,
so that a recovery cannot close it underneath.
For the same reason a row that ended has no worker, and `EndedForGood` says that nothing is sent, triggered or recorded for it any more.

### The admissions

Active admissions of a key are unique (`UniqueKeys`); an admission that is only claimed is bound to nothing; a request of the subscription that is under way has an admission that keeps the key; callers hold different admissions, each in the state in which its caller left it (`CallerFine`, `Apart`).
Most steps are calm: they make admissions inactive or follow their requests. The others are a caller's steps on its own admission (`OwnStep`) and the two ways an admission comes back (`TakenUp`), which find the key free.

### The local media tasks

`IInv` says that the lease has one holder; that its row says what the holder wrote, unless a belated write was noted (`Marked`); that the files of a run that may still resume the torrent are where the run found them, unless its move lost the errors of its rollback (`InPlace`); and that a row whose write was cut off is
waiting, or will be once the service is up, and is in nobody's hands (`Waits`). Two lemmas carry the steps: `Bearing` for a step of the lease's holder at its own row, which leaves the
others without the lease sound, and `Aloof` for a step of anybody else, which must leave a row that is planned or written alone (`Kept`) or be noted. `Control` is the step where they meet: a paused, moving run keeps its hash and its
status in the row, so the check of the controls finds it. `CompletedStays` follows because only the holder of the lease writes "completed", the lease is never held for a completed row, and every other write of one is noted.

### What is only model-checked

Liveness: `QueueDrains` and `EveryChangeServed` of `refresh`, `SubmissionSettles` and `VanishedIsNoticed` of `download_live`, `RowsSettle` of `notify`, `JobsEnd` of `jobs`.
Liveness under fairness and ENABLED are out of reach of the prover used here, as is induction over data. No module declares a RECURSIVE operator, so
that all of them can be proved about.

## 5. Findings

1. **Deferral for ever** (`refresh_defer`). Two groups that share two items renew each other's deduplication windows: a claim is deferred as a whole as
   soon as one of its items is recent, yet it refreshes, and re-arms, the others. The comment at
   `modules/media_refresh_coordinator.py:368` promises one more calibration after the window.
2. **Half a rollback** (`move_dbdown`). When the write of the failed step record raises inside the handler of `rollback` (`modules/local_move_transaction.py:709`), the other
   plans are not visited, the collected errors are dropped, and the caller takes the failure for a complete rollback. The same happens without a word where the
   record of a failed plan cannot be written (`:640`): the exception of the database replaces the one that carries the errors. `LocalTasks` contains this outcome of `Move`: `modules/local_media_service.py:2093` finds no
   `rollback_errors`, resumes the torrent over half-moved files, and stores "failed", so that a retry needs no confirmation.
3. **Two rows, one target** (`download_single`). A row in manual review that a retry has superseded is marked only after the successor's downloaders answered.
   Until then `claim_download_request_targets` adds targets to it, although its comment (`repositories/download_requests.py:913`)
   says that a handed-over row cannot be claimed late. In the other direction, a target still running under the old row
   is added to the successor by the next submission, since only the successor's own statuses are looked at. Without the retry of a row in manual review
   neither can happen (`SingleFlightUnlessReviewed`).
4. **Partial delivery replayed** (`notify_partial`). A long text that stops after its first message reports that message's id; `repositories/telegram_notifications.py:357` takes the row for one with
   a known message and retries it, the edit is refused locally as too long, and the whole text is sent again, although `notifier.py:278` says that a partial delivery cannot be replayed.
   Texts of one message are not affected (`ShownAtMostOnceAlways`).

## 6. Observations

Behaviour met while modelling that a maintainer may want to look at. The models contain it; the properties exempt it where they say so.

Local media tasks:

* (a) A completed task can be overwritten as failed by the scheduler's stale list (`_mark_preclaim_failure`) or by the handler of a caller that looked before the task was completed, since both write
  unconditionally; the comment at `modules/local_media_service.py:1904` wants a second delivery never to overwrite the completed state.
* (b) Such a write during a move lets the user resume the torrent while its files move.
* (c) `reset_local_media_task` does not look for another active row of the path; afterwards two rows of one path are active and later creations raise.
* (d) A hash bound to a row that is already executed is neither paused nor retired by that run.
* (e) A confirmation card takes up an interrupted write without the explicit confirmation that `prepare_manual_local_media_task` and the retry demand, and clears its error.
* (f) A pause whose answer is lost leaves the torrent paused; a resume after a failure also starts a torrent that the user had paused.
* (g) A task that is claimed but waits for the lease is judged an orphan by another process's start, is declared failed, and still runs.
* (h) If the stores of the executor and of the handler both fail, the row stays active until the next start.

Admissions:

* (i) `main.py:364` starts the subscription scheduler before the tracker (`:367`), whose reconciliation at start may release a dispatching admission of a pending request that is dispatched right after.
* (j) `modules/media_subscriptions.py:1824` overwrites the request of a candidate unconditionally; a later retry of the other request is then refused as changed.
* (k) The retry of a request in manual review does not hand over its active admission; once the old request is marked as resubmitted its projection says nothing, and the key stays locked until the library shows the media.
* (l) Of two failed admissions of one key on one request only the first is revived; a retry may then be refused by the unique index with a misleading message.
* (m) After a failed reconciliation unbound admissions stay claimed until the next start, although the comment at `modules/download_tracker.py:143` says that later checks go on.

Organize jobs and outbox:

* (n) A failing read of the cancellation, changed credentials or a thread that cannot be started while a copy is in flight ends the job as failed, while its plan goes to manual review.
* (o) After a fallback to a new message, a crash leaves the old message's id in the row; the recovery edits, is refused, and sends again, contrary to `modules/telegram_notification_center.py:741`.

## 7. Not modelled

The models cover a small share of the code base by lines. Most of its quarter of a million lines is recognition of names, scraping of metadata, rendering, HTTP clients, the proxy, the bot and the web interface:
data and I/O without state whose interleavings matter. SQLite itself is taken as it is (a transaction is atomic; that it may fail is modelled where the code handles it).

Components with a durable state machine that are not modelled, and the hazard each leaves uncovered:

* **RSS entries**: a restart between the claim of an entry and its request (`repositories/rss.py:1516`); the entry is found again by the idempotency key of its request.
* **Automation rules**: an edit or a take-over while the handler runs (`modules/media_automation_rules.py:224`); conditional updates of one row, and a repeated publication meets the logical key of the outbox.
* **`KeyedSingleFlight`**: `clear` during a computation (`concurrency.py:121`); an in-memory cache with a time to live.
* **Download staging and STRM generation**: remote reads and deletions whose rules belong to the organizer.
* **Agent jobs and confirmations**: a compare-and-set per ticket; effects are the plans and downloads of the modelled components.
