---------------------------- MODULE OrganizeJobs ----------------------------
(***************************************************************************)
(* The durable queue of Guangya operations                                 *)
(* (src/app/repositories/organize_operation_jobs.py), the worker that      *)
(* runs one job at a time under the organize lock                          *)
(* (src/app/modules/organize_tasks.py) and the execution of a file-system  *)
(* change plan in the cloud drive, with its signed journal of intents and  *)
(* receipts (src/app/modules/guangya_fs_change.py).  A plan is a sequence  *)
(* of writes (rename, move, trash, new directory) and copies; a copy goes  *)
(* on in the cloud as a task after it was accepted, the job goes back to   *)
(* the queue meanwhile, and nothing that may have been sent is sent again. *)
(***************************************************************************)
EXTENDS Naturals, Sequences, FiniteSets, FiniteSetsExt

CONSTANTS
    Jobs,         \* the jobs of one user, each with a plan of its own
    Plans,        \* the operations of each plan: "write" or "copy"
    Gens,         \* bound: lease generations are counted modulo Gens
    Together,     \* bound: the sets of jobs that are queued in one behaviour
    Faulty,       \* bound: the jobs that meet troubles
    MaxTroubles   \* bound: crashes, failed writes and reads, privacy purges

Ops(j) == 1 .. Len(Plans[j])

ASSUME OrganizeAssumption ==
    /\ IsFiniteSet(Jobs) /\ Plans \in [Jobs -> Seq({"write", "copy"})]
    /\ Gens \in Nat \ {0} /\ MaxTroubles \in Nat
    /\ Together \subseteq SUBSET Jobs /\ Faulty \subseteq Jobs

VARIABLES
    job,          \* organize_operation_jobs
    plan,         \* the plan file and the checkpoints of its journal
    worker,       \* the thread that holds the organize lock, if any
    cloud,        \* external: what became of each operation in the drive
    sent,         \* how many times each operation was sent
    triggered,    \* how many times the STRM refresh of a plan was triggered
    jobTroubles

jobVars == <<job, plan, worker, cloud, sent, triggered, jobTroubles>>

Terminal == {"completed", "partial", "failed", "cancelled", "manual_review"}
JobStatuses == {"absent", "pending", "running", "gone"} \cup Terminal
PlanStatuses == {"confirmed", "queued", "running"} \cup Terminal

\* An operation that was announced is unknown until its effect was read back; a
\* copy whose task is recorded is tracked.
Items == {"not_started", "unknown", "tracked", "completed", "failed", "blocked"}
InFlight == {"unknown", "tracked"}

Job == [status : JobStatuses, gen : 0 .. Gens - 1, cancel : BOOLEAN, purged : BOOLEAN,
        expired : BOOLEAN, marker : BOOLEAN, ready : BOOLEAN, started : BOOLEAN, since : Nat]

Places == {"idle", "load", "reconcile", "look", "clear", "intended", "send", "receipt",
           "verify", "lost", "settle", "pending", "defer", "final", "trigger", "close", "finish"}

NoJob == [pc |-> "idle"]
Working == [pc : Places \ {"idle"}, job : Jobs, gen : 0 .. Gens - 1, items : Seq(Items), at : Nat,
            uncertain : BOOLEAN, finalizing : BOOLEAN, result : Terminal]

JobTrouble(j) ==
    j \in Faulty /\ jobTroubles < MaxTroubles /\ jobTroubles' = jobTroubles + 1

NextGen(g) == (g + 1) % Gens

-----------------------------------------------------------------------------
(* What the plan file and its journal tell: inspect_fs_change_plan_recovery. *)

\* A running plan is read through its journal, which must hold a whole record.
Readable(j) ==
    /\ ~job[j].purged
    /\ plan[j].status = "running" => plan[j].logged /\ ~plan[j].torn

Resumable(j) ==
    Readable(j) /\ plan[j].status \in {"queued", "running", "completed", "partial"}

\* Mutant: only the marker of the queue tells that a copy goes on.
MarkerOnly(j) == job[j].marker

\* _has_unsettled_copy: what cannot be read counts as sent once a worker started.
Unsettled(j) ==
    IF Resumable(j)
    THEN plan[j].status # "queued"
         /\ \E i \in Ops(j) : Plans[j][i] = "copy" /\ plan[j].items[i] \in InFlight
    ELSE job[j].started \/ job[j].marker

\* finalize_fs_change_plan_job: an open plan never closes better than it is known.
ClosedPlan(p, status) ==
    IF p.status \in Terminal THEN p
    ELSE [p EXCEPT !.status = IF \/ p.status = "running"
                                 \/ status \in {"completed", "partial", "manual_review"}
                              THEN "manual_review" ELSE status]

\* A row that ends, with its plan; the plan of an emptied row is out of reach.
Closed(r, status) ==
    [r EXCEPT !.status = IF r.purged THEN "gone" ELSE status, !.marker = FALSE]

PlanAfter(j, status) == IF job[j].purged THEN plan[j] ELSE ClosedPlan(plan[j], status)

-----------------------------------------------------------------------------
(* The queue.                                                              *)

\* enqueue_organize_operation_job binds the plan; without a dispatcher the job
\* fails at once (fail_pending_organize_operation_job).
EnqueueJob(j) ==
    /\ job[j].status = "absent"
    /\ \E S \in Together : {j} \cup {q \in Jobs : job[q].status # "absent"} \subseteq S
    /\ \E status \in {"pending", "failed"} :
         /\ job' = [job EXCEPT ![j].status = status,
                               ![j].since = Cardinality({q \in Jobs : job[q].status # "absent"})]
         /\ plan' = [plan EXCEPT ![j].status = IF status = "failed" THEN "failed" ELSE "queued"]
    /\ UNCHANGED <<worker, cloud, sent, triggered, jobTroubles>>

\* request_cancel_organize_operation_job: never while a copy may be under way.
CancelJob(j) ==
    /\ job[j].status \in {"pending", "running"} /\ ~job[j].purged /\ ~job[j].cancel
    /\ ~Unsettled(j)
    /\ \/ /\ job[j].status = "running"
          /\ job' = [job EXCEPT ![j].cancel = TRUE] /\ UNCHANGED plan
       \/ /\ job[j].status = "pending"
          /\ job' = [job EXCEPT ![j] = [Closed(@, "cancelled") EXCEPT !.cancel = TRUE]]
          /\ plan' = [plan EXCEPT ![j] = ClosedPlan(@, "cancelled")]
    /\ UNCHANGED <<worker, cloud, sent, triggered, jobTroubles>>

\* The privacy purge deletes rows, or empties the one that is running.
PurgeJob(j) ==
    /\ JobTrouble(j) /\ job[j].status \notin {"absent", "gone"} /\ ~job[j].purged
    /\ job' = [job EXCEPT ![j] =
                 IF @.status = "running"
                 THEN [@ EXCEPT !.cancel = TRUE, !.purged = TRUE, !.marker = FALSE]
                 ELSE [@ EXCEPT !.status = "gone", !.marker = FALSE]]
    /\ UNCHANGED <<plan, worker, cloud, sent, triggered>>

\* expires_at passes.
DeadlinePasses(j) ==
    /\ job[j].status \in {"pending", "running"} /\ ~job[j].expired
    /\ job' = [job EXCEPT ![j].expired = TRUE]
    /\ UNCHANGED <<plan, worker, cloud, sent, triggered, jobTroubles>>

\* CLOUD_COPY_POLL_SECONDS are over.
PollIsDue(j) ==
    /\ job[j].status = "pending" /\ job[j].marker /\ ~job[j].ready
    /\ job' = [job EXCEPT ![j].ready = TRUE]
    /\ UNCHANGED <<plan, worker, cloud, sent, triggered, jobTroubles>>

\* Mutant: a job that waits for its copy does not expire.
UnlessCopying(j) == job[j].status = "pending" /\ job[j].expired /\ ~job[j].marker

Lapsed(j) == job[j].status = "pending" /\ job[j].expired

\* Mutant: an expired job gets a status that nothing else knows.
ExpiredApart(j) == "expired"

\* _expire_pending: a copy that goes on is for the user to look at.
Expired(j) == IF Unsettled(j) THEN "manual_review" ELSE "cancelled"

Ready(j) ==
    job[j].status = "pending" /\ ~job[j].expired /\ (job[j].marker => job[j].ready)

Oldest(j) == \A q \in Jobs : Ready(q) => job[j].since <= job[q].since

Started(j) ==
    [pc |-> "load", job |-> j, gen |-> NextGen(job[j].gen), items |-> <<>>, at |-> 1,
     uncertain |-> FALSE, finalizing |-> FALSE, result |-> "failed"]

\* claim_organize_operation_job, with the organize lock held; the expired jobs are
\* closed first.
Claim ==
    LET lapsed == [j \in Jobs |-> IF Lapsed(j) THEN Closed(job[j], Expired(j)) ELSE job[j]]
    IN  /\ worker.pc = "idle"
        /\ plan' = [j \in Jobs |-> IF Lapsed(j) THEN ClosedPlan(plan[j], Expired(j)) ELSE plan[j]]
        /\ \/ \E j \in Jobs :
                /\ Ready(j) /\ Oldest(j)
                /\ job' = [lapsed EXCEPT ![j].status = "running", ![j].gen = NextGen(@),
                                         ![j].started = TRUE]
                /\ worker' = Started(j)
           \/ /\ \A j \in Jobs : ~Ready(j)
              /\ \E j \in Jobs : Lapsed(j)
              /\ job' = lapsed /\ UNCHANGED worker
        /\ UNCHANGED <<cloud, sent, triggered, jobTroubles>>

Orphaned(j) == job[j].status = "running"

Resumed(j) ==
    ~job[j].cancel /\ ~job[j].purged /\ ~job[j].expired /\ Resumable(j)

\* A cancelled job needs no look at its copies: none was sent after the request.
RecoveredStatus(j) ==
    IF job[j].cancel THEN "cancelled"
    ELSE IF Resumed(j) THEN "pending" ELSE "manual_review"

\* recover_orphaned_organize_operation_jobs: with the lock in hand, a running row
\* has no worker.
RecoverJobs ==
    LET row(j) == IF Resumed(j) THEN [job[j] EXCEPT !.status = "pending", !.ready = FALSE]
                  ELSE Closed(job[j], RecoveredStatus(j))
    IN  /\ worker.pc = "idle" /\ \E j \in Jobs : Orphaned(j)
        /\ job' = [j \in Jobs |-> IF Orphaned(j) THEN [row(j) EXCEPT !.gen = NextGen(@)]
                                  ELSE job[j]]
        /\ plan' = [j \in Jobs |-> IF Orphaned(j) /\ ~Resumed(j)
                                   THEN PlanAfter(j, RecoveredStatus(j)) ELSE plan[j]]
        /\ UNCHANGED <<worker, cloud, sent, triggered, jobTroubles>>

-----------------------------------------------------------------------------
(* The worker: _run_durable_operation and execute_fs_change_plan.          *)

mine == worker.job

\* cancel_check before every read and write of the cloud.
CancelSeen ==
    job[mine].cancel \/ job[mine].status # "running" \/ job[mine].gen # worker.gen

GoesOn == ~CancelSeen /\ ~job[mine].expired

Goes(pc) == worker' = [worker EXCEPT !.pc = pc]

Ends(result) == worker' = [worker EXCEPT !.pc = "finish", !.result = result]

With(item) == [worker.items EXCEPT ![worker.at] = item]

Todo(items) == {i \in DOMAIN items : items[i] = "not_started"}

\* The loop goes on with the next operation that was not started.
Onward(items) ==
    worker' = [worker EXCEPT !.pc = IF Todo(items) = {} THEN "final" ELSE "look", !.items = items]

GivesUp(items) ==
    worker' = [worker EXCEPT !.pc = "final", !.items = items, !.uncertain = TRUE]

\* _write_fs_checkpoint: one signed record is appended, or the append fails.
Checkpoint(items) == plan' = [plan EXCEPT ![mine].items = items, ![mine].logged = TRUE]

CheckpointFails ==
    /\ JobTrouble(mine)
    /\ \E torn \in BOOLEAN : plan' = [plan EXCEPT ![mine].torn = torn]

\* The plan file is written whole; its journal is read from its new end on.
Rewritten(status, items) ==
    plan' = [plan EXCEPT ![mine] = [@ EXCEPT !.status = status, !.items = items,
                                             !.logged = FALSE, !.torn = FALSE]]

Checking == {"load", "reconcile", "look", "intended", "verify", "lost", "pending", "trigger"}

Stop ==
    /\ worker.pc \in Checking /\ ~GoesOn
    /\ Ends(IF CancelSeen THEN "cancelled" ELSE "manual_review")
    /\ UNCHANGED <<job, plan, cloud, sent, triggered, jobTroubles>>

\* The check itself cannot read the database.
CheckFails ==
    /\ worker.pc \in Checking /\ JobTrouble(mine)
    /\ IF worker.pc \in {"intended", "verify"} THEN Goes("lost") ELSE Ends("failed")
    /\ UNCHANGED <<job, plan, cloud, sent, triggered>>

\* _load_fs_execution_plan and the preflight of a new plan.  The thread may not
\* start, the login may have changed, an object may have moved.
LoadPlan ==
    LET p == plan[mine] IN
    /\ worker.pc = "load"
    /\ \/ /\ GoesOn /\ p.status \in {"queued", "running"}
          /\ worker' = [worker EXCEPT !.items = p.items, !.finalizing = p.finalizing,
                          !.pc = IF p.status = "running" THEN "reconcile"
                                 ELSE IF Todo(p.items) = {} THEN "final" ELSE "look"]
          /\ Rewritten("running", p.items)
       \/ /\ GoesOn /\ p.status \in {"completed", "partial"}
          /\ Ends(p.status) /\ UNCHANGED plan
       \/ Ends("failed") /\ UNCHANGED plan
    /\ UNCHANGED <<job, cloud, sent, triggered, jobTroubles>>

\* Mutant: an operation that was announced and is not seen is taken for not started.
RereadOptimistically(i) ==
    IF worker.items[i] \in InFlight /\ cloud[mine][i] = "none" THEN {"not_started"}
    ELSE {worker.items[i]}

\* What a look at the cloud makes of an operation after an interruption; a read
\* may always fail, and an unrecorded copy cannot be recognised.
Reread(i) ==
    LET item == worker.items[i]
        seen == cloud[mine][i] = "done"
    IN  CASE item = "completed" \/ (item = "unknown" /\ Plans[mine][i] = "write" /\ seen)
                 -> {"completed", "unknown"}
          [] item = "tracked" /\ seen -> {"completed", "unknown"}
          [] item = "tracked" /\ cloud[mine][i] = "running" -> {"tracked", "unknown"}
          [] item = "tracked" /\ cloud[mine][i] = "failed" -> {"failed", "unknown"}
          [] OTHER -> {item}

\* _reconcile_fs_operations
Reconcile ==
    /\ worker.pc = "reconcile" /\ GoesOn
    /\ \E items \in [Ops(mine) -> Items] :
         /\ \A i \in Ops(mine) : items[i] \in Reread(i)
         /\ \/ /\ Rewritten("running", items)
               /\ worker' = [worker EXCEPT !.items = items,
                    !.uncertain = \E i \in Ops(mine) : items[i] = "unknown",
                    !.at = IF Todo(items) = {} THEN @ ELSE Min(Todo(items)),
                    !.pc = IF (\E i \in Ops(mine) : items[i] = "unknown") THEN "final"
                           ELSE IF (\E i \in Ops(mine) : items[i] = "tracked") THEN "pending"
                           ELSE IF Todo(items) = {} THEN "final" ELSE "look"]
               /\ UNCHANGED jobTroubles
            \/ JobTrouble(mine) /\ Ends("failed") /\ UNCHANGED plan
    /\ UNCHANGED <<job, cloud, sent, triggered>>

\* The next operation is checked against the cloud; a failed check ends it alone.
Look ==
    /\ worker.pc = "look" /\ GoesOn
    /\ LET i == Min(Todo(worker.items)) IN
       \/ worker' = [worker EXCEPT !.pc = "clear", !.at = i]
       \/ \E item \in {"blocked", "failed"} :
            worker' = [worker EXCEPT !.pc = "settle", !.at = i, !.items[i] = item]
    /\ UNCHANGED <<job, plan, cloud, sent, triggered, jobTroubles>>

\* The intent is on disk before the request leaves.
Intend ==
    /\ worker.pc = "clear"
    /\ \/ /\ Checkpoint(With("unknown"))
          /\ worker' = [worker EXCEPT !.pc = "intended", !.items = With("unknown")]
          /\ UNCHANGED jobTroubles
       \/ CheckpointFails /\ GivesUp(worker.items)
    /\ UNCHANGED <<job, cloud, sent, triggered>>

\* Mutant: no second look at the cancellation after the intent was written.
Unchecked == TRUE

\* A cancellation that arrived while the intent was written still counts.
StillWanted == GoesOn

Recheck ==
    /\ worker.pc = "intended" /\ StillWanted
    /\ Goes("send")
    /\ UNCHANGED <<job, plan, cloud, sent, triggered, jobTroubles>>

\* The request, and its answer: done, accepted as a task, rejected, or lost.
Send(effect, item, pc) ==
    /\ cloud' = [cloud EXCEPT ![mine][worker.at] = effect]
    /\ worker' = [worker EXCEPT !.pc = pc, !.items = With(item)]

SendOperation ==
    LET copy == Plans[mine][worker.at] = "copy" IN
    /\ worker.pc = "send"
    /\ sent' = [sent EXCEPT ![mine][worker.at] = @ + 1]
    /\ \/ Send("done", "unknown", "verify")
       \/ copy /\ Send("running", "tracked", "receipt")
       \/ Send("none", "failed", "settle")
       \/ \E effect \in {"none", "done"} : Send(effect, "unknown", "lost")
       \/ copy /\ Send("running", "unknown", "lost")
    /\ UNCHANGED <<job, plan, triggered, jobTroubles>>

\* The task of an accepted copy is recorded.
Receipt ==
    /\ worker.pc = "receipt"
    /\ \/ Checkpoint(worker.items) /\ Goes("verify") /\ UNCHANGED jobTroubles
       \/ CheckpointFails /\ GivesUp(worker.items)
    /\ UNCHANGED <<job, cloud, sent, triggered>>

\* _verify_fs_stage: the effect is read back.
Verify ==
    /\ worker.pc = "verify" /\ GoesOn
    /\ LET effect == cloud[mine][worker.at] IN
       \/ /\ effect = "done"
          /\ \/ /\ Checkpoint(With("completed")) /\ Onward(With("completed"))
                /\ UNCHANGED jobTroubles
             \/ CheckpointFails /\ GivesUp(With("completed"))
       \/ effect = "running" /\ Goes("pending") /\ UNCHANGED <<plan, jobTroubles>>
       \/ /\ effect = "failed"
          /\ worker' = [worker EXCEPT !.pc = "settle", !.items = With("failed")]
          /\ UNCHANGED <<plan, jobTroubles>>
       \/ Goes("lost") /\ UNCHANGED <<plan, jobTroubles>>
    /\ UNCHANGED <<job, cloud, sent, triggered>>

\* Without an answer, one more look decides whether the operation may count as done.
Lost ==
    LET item == worker.items[worker.at]
        effect == cloud[mine][worker.at]
    IN  /\ worker.pc = "lost" /\ GoesOn
        /\ \/ /\ effect = "done" /\ (Plans[mine][worker.at] = "write" \/ item = "tracked")
              /\ worker' = [worker EXCEPT !.pc = "settle", !.items = With("completed")]
           \/ item = "tracked" /\ effect = "running" /\ Goes("pending")
           \/ worker' = [worker EXCEPT !.pc = "settle", !.uncertain = TRUE,
                           !.items = With(IF item = "tracked" THEN item ELSE "unknown")]
        /\ UNCHANGED <<job, plan, cloud, sent, triggered, jobTroubles>>

Settle ==
    /\ worker.pc = "settle"
    /\ \/ /\ Checkpoint(worker.items)
          /\ IF worker.uncertain THEN GivesUp(worker.items) ELSE Onward(worker.items)
          /\ UNCHANGED jobTroubles
       \/ CheckpointFails /\ GivesUp(worker.items)
    /\ UNCHANGED <<job, cloud, sent, triggered>>

\* The copy goes on in the cloud: the plan is left where it is.
Pend ==
    /\ worker.pc = "pending" /\ GoesOn
    /\ \/ Checkpoint(worker.items) /\ Goes("defer") /\ UNCHANGED jobTroubles
       \/ CheckpointFails /\ Ends("manual_review")
    /\ UNCHANGED <<job, cloud, sent, triggered>>

\* defer_organize_operation_job
Defer ==
    /\ worker.pc = "defer"
    /\ \/ /\ GoesOn /\ Resumable(mine)
          /\ job' = [job EXCEPT ![mine].status = "pending", ![mine].marker = TRUE,
                                ![mine].ready = FALSE]
          /\ worker' = NoJob
       \/ /\ ~(GoesOn /\ Resumable(mine))
          /\ Ends(IF CancelSeen THEN "cancelled" ELSE "manual_review")
          /\ UNCHANGED job
    /\ UNCHANGED <<plan, cloud, sent, triggered, jobTroubles>>

\* _finish_fs_change_execution: the STRM refresh is announced, then triggered, once.
Announce ==
    LET done == \E i \in Ops(mine) : worker.items[i] = "completed" IN
    /\ worker.pc = "final"
    /\ \/ /\ ~done /\ Goes("close") /\ UNCHANGED <<plan, jobTroubles>>
       \/ /\ done /\ worker.finalizing
          /\ worker' = [worker EXCEPT !.pc = "close", !.uncertain = TRUE]
          /\ UNCHANGED <<plan, jobTroubles>>
       \/ /\ done /\ ~worker.finalizing
          /\ plan' = [plan EXCEPT ![mine].finalizing = TRUE, ![mine].logged = TRUE]
          /\ worker' = [worker EXCEPT !.pc = "trigger", !.finalizing = TRUE]
          /\ UNCHANGED jobTroubles
       \/ /\ done /\ ~worker.finalizing /\ CheckpointFails
          /\ worker' = [worker EXCEPT !.pc = "close", !.uncertain = TRUE]
    /\ UNCHANGED <<job, cloud, sent, triggered>>

Trigger ==
    /\ worker.pc = "trigger" /\ GoesOn
    /\ triggered' = [triggered EXCEPT ![mine] = @ + 1]
    /\ Goes("close")
    /\ UNCHANGED <<job, plan, cloud, sent, jobTroubles>>

\* Mutant: an operation that was blocked or rejected does not count.
DoneAnyway == "completed"

FinalStatus ==
    IF worker.uncertain THEN "manual_review"
    ELSE IF \E i \in Ops(mine) : worker.items[i] \in {"failed", "blocked"} THEN "partial"
    ELSE "completed"

\* The outcome is stored in the plan, then in the queue.
ClosePlan ==
    /\ worker.pc = "close"
    /\ \/ /\ Rewritten(FinalStatus, worker.items)
          /\ Ends(IF FinalStatus = "completed" THEN "completed" ELSE "partial")
          /\ UNCHANGED jobTroubles
       \/ JobTrouble(mine) /\ Ends("partial") /\ UNCHANGED plan
    /\ UNCHANGED <<job, cloud, sent, triggered>>

\* finish_organize_operation_job
FinishJob ==
    /\ worker.pc = "finish"
    /\ IF job[mine].status = "running" /\ job[mine].gen = worker.gen
       THEN /\ job' = [job EXCEPT ![mine] = Closed(@, worker.result)]
            /\ plan' = [plan EXCEPT ![mine] = PlanAfter(mine, worker.result)]
       ELSE UNCHANGED <<job, plan>>
    /\ worker' = NoJob
    /\ UNCHANGED <<cloud, sent, triggered, jobTroubles>>

\* The last transaction raises: the lock is released and the row stays running.
FinishFails ==
    /\ worker.pc \in {"finish", "defer"} /\ JobTrouble(mine)
    /\ worker' = NoJob
    /\ UNCHANGED <<job, plan, cloud, sent, triggered>>

Logging == {"clear", "receipt", "verify", "settle", "pending", "final"}

\* The process dies, perhaps in the middle of a record.
CrashWorker ==
    /\ worker.pc # "idle" /\ JobTrouble(mine)
    /\ \E torn \in BOOLEAN :
         /\ torn => worker.pc \in Logging
         /\ plan' = [plan EXCEPT ![mine].torn = @ \/ torn]
    /\ worker' = NoJob
    /\ UNCHANGED <<job, cloud, sent, triggered>>

\* The cloud drive ends a copy.
CopyEnds(j) ==
    /\ \E i \in Ops(j) : /\ cloud[j][i] = "running"
                         /\ \E effect \in {"done", "failed"} : cloud' = [cloud EXCEPT ![j][i] = effect]
    /\ UNCHANGED <<job, plan, worker, sent, triggered, jobTroubles>>

-----------------------------------------------------------------------------
JobsInit ==
    /\ job = [j \in Jobs |-> [status |-> "absent", gen |-> 0, cancel |-> FALSE, purged |-> FALSE,
                              expired |-> FALSE, marker |-> FALSE, ready |-> FALSE,
                              started |-> FALSE, since |-> 0]]
    /\ plan = [j \in Jobs |-> [status |-> "confirmed", items |-> [i \in Ops(j) |-> "not_started"],
                               logged |-> FALSE, torn |-> FALSE, finalizing |-> FALSE]]
    /\ worker = NoJob
    /\ cloud = [j \in Jobs |-> [i \in Ops(j) |-> "none"]]
    /\ sent = [j \in Jobs |-> [i \in Ops(j) |-> 0]]
    /\ triggered = [j \in Jobs |-> 0]
    /\ jobTroubles = 0

Work ==
    \/ Stop \/ LoadPlan \/ Reconcile \/ Look \/ Intend \/ Recheck \/ SendOperation
    \/ Receipt \/ Verify \/ Lost \/ Settle \/ Pend \/ Defer \/ Announce \/ Trigger
    \/ ClosePlan \/ FinishJob

JobsNext ==
    \/ \E j \in Jobs : \/ EnqueueJob(j) \/ CancelJob(j) \/ PurgeJob(j)
                       \/ DeadlinePasses(j) \/ PollIsDue(j) \/ CopyEnds(j)
    \/ Claim \/ RecoverJobs \/ Work
    \/ CheckFails \/ FinishFails \/ CrashWorker

JobsSpec == JobsInit /\ [][JobsNext]_jobVars

\* The dispatcher and its worker go on, and so does the clock; a copy in the cloud
\* may go on for ever.
JobsFairness ==
    /\ WF_jobVars(Claim) /\ WF_jobVars(RecoverJobs) /\ WF_jobVars(Work)
    /\ \A j \in Jobs : WF_jobVars(DeadlinePasses(j)) /\ WF_jobVars(PollIsDue(j))

-----------------------------------------------------------------------------
(* Properties.                                                             *)

JobsTypeOK ==
    /\ job \in [Jobs -> Job]
    /\ \A j \in Jobs :
         /\ plan[j] \in [status : PlanStatuses, items : [Ops(j) -> Items], logged : BOOLEAN,
                         torn : BOOLEAN, finalizing : BOOLEAN]
         /\ cloud[j] \in [Ops(j) -> {"none", "running", "done", "failed"}]
         /\ sent[j] \in [Ops(j) -> Nat]
    /\ worker \in {NoJob} \cup Working
    /\ triggered \in [Jobs -> Nat]
    /\ jobTroubles \in 0 .. MaxTroubles

\* Nothing is sent to the cloud twice, and no STRM refresh triggered twice: not
\* after a lost answer, a crash, a lost record, or a job that was taken up again.
SentOnce ==
    \A j \in Jobs : /\ \A i \in Ops(j) : sent[j][i] <= 1
                    /\ triggered[j] <= 1

\* A cancellation that was accepted is kept: no copy leaves after it, whichever way
\* the request and the intent of the worker cross.
NoCopyAfterCancel ==
    [][\A j \in Jobs : job[j].cancel /\ ~job[j].purged =>
         \A i \in Ops(j) : Plans[j][i] = "copy" => sent'[j][i] = sent[j][i]]_jobVars

\* A job is not recorded as cancelled while one of its copies goes on in the cloud:
\* it is refused, tracked or left for review.
CancelledIsSettled ==
    \A j \in Jobs : job[j].status = "cancelled" => \A i \in Ops(j) : cloud[j][i] # "running"

\* A job that is recorded as completed was done, operation by operation.
CompletedIsTrue ==
    \A j \in Jobs : job[j].status = "completed" => \A i \in Ops(j) : cloud[j][i] = "done"

\* Every accepted job ends, in review if need be, however long its copies take.
JobsEnd ==
    \A j \in Jobs : job[j].status \in {"pending", "running"}
                      ~> job[j].status \in Terminal \cup {"gone"}
=============================================================================
