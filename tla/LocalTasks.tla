----------------------------- MODULE LocalTasks -----------------------------
(***************************************************************************)
(* The tasks of the local media service for one path of a source: the rows *)
(* of repositories/local_media.py, the scheduler that works them off       *)
(* (modules/local_media_scheduler.py), the requests that run one at once   *)
(* (routes/local_media_api.py and the confirmation cards of                *)
(* modules/organize_confirmations.py), execute_task of                     *)
(* modules/local_media_service.py under the writer lease, the torrent it   *)
(* pauses, and the recovery of a start (database.py).                      *)
(*                                                                         *)
(* A row is found and made by its path, but run by its id, by whoever      *)
(* claimed it; except for the claims, rows are written unconditionally.    *)
(* What the move of the files may do is the contract LocalMove checks.     *)
(***************************************************************************)
EXTENDS Naturals, FiniteSets

CONSTANTS
    Rows,        \* ids of rows, in the order in which they are made
    Requests,    \* threads that serve a request: "execute now", or a card
    Scheduler,   \* the thread of the scheduler
    MaxFaults,   \* bound on calls of the database and of qB that fail
    MaxCrashes   \* bound on crashes of the service

ASSUME RowsAssumption == Rows \subseteq Nat \ {0}
ASSUME ExecsAssumption == Scheduler \notin Requests
ASSUME BoundsAssumption == MaxFaults \in Nat /\ MaxCrashes \in Nat

VARIABLES
    rows,     \* local_media_tasks: status, qb_hash is set, error says "interrupted"
    ex,       \* what each thread is doing, and the locals of execute_task
    listed,   \* the waiting rows the scheduler read and has not come to yet
    cards,    \* rows with a confirmation card of their present version
    torrent,  \* the torrent of the path in qB
    media,    \* where the files of the path are; mixed: not where they were, but not committed
    up,       \* the service is running
    faults, crashes,
    hit,      \* ghost: rows written by a thread that had lost them to another
    torn      \* ghost: rows whose write a crash cut off, nobody has agreed to a retry

vars == <<rows, ex, listed, cards, torrent, media, up, faults, crashes, hit, torn>>

Execs == Requests \cup {Scheduler}
Final == {"completed", "failed"}
Active == {"waiting", "recognizing", "planned", "writing", "requires_manual"}
Statuses == Final \cup Active \cup {"free", "gone"}
Leased == {"planned", "moving", "moved", "closing", "undo"}

RowType == [status : Statuses, hash : BOOLEAN, cut : BOOLEAN]
ExecType == [pc : {"idle", "prepared", "claimed", "late", "overdue"} \cup Leased,
             row : Rows \cup {0}, kind : {"", "web", "card"}, hash : BOOLEAN,
             paused : BOOLEAN, at : {"source", "target", "mixed"},
             spent : SUBSET {"committed", "retired", "incomplete"},
             dropped : BOOLEAN]   \* ghost: the move lost the errors of its rollback

Unused == [status |-> "free", hash |-> FALSE, cut |-> FALSE]
Idle == [pc |-> "idle", row |-> 0, kind |-> "", hash |-> FALSE, paused |-> FALSE,
         at |-> "source", spent |-> {}, dropped |-> FALSE]

Init ==
    /\ rows = [r \in Rows |-> Unused]
    /\ ex = [e \in Execs |-> Idle]
    /\ listed = {} /\ cards = {} /\ hit = {} /\ torn = {}
    /\ torrent = "running" /\ media = "source" /\ up = TRUE
    /\ faults = 0 /\ crashes = 0

-----------------------------------------------------------------------------
(* Helpers.                                                                *)

ActiveRows == {r \in Rows : rows[r].status \in Active}
HashRows == {r \in Rows : rows[r].hash}
FinalRows == {r \in Rows : rows[r].status \in Final}

\* The id the next INSERT gets: ids are never used twice.
Fresh(r) == rows[r].status = "free" /\ \A q \in Rows : q < r => rows[q].status # "free"
New(h) == [status |-> "waiting", hash |-> h, cut |-> FALSE]

\* _latest_terminal_local_media_task_for_path
Latest(r) == r \in FinalRows /\ \A q \in FinalRows : q <= r

\* update_local_media_task: the row as an unconditional UPDATE leaves it. A row that was
\* deleted is not there to be updated.
Written(r, s) ==
    IF rows[r].status = "gone" THEN rows
    ELSE [rows EXCEPT ![r] = [@ EXCEPT !.status = s, !.cut = FALSE]]

\* Every write raises the version, and a card of another version is void.
Stamp(r, s) == rows' = Written(r, s) /\ cards' = cards \ {r}

Holds(e, r) == ex[e].pc # "idle" /\ ex[e].row = r

\* A write of e to a row that is finished, or that another thread works on, is noted.
Noted(e, r) ==
    IF rows[r].status = "completed" \/ \E f \in Execs \ {e} : Holds(f, r)
    THEN hit \cup {r} ELSE hit

\* The writer lease of the local media pipeline, across processes.
LeaseFree == \A e \in Execs : ex[e].pc \notin Leased

Fault == faults < MaxFaults /\ faults' = faults + 1
Smooth == faults' = faults

\* list_local_media_qb_write_conflicts
Conflict == \E r \in HashRows : rows[r].status = "writing"

-----------------------------------------------------------------------------
(* Rows are made, taken up again and removed.                              *)

\* create_local_media_task for a scan: one active row per path is reused as it is.
Scan ==
    /\ up /\ ActiveRows = {}
    /\ \E r \in Rows : Fresh(r) /\ rows' = [rows EXCEPT ![r] = New(FALSE)]
    /\ UNCHANGED <<ex, listed, cards, torrent, media, up, faults, crashes, hit, torn>>

\* create_and_link_qb_local_media_task, create_local_media_task with a hash: bind the hash
\* to the active row in whatever state it is, restart the finished row of the hash, or insert.
Download ==
    /\ up /\ torrent # "gone"
    /\ \/ \E a \in Rows : /\ ActiveRows = {a} /\ a \notin HashRows
                          /\ rows' = [r \in Rows |-> [rows[r] EXCEPT !.hash = (r = a)]]
       \/ /\ ActiveRows = {}
          /\ \E r \in HashRows : rows' = [rows EXCEPT ![r] = New(TRUE)]
       \/ /\ ActiveRows = {} /\ HashRows = {}
          /\ \E r \in Rows : Fresh(r) /\ rows' = [rows EXCEPT ![r] = New(TRUE)]
    /\ UNCHANGED <<ex, listed, cards, torrent, media, up, faults, crashes, hit, torn>>

\* reset_local_media_task: an interrupted write needs the explicit confirmation.
RetryAllowed(r, sure) == rows[r].cut => sure
Retry(r, sure) ==
    /\ up /\ rows[r].status \in {"failed", "requires_manual"} /\ RetryAllowed(r, sure)
    /\ Stamp(r, "waiting")
    /\ torn' = IF sure THEN torn \ {r} ELSE torn
    /\ UNCHANGED <<ex, listed, torrent, media, up, faults, crashes, hit>>

\* A card is made for a row that waits for a person, and expires.
MakeCard(r) ==
    /\ up /\ rows[r].status = "requires_manual" /\ cards' = cards \cup {r}
    /\ UNCHANGED <<rows, ex, listed, torrent, media, up, faults, crashes, hit, torn>>
DropCard(r) ==
    /\ up /\ r \in cards /\ cards' = cards \ {r}
    /\ UNCHANGED <<rows, ex, listed, torrent, media, up, faults, crashes, hit, torn>>

\* delete_local_media_tasks
Delete(r) ==
    /\ up /\ rows[r].status \in Final \cup {"requires_manual"} /\ r \notin cards
    /\ rows' = [rows EXCEPT ![r] = [Unused EXCEPT !.status = "gone"]]
    /\ torn' = torn \ {r}
    /\ UNCHANGED <<ex, listed, cards, torrent, media, up, faults, crashes, hit>>

-----------------------------------------------------------------------------
(* The scheduler: run_once reads the waiting rows and comes to each later.  *)

List ==
    /\ up /\ ex[Scheduler].pc = "idle" /\ listed = {}
    /\ listed' = {r \in Rows : rows[r].status = "waiting"} /\ listed' # {}
    /\ UNCHANGED <<rows, ex, cards, torrent, media, up, faults, crashes, hit, torn>>

Taken(r) == [Idle EXCEPT !.pc = "claimed", !.row = r]

\* _claim_waiting_task: the source is gone, disabled or not accessible (_mark_preclaim_failure).
Refuse(r) ==
    /\ up /\ ex[Scheduler].pc = "idle" /\ r \in listed
    /\ listed' = listed \ {r} /\ Stamp(r, "failed") /\ hit' = Noted(Scheduler, r)
    /\ UNCHANGED <<ex, torrent, media, up, faults, crashes, torn>>

\* claim_local_media_task, a compare-and-set on the status.
ClaimFrom(r) == rows[r].status = "waiting"
Claim(r) ==
    /\ up /\ ex[Scheduler].pc = "idle" /\ r \in listed
    /\ listed' = listed \ {r}
    /\ IF ClaimFrom(r)
       THEN Stamp(r, "recognizing") /\ ex' = [ex EXCEPT ![Scheduler] = Taken(r)]
       ELSE UNCHANGED <<rows, cards, ex>>
    /\ UNCHANGED <<torrent, media, up, faults, crashes, hit, torn>>

\* The claim raises: the row goes through the handler of a failed run (_process_waiting).
ClaimRaises(r) ==
    /\ up /\ ex[Scheduler].pc = "idle" /\ r \in listed /\ Fault
    /\ listed' = listed \ {r}
    /\ ex' = [ex EXCEPT ![Scheduler] = [Taken(r) EXCEPT !.pc = "late"]]
    /\ UNCHANGED <<rows, cards, torrent, media, up, crashes, hit, torn>>

-----------------------------------------------------------------------------
(* A request runs a row at once.                                           *)

\* Mutant: the interrupted write is not looked for.
ReusableUnchecked(r) ==
    /\ ActiveRows = {r} \/ (ActiveRows = {} /\ Latest(r))
    /\ rows[r].status \in {"failed", "requires_manual"}

\* prepare_manual_local_media_task: the row of the path that may be taken, or a new one.
Reusable(r) ==
    /\ ActiveRows = {r} \/ (ActiveRows = {} /\ Latest(r))
    /\ rows[r].status \in {"failed", "requires_manual"} /\ ~rows[r].cut
NothingToReuse == ActiveRows = {} /\ \A r \in Rows : Latest(r) => rows[r].status = "completed"

Prepare(e, r) ==
    /\ up /\ ex[e].pc = "idle"
    /\ \/ Reusable(r) /\ Stamp(r, "waiting")
       \/ /\ NothingToReuse /\ Fresh(r)
          /\ rows' = [rows EXCEPT ![r] = New(FALSE)] /\ UNCHANGED cards
    /\ ex' = [ex EXCEPT ![e] = [Idle EXCEPT !.pc = "prepared", !.row = r, !.kind = "web"]]
    /\ UNCHANGED <<listed, torrent, media, up, faults, crashes, hit, torn>>

ClaimPrepared(e) ==
    /\ up /\ ex[e].pc = "prepared"
    /\ \/ /\ ClaimFrom(ex[e].row) /\ Stamp(ex[e].row, "recognizing") /\ Smooth
          /\ ex' = [ex EXCEPT ![e].pc = "claimed"]
       \/ /\ Fault \/ (~ClaimFrom(ex[e].row) /\ Smooth)
          /\ ex' = [ex EXCEPT ![e] = Idle] /\ UNCHANGED <<rows, cards>>
    /\ UNCHANGED <<listed, torrent, media, up, crashes, hit, torn>>

\* claim_local_media_confirmation_task: status and version have to be those of the card.
ClaimByCard(e, r) ==
    /\ up /\ ex[e].pc = "idle" /\ r \in cards /\ rows[r].status = "requires_manual"
    /\ Stamp(r, "recognizing") /\ torn' = torn \ {r}
    /\ ex' = [ex EXCEPT ![e] = [Taken(r) EXCEPT !.kind = "card"]]
    /\ UNCHANGED <<listed, torrent, media, up, faults, crashes, hit>>

\* The client of qB cannot be made: "execute now" writes the failure itself (or fails to).
NoClient(e) ==
    /\ up /\ ex[e].pc = "claimed" /\ rows[ex[e].row].hash
    /\ IF ex[e].kind = "web"
       THEN /\ ex' = [ex EXCEPT ![e] = Idle]
            /\ \/ Stamp(ex[e].row, "failed") /\ hit' = Noted(e, ex[e].row) /\ Smooth
               \/ Fault /\ UNCHANGED <<rows, cards, hit>>
       ELSE ex' = [ex EXCEPT ![e].pc = "late"] /\ UNCHANGED <<rows, cards, hit, faults>>
    /\ UNCHANGED <<listed, torrent, media, up, crashes, torn>>

-----------------------------------------------------------------------------
(* execute_task.                                                           *)

\* Mutant: a second delivery of a completed task is carried out.
RefusedMissing(r) == rows[r].status = "gone"

\* A finished row, or none: refused before anything is written.
Refused(r) == rows[r].status \in {"completed", "gone"}
Reject(e) ==
    /\ up /\ ex[e].pc = "claimed" /\ LeaseFree /\ Refused(ex[e].row)
    /\ ex' = [ex EXCEPT ![e].pc = "late"]
    /\ UNCHANGED <<rows, listed, cards, torrent, media, up, faults, crashes, hit, torn>>

\* Under the lease: the row is read, the files are inspected and the plan is made anew.
\* It fails, asks a person, ends here (a source that is only previewed), or is carried out.
Begun(e, pc) ==
    [ex EXCEPT ![e] = [@ EXCEPT !.pc = pc, !.hash = rows[ex[e].row].hash, !.at = media]]
Begin(e) ==
    /\ up /\ ex[e].pc = "claimed" /\ LeaseFree /\ ~Refused(ex[e].row)
    /\ \/ ex' = Begun(e, "undo") /\ UNCHANGED <<rows, cards, faults>>
       \/ ex' = Begun(e, "undo") /\ Fault /\ UNCHANGED <<rows, cards>>
       \/ /\ \E s \in {"requires_manual", "completed"} : Stamp(ex[e].row, s)
          /\ ex' = [ex EXCEPT ![e] = Idle] /\ Smooth
       \/ /\ media # "target" /\ Stamp(ex[e].row, "planned")
          /\ ex' = Begun(e, "planned") /\ Smooth
    /\ UNCHANGED <<listed, torrent, media, up, crashes, hit, torn>>

\* "moving" and the pause are one critical section of the qB lease. An answer of the pause
\* may be lost; then the run does not count it as paused.
AfterPause == IF torrent = "gone" THEN "gone" ELSE "paused"
Pause(e) ==
    /\ up /\ ex[e].pc = "planned"
    /\ \/ /\ Stamp(ex[e].row, "writing") /\ Smooth
          /\ torrent' = IF ex[e].hash THEN AfterPause ELSE torrent
          /\ ex' = [ex EXCEPT ![e] = [@ EXCEPT !.pc = "moving", !.paused = ex[e].hash]]
       \/ /\ ex[e].hash /\ Stamp(ex[e].row, "writing") /\ Fault
          /\ torrent' \in {torrent, AfterPause}
          /\ ex' = [ex EXCEPT ![e].pc = "undo"]
       \/ /\ Fault /\ ex' = [ex EXCEPT ![e].pc = "undo"] /\ UNCHANGED <<rows, cards, torrent>>
    /\ UNCHANGED <<listed, media, up, crashes, hit, torn>>

\* LocalMoveTransaction.execute: everything moved, nothing to move, or an exception after a
\* rollback that was complete, that reports its errors, or that lost them: a step record that
\* cannot be written ends the rollback half-way (local_move_transaction.py:709) or replaces
\* the exception that carries its errors (:640). The caller takes the last for a complete rollback.
Incomplete == {"incomplete"}
Move(e) ==
    /\ up /\ ex[e].pc = "moving"
    /\ \/ /\ media' = "target" /\ Smooth
          /\ ex' = [ex EXCEPT ![e] = [@ EXCEPT !.pc = "moved", !.spent = {"committed"}]]
       \/ media' = media /\ ex' = [ex EXCEPT ![e].pc = "moved"] /\ Smooth
       \/ media' = media /\ ex' = [ex EXCEPT ![e].pc = "undo"] /\ Smooth
       \/ /\ media' = "mixed"
          /\ \/ ex' = [ex EXCEPT ![e] = [@ EXCEPT !.pc = "undo", !.spent = Incomplete]] /\ Smooth
             \/ ex' = [ex EXCEPT ![e] = [@ EXCEPT !.pc = "undo", !.dropped = TRUE]] /\ Fault
    /\ UNCHANGED <<rows, listed, cards, torrent, up, crashes, hit, torn>>

\* The torrent is retired without its files. A failure leaves it to the user; one of the
\* database ("verifying") or of the cleanup ends the run.
Retire(e) ==
    /\ up /\ ex[e].pc = "moved"
    /\ \/ /\ Stamp(ex[e].row, "writing") /\ Smooth
          /\ torrent' = IF ex[e].hash THEN "gone" ELSE torrent
          /\ ex' = [ex EXCEPT ![e] = [@ EXCEPT !.pc = "closing",
                         !.spent = ex[e].spent \cup IF ex[e].hash THEN {"retired"} ELSE {}]]
       \/ /\ ex[e].hash /\ Stamp(ex[e].row, "writing") /\ Fault
          /\ torrent' \in {torrent, "gone"}
          /\ ex' = [ex EXCEPT ![e].pc = "closing"]
       \/ /\ Fault /\ ex' = [ex EXCEPT ![e].pc = "undo"] /\ UNCHANGED <<rows, cards, torrent>>
    /\ UNCHANGED <<listed, media, up, crashes, hit, torn>>

\* The final status; a move that left hidden files behind is for a person to look at.
Finish(e) ==
    /\ up /\ ex[e].pc = "closing"
    /\ \/ /\ \/ Stamp(ex[e].row, "completed")
             \/ "committed" \in ex[e].spent /\ Stamp(ex[e].row, "requires_manual")
          /\ ex' = [ex EXCEPT ![e] = Idle] /\ Smooth
       \/ Fault /\ ex' = [ex EXCEPT ![e].pc = "undo"] /\ UNCHANGED <<rows, cards>>
    /\ UNCHANGED <<listed, torrent, media, up, crashes, hit, torn>>

\* What the caller's handler knows of the run: its row, and whether it went too far.
Raised(e) == [ex EXCEPT ![e] = [Idle EXCEPT !.pc = "late", !.row = ex[e].row,
                                            !.kind = ex[e].kind, !.spent = ex[e].spent]]

\* The except clause, still under the lease: after a point of no return the row is for a
\* person, before it the torrent is resumed. Resuming and storing may each fail.
\* Mutant: an incomplete rollback counts as a complete one.
NoReturnFlags(x) == x.spent \cap {"committed", "retired"} # {}

NoReturn(x) == x.spent # {}
Resumes(x) == x.paused /\ ~NoReturn(x)
AfterResume == IF torrent = "gone" THEN "gone" ELSE "running"
Undo(e) ==
    /\ up /\ ex[e].pc = "undo"
    /\ \E unresumed, unstored \in {0, 1} :      \* which of the two calls fails
          /\ Resumes(ex[e]) \/ unresumed = 0
          /\ faults' = faults + unresumed + unstored /\ faults' <= MaxFaults
          /\ torrent' \in IF ~Resumes(ex[e]) THEN {torrent}
                          ELSE {AfterResume} \cup IF unresumed = 1 THEN {torrent} ELSE {}
          /\ IF unstored = 1 THEN UNCHANGED <<rows, cards>>
             ELSE Stamp(ex[e].row, IF NoReturn(ex[e]) THEN "requires_manual" ELSE "failed")
    /\ ex' = Raised(e)
    /\ UNCHANGED <<listed, media, up, crashes, hit, torn>>

-----------------------------------------------------------------------------
(* The handlers of the callers, after the lease was given back.            *)

\* _execute_claimed_task reads the row; _execute_local_media_confirmation only cares for
\* "recognizing"; "execute now" does nothing more.
Unsettled(e) ==
    IF e = Scheduler THEN rows[ex[e].row].status \in Active \ {"requires_manual"}
    ELSE ex[e].kind = "card" /\ rows[ex[e].row].status = "recognizing"
Look(e) ==
    /\ up /\ ex[e].pc = "late"
    /\ ex' = [ex EXCEPT ![e] = IF Unsettled(e) THEN [@ EXCEPT !.pc = "overdue"] ELSE Idle]
    /\ UNCHANGED <<rows, listed, cards, torrent, media, up, faults, crashes, hit, torn>>

\* ... and writes it in a transaction of its own, unconditionally.
Overwrite(e) ==
    /\ up /\ ex[e].pc = "overdue"
    /\ \/ /\ Stamp(ex[e].row, IF NoReturn(ex[e]) THEN "requires_manual" ELSE "failed")
          /\ hit' = Noted(e, ex[e].row) /\ Smooth
       \/ Fault /\ UNCHANGED <<rows, cards, hit>>
    /\ ex' = [ex EXCEPT ![e] = Idle]
    /\ UNCHANGED <<listed, torrent, media, up, crashes, torn>>

-----------------------------------------------------------------------------
(* Crashes and starts, the user's controls of qB, and the files.           *)

InWrite(e) ==
    \/ ex[e].pc \in {"moving", "moved", "closing"}
    \/ ex[e].pc = "undo" /\ (NoReturn(ex[e]) \/ ex[e].dropped)
Crash ==
    /\ up /\ crashes < MaxCrashes /\ crashes' = crashes + 1 /\ up' = FALSE
    /\ media' \in IF \E e \in Execs : ex[e].pc = "moving"
                  THEN {media, "mixed", "target"} ELSE {media}
    /\ torn' = torn \cup {r \in Rows \ hit : \E e \in Execs : Holds(e, r) /\ InWrite(e)}
    /\ ex' = [e \in Execs |-> Idle] /\ listed' = {}
    /\ UNCHANGED <<rows, cards, torrent, faults, hit>>

\* _recover_after_restart, of this service or of another process that opens the database:
\* only if the writer lease is free.
Recovered(row) ==
    CASE row.status \in {"recognizing", "planned"} -> [row EXCEPT !.status = "failed"]
      [] row.status = "writing" -> [row EXCEPT !.status = "requires_manual", !.cut = TRUE]
      [] OTHER -> row
\* Mutant: the recovery does not try the writer lease.
RecoverRegardless == TRUE

MayRecover == LeaseFree
Start ==
    /\ up' = TRUE
    /\ rows' = IF MayRecover THEN [r \in Rows |-> Recovered(rows[r])] ELSE rows
    /\ UNCHANGED <<ex, listed, cards, torrent, media, faults, crashes, hit, torn>>

\* Web, bot and agent controls of qB, each one critical section of the qB lease.
ControlAllowed == ~Conflict
Control ==
    /\ up
    /\ \/ torrent = "running" /\ torrent' = "paused"
       \/ ControlAllowed /\ torrent = "paused" /\ torrent' = "running"
       \/ ControlAllowed /\ torrent # "gone" /\ torrent' = "gone"
    /\ UNCHANGED <<rows, ex, listed, cards, media, up, faults, crashes, hit, torn>>

\* Another program puts new files at a path that was emptied.
Arrive ==
    /\ media = "target" /\ media' = "source"
    /\ UNCHANGED <<rows, ex, listed, cards, torrent, up, faults, crashes, hit, torn>>

Next ==
    \/ Scan \/ Download \/ List \/ Crash \/ Start \/ Control \/ Arrive
    \/ \E r \in Rows :
          \/ \E sure \in BOOLEAN : Retry(r, sure)
          \/ MakeCard(r) \/ DropCard(r) \/ Delete(r)
          \/ Refuse(r) \/ Claim(r) \/ ClaimRaises(r)
          \/ \E e \in Requests : Prepare(e, r) \/ ClaimByCard(e, r)
    \/ \E e \in Execs :
          \/ ClaimPrepared(e) \/ NoClient(e) \/ Reject(e) \/ Begin(e) \/ Pause(e)
          \/ Move(e) \/ Retire(e) \/ Finish(e) \/ Undo(e) \/ Look(e) \/ Overwrite(e)

TasksSpec == Init /\ [][Next]_vars

-----------------------------------------------------------------------------
(* Properties.                                                             *)

\* The type invariant of the rows, the threads, the torrent and the ghosts.
TasksTypeOK ==
    /\ rows \in [Rows -> RowType] /\ ex \in [Execs -> ExecType]
    /\ \A e \in Execs : ex[e].pc # "idle" => ex[e].row \in Rows
    /\ listed \subseteq Rows /\ cards \subseteq Rows /\ hit \subseteq Rows /\ torn \subseteq Rows
    /\ torrent \in {"running", "paused", "gone"} /\ media \in {"source", "target", "mixed"}
    /\ up \in BOOLEAN /\ faults \in Nat /\ crashes \in Nat

\* While files of a torrent are being moved, the torrent does not run: no control and no
\* recovery of another process gets between the pause and the end of the move. Only a row
\* that a belated handler has declared failed loses this protection.
QuietWhileMoving ==
    \A e \in Execs : ex[e].pc = "moving" /\ ex[e].paused /\ ex[e].row \notin hit
                        => torrent # "running"

\* The service itself resumes a torrent only if its files are where they were when the run
\* began: never after a commit, the removal of the torrent, or an incomplete rollback that
\* the move reported. After a move that lost the errors of its rollback it does resume the
\* torrent over half-moved files, so exactly those runs are exempt; that a move should not
\* lose them is FailureIsWhole of LocalMove, which the code violates.
ResumedOnlyUntouched ==
    [][\A e \in Execs : /\ ex[e].pc = "undo" /\ ex'[e].pc # "undo"
                        /\ torrent # "running" /\ torrent' = "running"
                        => media = ex[e].at \/ ex[e].dropped]_vars

\* A completed task is never turned back by a second delivery of it, however many threads
\* claimed it: only a new download restarts it. This is about the refusal under the lease;
\* a belated handler does overwrite a completed row, which hit notes and this exempts.
CompletedStays ==
    [][\A r \in Rows : rows[r].status = "completed"
          => rows'[r].status \in {"completed", "waiting", "gone"} \/ r \in hit']_vars

\* A write that a crash cut off is not taken up again, on any way, before a person agreed to
\* its retry, chose a candidate on a card or removed it.
InterruptedWaits ==
    \A r \in torn : up => rows[r].status = "requires_manual" /\ rows[r].cut
=============================================================================
