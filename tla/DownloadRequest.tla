--------------------------- MODULE DownloadRequest ---------------------------
(***************************************************************************)
(* The download requests of one resource: the rows of download_requests    *)
(* that share its identity keys, the threads that submit them to           *)
(* qBittorrent ("qb") and to the Guangya cloud ("gy"), the tracker that    *)
(* follows the accepted tasks, the recovery of submissions that never      *)
(* reported, and the user who cancels, removes and submits again.          *)
(*                                                                         *)
(* A write transaction of the repository is one step.  Reading a row,      *)
(* calling a downloader and recording its answer are different steps.      *)
(*                                                                         *)
(* Modelled: magnet and torrent requests, whose torrent identity is known. *)
(* Left out: share transfers, the columns of local import, organizing,     *)
(* notifications and admissions, and the wording of errors.                *)
(***************************************************************************)
EXTENDS Naturals, FiniteSets

CONSTANTS
    Submitters,    \* threads that submit: web, bot, RSS, agent
    Requested,     \* the choices of targets a user or a rule can make
    MaxRequests,   \* bound: rows of this resource
    MaxOps,        \* bound: submissions and retries that are started
    MaxTroubles    \* bound: removals by the user, failed transactions, restarts

Backends == {"qb", "gy"}

ASSUME RequestedAssumption == Requested \subseteq (SUBSET Backends) \ {{}}
ASSUME BoundsAssumption ==
    MaxRequests \in Nat \ {0} /\ MaxOps \in Nat /\ MaxTroubles \in Nat

VARIABLES
    made,      \* rows created so far: their ids are 1..made
    req,       \* the rows
    canon,     \* the row that owns the identity keys, 0 before the first
    job,       \* the downloaders' tasks (qB knows one task per torrent)
    thr,       \* the submitting threads
    trk,       \* the tracker's snapshot of a row and of the task lists
    removal,   \* "db" or "remote" while a removal of the qB task is running
    ops, troubles

vars == <<made, req, canon, job, thr, trk, removal, ops, troubles>>
counters == <<ops, troubles>>

Requests == 1 .. MaxRequests
Rows     == 1 .. made

Terminal == {"completed", "failed", "cancelled"}
Tracked  == {"submitted", "downloading", "outcome_unknown"}
Active   == Tracked \cup {"submitting"}
BackendStates == Active \cup Terminal \cup {"", "manual_review", "resubmitted"}
RootStates == {"pending", "submitting", "submitted", "downloading",
               "manual_review", "resubmitted"} \cup Terminal
JobStates == {"absent", "running", "done", "failed"}
Receipts == {"submitted", "outcome_unknown", "failed"}

\* bound: the id of the qB task is recorded.  Which ids the cloud gave, and since
\* when a task is missing, is left to the choices of the tracker.
Row == [root: RootStates, back: [Backends -> BackendStates], bound: BOOLEAN]

NewRow == [root |-> "pending", back |-> [b \in Backends |-> ""], bound |-> FALSE]

\* The tasks of one torrent are one task in qB, whichever row submitted it.
JobOf(r, b) == <<IF b = "qb" THEN 1 ELSE r, b>>

\* r: the row a thread works on; want: the targets it was asked for; todo: the
\* claimed ones not yet reported; src, was: the retried row and its status.
IdleThread == [pc |-> "idle", r |-> 0, want |-> {}, todo |-> {}, via |-> "",
               src |-> 0, was |-> "", got |-> "", ok |-> "no"]

NoSnapshot == [row |-> NewRow, seen |-> [b \in Backends |-> ""]]

-----------------------------------------------------------------------------
(* The stored status of a row.                                             *)

Peer(b) == CHOOSE p \in Backends : p # b
States(back) == {back[b] : b \in Backends} \ {""}

\* Mutant: one refused target settles the request.
SubmissionRootEager(back) ==
    IF "manual_review" \in States(back) THEN "manual_review"
    ELSE IF "failed" \in States(back) THEN "failed"
    ELSE IF "submitting" \in States(back) THEN "submitting"
    ELSE IF States(back) \cap Tracked # {} THEN "submitted" ELSE "completed"

\* The root status finalize_download_request_submission derives.
SubmissionRoot(back) ==
    IF "manual_review" \in States(back) THEN "manual_review"
    ELSE IF "submitting" \in States(back) THEN "submitting"
    ELSE IF States(back) \cap Tracked # {} THEN "submitted"
    ELSE IF "completed" \in States(back) THEN "completed"
    ELSE "failed"

\* Status of a row whose targets T a first submission claims.
Claimed(row, T) ==
    [row EXCEPT !.root = "submitting", !.bound = FALSE,
                !.back = [b \in Backends |-> IF b \in T THEN "submitting" ELSE ""]]

\* The targets among want that a submission may add to a row.
Missing(row, want) == {b \in want : row.back[b] \in {"", "failed"}}

Appendable(row, want) ==
    /\ row.root \notin Terminal \cup {"pending", "resubmitted"}
    /\ \E b \in Backends : row.back[b] \notin {"", "failed"}
    /\ Missing(row, want) # {}

Appended(row, T) ==
    [row EXCEPT !.root = "submitting", !.bound = @ /\ "qb" \notin T,
                !.back = [b \in Backends |-> IF b \in T THEN "submitting" ELSE @[b]]]

\* Only the claim a submission still holds may be settled.
Finalizable(row, b) ==
    row.root \notin {"resubmitted", "cancelled"} /\ row.back[b] = "submitting"

Finalized(row, b, state, bound) ==
    LET back == [row.back EXCEPT ![b] = state]
    IN  [row EXCEPT !.back = back, !.bound = bound, !.root = SubmissionRoot(back)]

\* What settling leaves of a row: a claim that is no longer held is left alone.
Settled(row, b, state, bound) ==
    IF Finalizable(row, b) THEN Finalized(row, b, state, bound) ELSE row

\* Mutant: only the submissions to qB are recovered.
UnfinishedQb(r, due) == {b \in {"qb"} : req[r].back[b] = "submitting" /\ <<r, b>> \in due}

\* The submissions a recovery finds unfinished, given the claims that are due.
Unfinished(r, due) == {b \in Backends : req[r].back[b] = "submitting" /\ <<r, b>> \in due}

\* A root left in submitting by itself is judged by the age of the row alone.
Orphaned(row) == row.root = "submitting" /\ "submitting" \notin States(row.back)

Recovered(r, due) ==
    IF Unfinished(r, due) = {} /\ ~Orphaned(req[r]) THEN req[r]
    ELSE [req[r] EXCEPT !.root = "manual_review",
                        !.back = [b \in Backends |-> IF b \in Unfinished(r, due)
                                                     THEN "manual_review" ELSE @[b]]]

\* The user stopped the qB task a row is bound to.
StoppedRoot(row) ==
    LET gy == row.back["gy"]
    IN  IF row.root = "resubmitted" THEN "resubmitted"
        ELSE IF gy = "outcome_unknown" THEN "downloading"
        ELSE IF gy \in {"", "cancelled", "resubmitted"} THEN "cancelled"
        ELSE gy

Stoppable(row) ==
    /\ row.root # "cancelled" /\ row.bound
    /\ row.back["qb"] \in Active \cup {"manual_review"}

Stopped(row) ==
    IF Stoppable(row)
    THEN [row EXCEPT !.root = StoppedRoot(row), !.back["qb"] = "cancelled"]
    ELSE row

\* A retry took targets T over from a row.
TakenOver(row, T) ==
    LET Over(state) == IF state \in {"failed", "manual_review"} THEN "resubmitted" ELSE state
    IN  [row EXCEPT !.root = Over(@),
                    !.back = [b \in Backends |-> IF b \in T THEN Over(@[b]) ELSE @[b]]]

Store(r, row) == req' = [req EXCEPT ![r] = row]

\* Mutant: the tracker stores what it made of the row it read.
CurrentUnchecked(shot, row) == TRUE

\* The tracker compares the whole row with the one it read before it settles it.
Current(shot, row) == shot.row = row

\* A snapshot of a row that has changed since is refused; it is dropped here when
\* the row changes, which leaves the same rows behind as dropping it when it is
\* applied.
KeepSnapshots ==
    trk' = [r \in Requests |-> IF Current(trk[r], req'[r]) THEN trk[r] ELSE NoSnapshot]

-----------------------------------------------------------------------------
(* Submitting threads.                                                     *)

Become(s, t) == thr' = [thr EXCEPT ![s] = t]
Leave(s) == Become(s, IdleThread)

\* qB is served first.
Turn(t) == IF "qb" \in t.todo THEN "qb" ELSE "gy"

\* Mutant: qB is called and its task removed without the per-torrent lease.
NoLease == TRUE

\* The per-torrent lease of qB: held from the call until the receipt is stored,
\* and by a removal from the stored intent until the remote call returned.
LeaseFree ==
    /\ removal = "idle"
    /\ \A s \in Submitters : ~(thr[s].pc = "record" /\ Turn(thr[s]) = "qb")

\* The root status of the owner of the resource's keys.
OwnerRoot == IF canon = 0 THEN "none" ELSE req[canon].root

\* A submission reads the owner of the resource's keys and decides on that.
Submit(s) ==
    /\ thr[s].pc = "idle" /\ ops < MaxOps
    /\ ops' = ops + 1
    /\ \E want \in Requested :
         LET Go(pc, r, T) ==
                 Become(s, [IdleThread EXCEPT !.pc = pc, !.r = r, !.want = T,
                                              !.via = "persist"])
         IN  \/ OwnerRoot = "none" /\ Go("create", 0, want)
             \/ /\ OwnerRoot \in Terminal /\ Missing(req[canon], want) # {}
                /\ Go("create", 0, Missing(req[canon], want))
             \/ OwnerRoot = "pending" /\ Go("claim", canon, want)
             \/ /\ OwnerRoot \notin Terminal \cup {"none", "pending", "manual_review"}
                /\ Go("append", canon, want)
    /\ UNCHANGED <<made, req, canon, job, trk, removal, troubles>>

\* A new row takes the keys over from a settled owner.
Insert(row) ==
    /\ made < MaxRequests
    /\ made' = made + 1 /\ canon' = made + 1
    /\ req' = [req EXCEPT ![made + 1] = row]

\* create_download_request: an owner that is not settled is returned instead.
Create(s) ==
    /\ thr[s].pc = "create"
    /\ \/ /\ OwnerRoot \notin Terminal \cup {"none"}
          /\ Become(s, [thr[s] EXCEPT !.pc = "claim", !.r = canon])
          /\ UNCHANGED <<made, canon, req>>
       \/ /\ OwnerRoot \in Terminal \cup {"none"}
          /\ Insert(NewRow)
          /\ Become(s, [thr[s] EXCEPT !.pc = "claim", !.r = made + 1])
    /\ UNCHANGED <<job, trk, removal, counters>>

\* Mutant: the claim does not look at the status of the row.
ClaimableTwice(row) == TRUE

\* The claim of a waiting row, once: pending -> submitting.
Claimable(row) == row.root = "pending"

Claim(s) ==
    LET t == thr[s]
    IN  /\ t.pc = "claim"
        /\ \/ /\ Claimable(req[t.r])
              /\ Store(t.r, Claimed(req[t.r], t.want))
              /\ Become(s, [t EXCEPT !.pc = "call", !.todo = t.want])
           \/ /\ ~Claimable(req[t.r]) /\ Leave(s) /\ UNCHANGED req
        /\ KeepSnapshots
        /\ UNCHANGED <<made, canon, job, removal, counters>>

\* The claim of the targets a row has not got yet, or that failed.
Append(s) ==
    LET t == thr[s]
    IN  /\ t.pc = "append"
        /\ \/ /\ Appendable(req[t.r], t.want)
              /\ Store(t.r, Appended(req[t.r], Missing(req[t.r], t.want)))
              /\ Become(s, [t EXCEPT !.pc = "call", !.via = "append",
                                     !.todo = Missing(req[t.r], t.want)])
           \/ /\ ~Appendable(req[t.r], t.want) /\ Leave(s) /\ UNCHANGED req
        /\ KeepSnapshots
        /\ UNCHANGED <<made, canon, job, removal, counters>>

\* What a retry may do according to the row it reads: download_resubmit_capabilities.
Retriable(row, want) ==
    \A b \in want :
        /\ row.back[b] \notin Active \cup {"resubmitted"}
        /\ row.root \in Terminal => row.back[Peer(b)] \notin Active

\* A failed target of a row whose other target is alive is submitted in place.
InPlace(row, want) ==
    \E b \in Backends :
        /\ want = {b} /\ row.root \in {"submitted", "downloading"}
        /\ row.back[b] = "failed" /\ row.back[Peer(b)] \in Tracked \cup {"completed"}

Resubmit(s) ==
    /\ thr[s].pc = "idle" /\ ops < MaxOps
    /\ ops' = ops + 1
    /\ \E src \in Rows, want \in Requested :
         /\ Retriable(req[src], want)
         /\ \/ /\ InPlace(req[src], want)
               /\ Become(s, [IdleThread EXCEPT !.pc = "append", !.r = src, !.want = want])
            \/ /\ ~InPlace(req[src], want)
               /\ Become(s, [IdleThread EXCEPT !.pc = "succeed", !.src = src, !.want = want,
                                               !.was = req[src].root, !.via = "retry"])
    /\ UNCHANGED <<made, req, canon, job, trk, removal, troubles>>

\* The fence of a retry, inside the transaction that creates the successor.
Fence(t) ==
    LET row == req[t.src]
        selected == IF row.root \in Terminal THEN Backends ELSE t.want
    IN  /\ row.root = t.was
        /\ \A b \in selected : row.back[b] \notin Active
        /\ \A b \in t.want : row.back[b] # "resubmitted"

\* A row in manual review is superseded by an explicit retry of itself only.
Supersedes(t) == IF t.was = "manual_review" THEN canon = t.src
                 ELSE OwnerRoot \in Terminal

Succeed(s) ==
    LET t == thr[s]
    IN  /\ t.pc = "succeed"
        /\ \/ /\ Fence(t) /\ Supersedes(t)
              /\ Insert(Claimed(NewRow, t.want))
              /\ Become(s, [t EXCEPT !.pc = "call", !.r = made + 1, !.todo = t.want, !.was = ""])
           \/ /\ ~(Fence(t) /\ Supersedes(t))
              /\ Leave(s) /\ UNCHANGED <<made, canon, req>>
        /\ UNCHANGED <<job, trk, removal, counters>>

\* External: adding a task starts one unless the downloader still has it.
Started(state) == IF state \in {"running", "done"} THEN state ELSE "running"

\* Mutant: a call that timed out is taken for a refusal.
AnswersTimeoutFails(k) ==
    {<<"submitted", Started(job[k])>>, <<"failed", Started(job[k])>>, <<"failed", job[k]>>}

\* The answers a call can get, each with what it left in the downloader.
Answers(k) ==
    {<<"submitted", Started(job[k])>>, <<"outcome_unknown", Started(job[k])>>,
     <<"outcome_unknown", job[k]>>, <<"failed", job[k]>>}

\* The staging directory of a cloud task is bound to the claim before the task exists.
Bindable(row) ==
    /\ row.back["gy"] = "submitting"
    /\ row.root \notin Terminal \cup {"resubmitted"}

\* The call of one downloader; qB's under its lease.
Call(s) ==
    LET t == thr[s]  b == Turn(t)  k == JobOf(t.r, b)
    IN  /\ t.pc = "call"
        /\ b = "qb" => LeaseFree
        /\ \E a \in Answers(k) :
             /\ b = "gy" /\ ~Bindable(req[t.r]) => a[1] = "failed"
             /\ job' = [job EXCEPT ![k] = a[2]]
             /\ Become(s, [t EXCEPT !.pc = "record", !.got = a[1]])
        /\ UNCHANGED <<made, req, canon, trk, removal, counters>>

\* A receipt that finds its claim gone turns the whole result into a late one.
Verdict(t, b) ==
    IF ~Finalizable(req[t.r], b) \/ t.ok = "late" THEN "late"
    ELSE IF t.got = "submitted" THEN "yes" ELSE t.ok

\* Mutant: the loop over the claimed targets runs once too often.
AfterReceiptOnceMore(t, b) ==
    [t EXCEPT !.todo = @ \ {b}, !.ok = Verdict(t, b), !.got = "", !.pc = "call"]

AfterReceipt(t, b) ==
    LET rest == t.todo \ {b}  ok == Verdict(t, b)
        next == [t EXCEPT !.todo = rest, !.ok = ok, !.got = ""]
    IN  IF rest # {} THEN [next EXCEPT !.pc = "call"]
        ELSE IF t.via = "retry" /\ ok = "yes" THEN [next EXCEPT !.pc = "mark"]
        ELSE IdleThread

Record(s) ==
    LET t == thr[s]  b == Turn(t)  row == req[t.r]
    IN  /\ t.pc = "record"
        /\ Store(t.r, Settled(row, b, t.got, row.bound \/ b = "qb"))
        /\ Become(s, AfterReceipt(t, b))
        /\ KeepSnapshots
        /\ UNCHANGED <<made, canon, job, removal, counters>>

\* An exception leaves the dispatcher.  Only the path that created the request
\* for a web, RSS or subscription submission handles it; the others just report.
Escape(s) ==
    \/ /\ thr[s].via = "persist"
       /\ Become(s, [thr[s] EXCEPT !.pc = "handle", !.todo = thr[s].want, !.got = ""])
    \/ Leave(s)

\* The lease of qB cannot be taken: its lock file is out of reach.
LeaseFails(s) ==
    /\ thr[s].pc = "call" /\ Turn(thr[s]) = "qb"
    /\ troubles < MaxTroubles /\ troubles' = troubles + 1
    /\ Escape(s)
    /\ UNCHANGED <<made, req, canon, job, trk, removal, ops>>

\* The receipt's transaction fails; for qB a second one may keep the task's id.
RecordFails(s) ==
    LET t == thr[s]  b == Turn(t)  row == req[t.r]
    IN  /\ t.pc = "record"
        /\ troubles < MaxTroubles /\ troubles' = troubles + 1
        /\ \/ UNCHANGED req
           \/ /\ b = "qb"
              /\ Store(t.r, Settled(row, b, "manual_review", TRUE))
        /\ Escape(s)
        /\ KeepSnapshots
        /\ UNCHANGED <<made, canon, job, removal, ops>>

\* The handler turns each target that is still claimed into manual review; a
\* failing transaction of its own is only logged.
Handle(s) ==
    LET t == thr[s]  b == Turn(t)  row == req[t.r]
    IN  /\ t.pc = "handle"
        /\ \/ Store(t.r, Settled(row, b, "manual_review", row.bound)) /\ UNCHANGED troubles
           \/ troubles < MaxTroubles /\ troubles' = troubles + 1 /\ UNCHANGED req
        /\ IF t.todo = {b} THEN Leave(s) ELSE Become(s, [t EXCEPT !.todo = @ \ {b}])
        /\ KeepSnapshots
        /\ UNCHANGED <<made, canon, job, removal, ops>>

\* The retried row hands its targets over once a downloader accepted the new ones.
Mark(s) ==
    LET t == thr[s]
    IN  /\ t.pc = "mark"
        /\ Store(t.src, TakenOver(req[t.src], t.want))
        /\ Leave(s)
        /\ KeepSnapshots
        /\ UNCHANGED <<made, canon, job, removal, counters>>

-----------------------------------------------------------------------------
(* The user.                                                               *)

\* A request that still waits for its target is cancelled.
CancelPending(r) ==
    /\ req[r].root = "pending"
    /\ Store(r, [req[r] EXCEPT !.root = "cancelled"])
    /\ KeepSnapshots
    /\ UNCHANGED <<made, canon, job, thr, removal, counters>>

\* The removal of the qB task: the intent is stored for every row bound to it ...
RemoveIntent ==
    /\ troubles < MaxTroubles /\ troubles' = troubles + 1
    /\ LeaseFree
    /\ removal' = "remote"
    /\ req' = [r \in Requests |-> IF r \in Rows THEN Stopped(req[r]) ELSE req[r]]
    /\ KeepSnapshots
    /\ UNCHANGED <<made, canon, job, thr, ops>>

\* ... and then the task is deleted, or the deletion is not confirmed.
RemoveTask ==
    /\ removal = "remote" /\ removal' = "idle"
    /\ LET k == JobOf(1, "qb")
       IN  \/ UNCHANGED job
           \/ job' = [job EXCEPT ![k] = "absent"]
    /\ UNCHANGED <<made, req, canon, thr, trk, counters>>

-----------------------------------------------------------------------------
(* The tracker: every 30 seconds it recovers stale submissions, reads the  *)
(* active rows and both task lists, and settles each row by itself.        *)

RecoverWith(due) ==
    req' = [r \in Requests |-> IF r \in Rows THEN Recovered(r, due) ELSE req[r]]

\* Any claims may have become older than 15 minutes since the last round.
RecoverStale ==
    /\ \E due \in SUBSET {c \in Rows \X Backends : req[c[1]].back[c[2]] = "submitting"} :
         RecoverWith(due)
    /\ req' # req
    /\ KeepSnapshots
    /\ UNCHANGED <<made, canon, job, thr, removal, counters>>

\* Mutant: the list goes by the root status alone.
ListedByRoot(row) == row.root \in {"submitting", "submitted", "downloading"}

\* The rows list_active_download_requests returns.
Listed(row) ==
    /\ row.root # "cancelled"
    /\ \/ row.root \in {"submitting", "submitted", "downloading"}
       \/ \E b \in Backends : row.back[b] \in Tracked

\* A row as it was read, and what the task lists had of its tasks then.
Snapshot(r) ==
    [row |-> req[r],
     seen |-> [b \in Backends |-> IF req[r].back[b] \in Tracked THEN job[JobOf(r, b)] ELSE ""]]

TrackRead(r) ==
    /\ trk[r] = NoSnapshot
    /\ Listed(req[r])
    /\ trk' = [trk EXCEPT ![r] = Snapshot(r)]
    /\ UNCHANGED <<made, req, canon, job, thr, removal, counters>>

\* What the row is matched with: the list of the cloud may not name the task of a
\* row, or only a part of its batches.
Matches(shot, b) ==
    IF b = "qb" \/ shot.seen[b] = "absent" THEN {shot.seen[b]}
    ELSE {shot.seen[b], "absent", "partial"}

\* What becomes of a task that is not found: it is waited for until its grace is
\* over.  The cloud's state says meanwhile "downloading" when its ids are known;
\* a cloud submission that may not have happened and left no ids is not waited for.
Unfound(state, b, expired) ==
    IF expired THEN {"manual_review"}
    ELSE {state} \cup (IF b = "gy" THEN {"downloading"} ELSE {})
                 \cup (IF b = "gy" /\ state = "outcome_unknown" THEN {"manual_review"} ELSE {})

Followed(state, b, seen, expired) ==
    CASE seen = "running" -> {"downloading"}
      [] seen = "done"    -> {"completed"}
      [] seen = "failed"  -> {"failed"}
      [] seen = "partial" -> {"manual_review"}
      [] seen = "absent"  -> Unfound(state, b, expired)

\* What a round may make of a target.  A thorough one reads the target's list, and
\* finds the grace of a missing task over.
Outcomes(shot, b, thorough) ==
    LET state == shot.row.back[b]
        After(expired) == UNION {Followed(state, b, m, expired) : m \in Matches(shot, b)}
    IN  IF state \notin Tracked THEN {state}
        ELSE IF thorough THEN After(TRUE)
        ELSE {state} \cup After(TRUE) \cup After(FALSE)

\* Mutant: the tracker revives the root of a row that a retry took over.
TrackerRootRevives(root, back) ==
    LET states == States(back)
    IN  IF "manual_review" \in states THEN "manual_review"
        ELSE IF "submitting" \in states THEN "submitting"
        ELSE IF states # {} /\ states \subseteq Terminal \cup {"resubmitted"}
             THEN IF "completed" \in states THEN "completed"
                  ELSE IF "failed" \in states THEN "failed" ELSE "cancelled"
        ELSE "downloading"

\* The root status the tracker derives; what no rule covers stays.
TrackerRoot(root, back) ==
    LET states == States(back)
    IN  IF root = "resubmitted" THEN root
        ELSE IF "manual_review" \in states THEN "manual_review"
        ELSE IF "submitting" \in states THEN "submitting"
        ELSE IF states # {} /\ states \subseteq Terminal \cup {"resubmitted"}
             THEN IF "completed" \in states THEN "completed"
                  ELSE IF "failed" \in states THEN "failed" ELSE "cancelled"
        ELSE IF states \cap {"downloading", "completed", "outcome_unknown"} # {}
             THEN "downloading"
        ELSE root

\* The row a snapshot leads to, given what became of its targets.
TrackedRow(shot, q, g) ==
    LET back == [b \in Backends |-> IF b = "qb" THEN q ELSE g]
    IN  [shot.row EXCEPT !.back = back, !.root = TrackerRoot(@, back)]

TrackApply(r, thorough) ==
    /\ trk[r] # NoSnapshot
    /\ req[r].root # "cancelled"
    /\ \E q \in Outcomes(trk[r], "qb", thorough), g \in Outcomes(trk[r], "gy", thorough) :
         Store(r, TrackedRow(trk[r], q, g))
    /\ trk' = [trk EXCEPT ![r] = NoSnapshot]
    /\ UNCHANGED <<made, canon, job, thr, removal, counters>>

-----------------------------------------------------------------------------
(* The downloaders and the process.                                        *)

\* External: a task ends, or leaves the downloader's list.
TaskMoves(k) ==
    /\ job[k] = "running"
    /\ \E state \in {"done", "failed", "absent"} : job' = [job EXCEPT ![k] = state]
    /\ UNCHANGED <<made, req, canon, thr, trk, removal, counters>>

\* The process restarts: threads, leases and snapshots are gone, and every
\* submission that was under way is recovered before anything else runs.
Restart ==
    /\ troubles < MaxTroubles /\ troubles' = troubles + 1
    /\ thr' = [s \in Submitters |-> IdleThread]
    /\ trk' = [r \in Requests |-> NoSnapshot]
    /\ removal' = "idle"
    /\ RecoverWith(Requests \X Backends)
    /\ UNCHANGED <<made, canon, job, ops>>

-----------------------------------------------------------------------------
Init ==
    /\ made = 0 /\ canon = 0
    /\ req = [r \in Requests |-> NewRow]
    /\ job = [k \in Requests \X Backends |-> "absent"]
    /\ thr = [s \in Submitters |-> IdleThread]
    /\ trk = [r \in Requests |-> NoSnapshot]
    /\ removal = "idle" /\ ops = 0 /\ troubles = 0

Submission(s) ==
    \/ Submit(s) \/ Create(s) \/ Claim(s) \/ Append(s) \/ Resubmit(s) \/ Succeed(s)
    \/ Call(s) \/ Record(s) \/ LeaseFails(s) \/ RecordFails(s) \/ Handle(s) \/ Mark(s)

Tracking(r) == TrackRead(r) \/ TrackApply(r, FALSE)

Next ==
    \/ \E s \in Submitters : Submission(s)
    \/ \E r \in Rows : CancelPending(r) \/ Tracking(r)
    \/ \E r \in Rows, b \in Backends : TaskMoves(JobOf(r, b))
    \/ RemoveIntent \/ RemoveTask \/ RecoverStale \/ Restart

Spec == Init /\ [][Next]_vars

\* The tracker's thread goes on, and the clock with it: again and again both lists
\* are read after any grace is over.  A submitting thread may hang.
Fairness ==
    /\ WF_vars(RecoverStale)
    /\ \A r \in Requests :
         /\ WF_vars(r \in Rows /\ TrackRead(r))
         /\ SF_vars(r \in Rows /\ TrackApply(r, TRUE))

FairSpec == Spec /\ Fairness

-----------------------------------------------------------------------------
(* Properties.                                                             *)

TypeOK ==
    /\ made \in 0 .. MaxRequests /\ canon \in 0 .. made
    /\ req \in [Requests -> Row]
    /\ job \in [Requests \X Backends -> JobStates]
    /\ \A s \in Submitters :
         /\ thr[s].pc \in {"idle", "create", "claim", "append", "succeed", "call",
                           "record", "handle", "mark"}
         /\ {thr[s].r, thr[s].src} \subseteq 0 .. made
         /\ thr[s].todo \subseteq thr[s].want /\ thr[s].want \subseteq Backends
         /\ thr[s].pc = "record" <=> thr[s].got \in Receipts
         /\ thr[s].pc \in {"call", "record", "handle"} => thr[s].todo # {}
    /\ removal \in {"idle", "remote"}

\* The root status, which lookups, archiving and the tracker's list go by, never
\* says that a request is over while a target is under way, and never says that
\* it is being submitted when no target is.
RootIsTrue ==
    \A r \in Rows :
        /\ req[r].root \in Terminal => States(req[r].back) \cap Active = {}
        /\ ~Orphaned(req[r])

\* A task that a downloader is working on is never recorded as failed or as not
\* submitted in every row that could account for it: those are the states from
\* which the next submission would start a second task without asking.
AcceptedIsKept ==
    \A r \in Rows, b \in Backends :
        job[JobOf(r, b)] = "running" =>
            \E q \in Rows :
                /\ JobOf(q, b) = JobOf(r, b)
                /\ \/ req[q].back[b] \notin {"", "failed"}
                   \/ \E s \in Submitters :
                        thr[s].r = q /\ thr[s].pc = "record" /\ Turn(thr[s]) = b

\* No two threads serve the same target of the same row, however often a recovery
\* takes a claim from a thread that is still at work.
OneCaller ==
    \A s, u \in Submitters :
        s # u /\ {thr[s].pc, thr[u].pc} \subseteq {"call", "record"} /\ thr[s].r = thr[u].r
            => thr[s].todo \cap thr[u].todo = {}

\* At most one row of a resource has a target under way: a duplicate request is
\* dropped per target.
SingleFlight ==
    \A b \in Backends : Cardinality({r \in Rows : req[r].back[b] \in Active}) <= 1

\* A target whose tracking the user stopped is never tracked again: neither by a
\* late receipt, nor by an observation made before, nor by a recovery.
CancelledStays ==
    [][\A r \in Rows : /\ req[r].back["qb"] = "cancelled" => req'[r].back["qb"] = "cancelled"
                       /\ req[r].root = "cancelled" => req'[r] = req[r]]_vars

\* When the user's removal reaches qB, no row tracks the task any more, so its
\* disappearance is not reported as a missing task.
RemovalIsQuiet ==
    [][removal = "remote" /\ job'[JobOf(1, "qb")] # job[JobOf(1, "qb")] /\ removal' = "idle"
         => \A r \in Rows : req[r].back["qb"] \notin Tracked]_vars

\* A row that a retry took over is history: a target that was not taken over may
\* go on, but the root only ever changes to ask for a manual review.
HistoryStays ==
    [][\A r \in Rows : req[r].root = "resubmitted"
                         => req'[r].root \in {"resubmitted", "manual_review"}]_vars

\* A claim does not last for ever, although its thread may hang or fail.
SubmissionSettles ==
    \A r \in Requests, b \in Backends :
        [](req[r].back[b] = "submitting" => <>(req[r].back[b] # "submitting"))

\* A tracked task that has left the downloader's list does not go unnoticed,
\* whatever the root status of its row is.
VanishedIsNoticed ==
    \A r \in Requests, b \in Backends :
        [](r <= made /\ req[r].back[b] \in Tracked /\ job[JobOf(r, b)] = "absent"
             => <>(req[r].back[b] \notin Tracked \/ job[JobOf(r, b)] # "absent"))
=============================================================================
