------------------------ MODULE DownloadCallerProofs ------------------------
(***************************************************************************)
(* What the threads, the tracker and the user do to each other's targets.  *)
(*                                                                         *)
(* No two threads serve the same target of the same row: a thread may be   *)
(* late for ever and a recovery may take its claim, yet nobody can claim   *)
(* the target again, because a target that a thread still serves is in one *)
(* of the statuses a claim is never made of, and leaves them by the        *)
(* receipt of that thread only.  On this rest two other results: a running *)
(* task is never given up by every row that could account for it, and a    *)
(* removal of the qB task finds no row that tracks it.  The last two are   *)
(* about the rows alone: which of them can have a target under way, and    *)
(* what is final for a target.                                             *)
(***************************************************************************)
EXTENDS DownloadRequestProofs, FiniteSetTheorems

-----------------------------------------------------------------------------
(* What one step does to the rows, the threads and the downloaders' tasks. *)

Withdrawn(row) == [row EXCEPT !.root = "cancelled"]

\* The writes that can change a stored row.
Written(row, new) ==
    \/ new = row
    \/ row.root = "pending" /\ \E T \in SUBSET Backends : new = Claimed(row, T)
    \/ row.root = "pending" /\ new = Withdrawn(row)
    \/ \E want \in SUBSET Backends : /\ Appendable(row, want)
                                     /\ new = Appended(row, Missing(row, want))
    \/ \E b \in Backends, bound \in BOOLEAN :
         (row.bound => bound) /\ new = Settled(row, b, "manual_review", bound)
    \/ \E T \in SUBSET Backends : new = TakenOver(row, T)
    \/ new = Stopped(row)

\* The writes that depend on more than the row: a receipt, a recovery, a round of the tracker.
Receipt(t, row) == Settled(row, Turn(t), t.got, row.bound \/ Turn(t) = "qb")

Reported(r) ==
    \E s \in Submitters : Record(s) /\ thr[s].r = r /\ req'[r] = Receipt(thr[s], req[r])

Observed(r) ==
    /\ trk[r] # NoSnapshot /\ trk'[r] = NoSnapshot
    /\ \E q \in Outcomes(trk[r], "qb", FALSE), g \in Outcomes(trk[r], "gy", FALSE) :
         req'[r] = TrackedRow(trk[r], q, g)

LEMMA StoredRow ==
  ASSUME RowsOK, WorldOK, NEW x \in Rows, NEW row, Store(x, row), NEW r \in Rows
  PROVE  req'[r] = IF r = x THEN row ELSE req[r]
  BY RowsOfRequests DEF Store, RowsOK

LEMMA InsertedRow ==
  ASSUME RowsOK, WorldOK, NEW row, Insert(row), NEW r \in Rows
  PROVE  req'[r] = req[r]
  BY RowsOfRequests DEF Insert, RowsOK, Rows

LEMMA RecordWrites ==
  ASSUME IInv, NEW s \in Submitters, Record(s), NEW r \in Rows
  PROVE  req'[r] = IF r = thr[s].r THEN Receipt(thr[s], req[r]) ELSE req[r]
  <1>1. Store(thr[s].r, Receipt(thr[s], req[thr[s].r])) /\ thr[s].r \in Rows
    BY AtWork DEF Record, Receipt
  <1>. QED
    BY <1>1, StoredRow DEF IInv

LEMMA QuietWrites ==
  ASSUME IInv, NEW s \in Submitters, NEW r \in Rows,
         \/ Submit(s) \/ Create(s) \/ Claim(s) \/ Append(s) \/ Resubmit(s) \/ Succeed(s)
         \/ Call(s) \/ LeaseFails(s) \/ RecordFails(s) \/ Handle(s) \/ Mark(s)
  PROVE  Written(req[r], req'[r])
  <1>. DEFINE t == thr[s]
              b == Turn(t)
  <1>0. RowsOK /\ WorldOK
    BY DEF IInv
  <1>1. t.pc \notin {"idle", "create", "succeed"} =>
           t.r \in Rows /\ t.want \in SUBSET Backends /\ t \in Thread
    BY AtWork
  <1>2. t.pc \in {"record", "handle"} => b \in Backends
    BY <1>1, AtWork, TurnOf DEF ThreadOK
  <1>3. CASE Submit(s) \/ Resubmit(s) \/ Call(s) \/ LeaseFails(s)
    BY <1>3 DEF Submit, Resubmit, Call, LeaseFails, Written
  <1>4. CASE Create(s) \/ Succeed(s)
    <2>1. req'[r] = req[r]
      BY <1>0, <1>4, InsertedRow DEF Create, Succeed
    <2>. QED
      BY <2>1 DEF Written
  <1>5. CASE Claim(s)
    <2>1. UNCHANGED req \/ (req[t.r].root = "pending" /\ Store(t.r, Claimed(req[t.r], t.want)))
      BY <1>5 DEF Claim, Claimable
    <2>. QED
      BY <1>0, <1>1, <1>5, <2>1, StoredRow DEF Written, Claim
  <1>6. CASE Append(s)
    <2>1. \/ UNCHANGED req
          \/ /\ Appendable(req[t.r], t.want)
             /\ Store(t.r, Appended(req[t.r], Missing(req[t.r], t.want)))
      BY <1>6 DEF Append
    <2>2. t.r \in Rows /\ t.want \in SUBSET Backends
      BY <1>1, <1>6 DEF Append
    <2>3. \/ req'[r] = req[r]
          \/ /\ Appendable(req[r], t.want)
             /\ req'[r] = Appended(req[r], Missing(req[r], t.want))
      BY <1>0, <2>1, <2>2, StoredRow
    <2>. QED
      BY <2>2, <2>3 DEF Written
  <1>7. CASE RecordFails(s)
    <2>1. UNCHANGED req \/ Store(t.r, Settled(req[t.r], b, "manual_review", TRUE))
      BY <1>7 DEF RecordFails
    <2>2. t.r \in Rows /\ b \in Backends
      BY <1>1, <1>2, <1>7 DEF RecordFails
    <2>3. req'[r] = req[r] \/ req'[r] = Settled(req[r], b, "manual_review", TRUE)
      BY <1>0, <2>1, <2>2, StoredRow
    <2>. QED
      BY <2>2, <2>3 DEF Written
  <1>8. CASE Handle(s)
    <2>1. UNCHANGED req \/ Store(t.r, Settled(req[t.r], b, "manual_review", req[t.r].bound))
      BY <1>8 DEF Handle
    <2>2. t.r \in Rows /\ b \in Backends /\ req[r].bound \in BOOLEAN
      BY <1>0, <1>1, <1>2, <1>8, RowsOfRequests, RowParts DEF Handle, RowsOK
    <2>3. req'[r] = req[r] \/ req'[r] = Settled(req[r], b, "manual_review", req[r].bound)
      BY <1>0, <2>1, <2>2, StoredRow
    <2>. QED
      BY <2>2, <2>3 DEF Written
  <1>9. CASE Mark(s)
    <2>1. Store(t.src, TakenOver(req[t.src], t.want)) /\ t.src \in Rows
      BY <1>0, <1>9, AtWork, RowsOfRequests DEF Mark, ThreadOK
    <2>. QED
      BY <1>0, <1>1, <1>9, <2>1, StoredRow DEF Written, Mark
  <1>. QED
    BY <1>3, <1>4, <1>5, <1>6, <1>7, <1>8, <1>9

LEMMA StepWrites ==
  ASSUME IInv, [Next]_vars, NEW r \in Rows
  PROVE  \/ Written(req[r], req'[r]) \/ Reported(r) \/ Observed(r)
         \/ \E due : req'[r] = Recovered(r, due)
  <1>0. RowsOK /\ WorldOK /\ r \in Requests
    BY RowsOfRequests DEF IInv
  <1>1. ASSUME NEW s \in Submitters, Submission(s) PROVE Written(req[r], req'[r]) \/ Reported(r)
    BY <1>1, QuietWrites, RecordWrites DEF Submission, Reported, Written
  <1>2. ASSUME NEW x \in Rows, CancelPending(x) PROVE Written(req[r], req'[r])
    <2>1. req'[r] = req[r] \/ (req[r].root = "pending" /\ req'[r] = Withdrawn(req[r]))
      BY <1>0, <1>2, StoredRow DEF CancelPending, Withdrawn
    <2>. QED
      BY <2>1 DEF Written
  <1>3. ASSUME NEW x \in Rows, TrackApply(x, FALSE) PROVE Written(req[r], req'[r]) \/ Observed(r)
    <2>1. PICK q \in Outcomes(trk[x], "qb", FALSE), g \in Outcomes(trk[x], "gy", FALSE) :
             Store(x, TrackedRow(trk[x], q, g))
      BY <1>3 DEF TrackApply
    <2>2. req'[r] = IF r = x THEN TrackedRow(trk[x], q, g) ELSE req[r]
      BY <1>0, <2>1, StoredRow
    <2>3. trk[x] # NoSnapshot /\ (r = x => trk'[r] = NoSnapshot)
      BY <1>0, <1>3 DEF TrackApply, IInv, SnapshotsOK
    <2>. QED
      BY <2>2, <2>3 DEF Observed, Written
  <1>4. CASE RemoveIntent
    BY <1>0, <1>4 DEF RemoveIntent, Written
  <1>5. CASE RecoverStale \/ Restart
    BY <1>0, <1>5 DEF RecoverStale, Restart, RecoverWith
  <1>6. CASE UNCHANGED req
    BY <1>6 DEF Written
  <1>. QED
    BY <1>1, <1>2, <1>3, <1>4, <1>5, <1>6
       DEF Next, Tracking, TrackRead, TaskMoves, RemoveTask, vars

\* Where a thread goes that neither takes, calls nor settles a target.
LEMMA QuietThread ==
  ASSUME IInv, NEW s \in Submitters,
         \/ Submit(s) \/ Create(s) \/ Resubmit(s) \/ LeaseFails(s) \/ RecordFails(s)
         \/ Handle(s) \/ Mark(s)
  PROVE  \E t : Become(s, t) /\ t.pc \notin {"call", "record"}
  <1>1. CASE Submit(s)
    <2>. DEFINE To(pc, r, T) == [IdleThread EXCEPT !.pc = pc, !.r = r, !.want = T, !.via = "persist"]
    <2>1. \E pc \in {"create", "claim", "append"} : \E r, T : Become(s, To(pc, r, T))
      BY <1>1 DEF Submit
    <2>2. \A pc, r, T : To(pc, r, T).pc = pc
      BY DEF IdleThread
    <2>. HIDE DEF To
    <2>. QED
      BY <2>1, <2>2
  <1>2. CASE Resubmit(s)
    <2>. DEFINE There(src, want) == [IdleThread EXCEPT !.pc = "append", !.r = src, !.want = want]
                Anew(src, want) == [IdleThread EXCEPT !.pc = "succeed", !.src = src, !.want = want,
                                                      !.was = req[src].root, !.via = "retry"]
    <2>1. \E src, want : Become(s, There(src, want)) \/ Become(s, Anew(src, want))
      BY <1>2 DEF Resubmit
    <2>2. \A src, want : There(src, want).pc = "append" /\ Anew(src, want).pc = "succeed"
      BY DEF IdleThread
    <2>. HIDE DEF There, Anew
    <2>. QED
      BY <2>1, <2>2
  <1>3. CASE Create(s)
    <2>1. \E r : Become(s, [thr[s] EXCEPT !.pc = "claim", !.r = r])
      BY <1>3 DEF Create
    <2>2. \A r : [thr[s] EXCEPT !.pc = "claim", !.r = r].pc = "claim"
      BY DEF IInv, ThreadsOK, Thread
    <2>. QED
      BY <2>1, <2>2
  <1>4. CASE Leave(s)
    <2>1. IdleThread.pc = "idle"
      BY DEF IdleThread
    <2>. QED
      BY <1>4, <2>1 DEF Leave
  <1>5. CASE LeaseFails(s) \/ RecordFails(s)
    <2>. DEFINE next == [thr[s] EXCEPT !.pc = "handle", !.todo = thr[s].want, !.got = ""]
    <2>1. Become(s, next) \/ Leave(s)
      BY <1>5 DEF LeaseFails, RecordFails, Escape
    <2>2. next.pc = "handle"
      BY DEF IInv, ThreadsOK, Thread
    <2>. HIDE DEF next
    <2>. QED
      BY <1>4, <2>1, <2>2
  <1>6. CASE Handle(s)
    <2>. DEFINE next == [thr[s] EXCEPT !.todo = @ \ {Turn(thr[s])}]
    <2>1. Become(s, next) \/ Leave(s)
      BY <1>6 DEF Handle
    <2>2. next.pc = "handle"
      BY <1>6 DEF Handle, IInv, ThreadsOK, Thread
    <2>. HIDE DEF next
    <2>. QED
      BY <1>4, <2>1, <2>2
  <1>. QED
    BY <1>1, <1>2, <1>3, <1>4, <1>5, <1>6 DEF Mark

\* A thread takes targets that no row accounts for, or calls, or stores the receipt of
\* the target it called, or is not at a downloader.
Takes(t) ==
    /\ t.pc = "call"
    /\ \/ t.r \notin Rows
       \/ \A b \in t.todo : req[t.r].back[b] \in {"", "failed"}

Calls(s) ==
    \E a \in Answers(JobOf(thr[s].r, Turn(thr[s]))) :
        /\ thr[s].pc = "call" /\ (Turn(thr[s]) = "qb" => LeaseFree)
        /\ job' = [job EXCEPT ![JobOf(thr[s].r, Turn(thr[s]))] = a[2]]
        /\ thr'[s] = [thr[s] EXCEPT !.pc = "record", !.got = a[1]]

NextCall(t, next) ==
    /\ t.pc = "record" /\ next.pc = "call" /\ next.r = t.r /\ next.todo = t.todo \ {Turn(t)}

LEMMA SubmissionMoves ==
  ASSUME IInv, NEW s \in Submitters, Submission(s)
  PROVE  \/ thr'[s].pc \notin {"call", "record"} \/ Takes(thr'[s])
         \/ Calls(s) \/ NextCall(thr[s], thr'[s])
  <1>. DEFINE t == thr[s]
  <1>0. t \in Thread /\ thr \in [Submitters -> Thread]
    BY DEF IInv, ThreadsOK
  <1>1. \A next : Become(s, next) => thr'[s] = next
    BY <1>0 DEF Become
  <1>2. Leave(s) => thr'[s].pc = "idle"
    <2>1. IdleThread.pc = "idle"
      BY DEF IdleThread
    <2>. QED
      BY <1>1, <2>1 DEF Leave
  <1>3. t.pc \notin {"idle", "create", "succeed"} => t.r \in Rows /\ req[t.r] \in Row /\ RowOK(req[t.r])
    BY AtWork
  <1>4. ASSUME NEW next, Become(s, next), next.pc \notin {"call", "record"}
        PROVE  thr'[s].pc \notin {"call", "record"}
    BY <1>1, <1>4
  <1>5. CASE Submit(s) \/ Resubmit(s) \/ Create(s) \/ LeaseFails(s) \/ RecordFails(s) \/ Handle(s) \/ Mark(s)
    BY <1>0, <1>4, <1>5, QuietThread
  <1>6. CASE Claim(s)
    <2>. DEFINE next == [t EXCEPT !.pc = "call", !.todo = t.want]
    <2>1. next.pc = "call" /\ next.r = t.r /\ next.todo = t.want /\ t.want \subseteq Backends
      BY <1>0 DEF Thread
    <2>2. Leave(s) \/ (Claimable(req[t.r]) /\ Become(s, next))
      BY <1>6 DEF Claim
    <2>3. Claimable(req[t.r]) => \A b \in Backends : req[t.r].back[b] = ""
      BY <1>3, <1>6 DEF Claim, Claimable, RowOK, Backends
    <2>. HIDE DEF next
    <2>. QED
      BY <1>1, <1>2, <2>1, <2>2, <2>3 DEF Takes
  <1>7. CASE Append(s)
    <2>. DEFINE T == Missing(req[t.r], t.want)
                next == [t EXCEPT !.pc = "call", !.via = "append", !.todo = T]
    <2>1. next.pc = "call" /\ next.r = t.r /\ next.todo = T
      BY <1>0 DEF Thread
    <2>2. Leave(s) \/ Become(s, next)
      BY <1>7 DEF Append
    <2>3. \A b \in T : req[t.r].back[b] \in {"", "failed"}
      BY DEF Missing
    <2>. HIDE DEF next, T
    <2>. QED
      BY <1>1, <1>2, <2>1, <2>2, <2>3 DEF Takes
  <1>8. CASE Succeed(s)
    <2>. DEFINE next == [t EXCEPT !.pc = "call", !.r = made + 1, !.todo = t.want, !.was = ""]
    <2>1. next.pc = "call" /\ next.r = made + 1
      BY <1>0 DEF Thread
    <2>2. Leave(s) \/ Become(s, next)
      BY <1>8 DEF Succeed
    <2>3. made + 1 \notin Rows
      BY RowsOfRequests DEF IInv, Rows
    <2>. HIDE DEF next
    <2>. QED
      BY <1>1, <1>2, <2>1, <2>2, <2>3 DEF Takes
  <1>9. CASE Call(s)
    <2>1. PICK a \in Answers(JobOf(t.r, Turn(t))) :
            /\ job' = [job EXCEPT ![JobOf(t.r, Turn(t))] = a[2]]
            /\ Become(s, [t EXCEPT !.pc = "record", !.got = a[1]])
      BY <1>9 DEF Call
    <2>2. thr'[s] = [t EXCEPT !.pc = "record", !.got = a[1]]
      BY <1>1, <2>1
    <2>3. t.pc = "call" /\ (Turn(t) = "qb" => LeaseFree)
      BY <1>9 DEF Call
    <2>. QED
      BY <2>1, <2>2, <2>3 DEF Calls
  <1>10. CASE Record(s)
    <2>. DEFINE after == AfterReceipt(t, Turn(t))
    <2>1. after.pc \in {"call", "record"} =>
             after.pc = "call" /\ after.r = t.r /\ after.todo = t.todo \ {Turn(t)}
      BY <1>0 DEF AfterReceipt, IdleThread, Thread
    <2>2. thr'[s] = after /\ t.pc = "record"
      BY <1>1, <1>10 DEF Record
    <2>. HIDE DEF after
    <2>. QED
      BY <2>1, <2>2 DEF NextCall
  <1>. QED
    BY <1>5, <1>6, <1>7, <1>8, <1>9, <1>10 DEF Submission

LEMMA StepMoves ==
  ASSUME IInv, [Next]_vars, NEW u \in Submitters
  PROVE  \/ thr'[u] = thr[u] \/ thr'[u].pc \notin {"call", "record"} \/ Takes(thr'[u])
         \/ Calls(u) \/ NextCall(thr[u], thr'[u])
  <1>1. ASSUME NEW s \in Submitters, Submission(s), s # u PROVE thr'[u] = thr[u]
    <2>1. \E next : Become(s, next)
      BY <1>1 DEF Submission, Submit, Create, Claim, Append, Resubmit, Succeed, Call, Record,
                  LeaseFails, RecordFails, Handle, Mark, Escape, Leave
    <2>. QED
      BY <1>1, <2>1 DEF Become, IInv, ThreadsOK
  <1>2. CASE Restart
    BY <1>2 DEF Restart, IdleThread
  <1>3. CASE UNCHANGED thr
    BY <1>3
  <1>4. ASSUME ~Restart, ~UNCHANGED thr PROVE \E s \in Submitters : Submission(s)
    BY <1>4 DEF Next, CancelPending, Tracking, TrackRead, TrackApply, TaskMoves, RemoveIntent,
                RemoveTask, RecoverStale, vars
  <1>. QED
    BY <1>1, <1>2, <1>3, <1>4, SubmissionMoves

\* A snapshot is kept, dropped, or taken.
LEMMA StepReads ==
  ASSUME IInv, [Next]_vars, NEW r \in Requests
  PROVE  trk'[r] \in {trk[r], NoSnapshot, Snapshot(r)}
  <1>1. CASE KeepSnapshots
    BY <1>1 DEF KeepSnapshots
  <1>2. CASE UNCHANGED trk
    BY <1>2
  <1>3. CASE Restart
    BY <1>3 DEF Restart
  <1>4. ASSUME NEW x \in Rows, TrackRead(x) \/ TrackApply(x, FALSE)
        PROVE  trk'[r] \in {trk[r], NoSnapshot, Snapshot(r)}
    BY <1>4 DEF TrackRead, TrackApply, IInv, SnapshotsOK
  <1>5. KeepSnapshots \/ UNCHANGED trk \/ Restart
          \/ \E x \in Rows : TrackRead(x) \/ TrackApply(x, FALSE)
    <2>1. ASSUME NEW s \in Submitters, Submission(s) PROVE KeepSnapshots \/ UNCHANGED trk
      BY <2>1 DEF Submission, Submit, Create, Claim, Append, Resubmit, Succeed, Call, Record,
                  LeaseFails, RecordFails, Handle, Mark
    <2>. QED
      BY <2>1 DEF Next, CancelPending, Tracking, TaskMoves, RemoveIntent, RemoveTask,
                  RecoverStale, vars
  <1>. QED
    BY <1>1, <1>2, <1>3, <1>4, <1>5

\* Only a call starts a task.
LEMMA StepStarts ==
  ASSUME IInv, [Next]_vars, NEW k \in Requests \X Backends,
         job'[k] = "running", job[k] # "running"
  PROVE  \E s \in Submitters :
            /\ thr[s].pc = "call" /\ thr[s].r \in Rows /\ k = JobOf(thr[s].r, Turn(thr[s]))
            /\ \E got \in {"submitted", "outcome_unknown"} :
                 thr'[s] = [thr[s] EXCEPT !.pc = "record", !.got = got]
  <1>1. ASSUME NEW x, TaskMoves(x) PROVE FALSE
    BY <1>1 DEF TaskMoves, IInv, WorldOK
  <1>2. ASSUME RemoveTask PROVE FALSE
    BY <1>2 DEF RemoveTask, IInv, WorldOK
  <1>3. ASSUME UNCHANGED job PROVE FALSE
    BY <1>3
  <1>4. \E s \in Submitters : Call(s)
    <2>1. ASSUME NEW s \in Submitters, Submission(s) PROVE Call(s)
      BY <1>3, <2>1 DEF Submission, Submit, Create, Claim, Append, Resubmit, Succeed, Record,
                  LeaseFails, RecordFails, Handle, Mark, counters
    <2>2. ~RecoverStale /\ ~RemoveIntent /\ ~Restart /\ ~UNCHANGED vars
      BY <1>3 DEF RecoverStale, RemoveIntent, Restart, vars
    <2>3. \A r \in Rows : ~CancelPending(r) /\ ~Tracking(r)
      BY <1>3 DEF CancelPending, Tracking, TrackRead, TrackApply
    <2>. QED
      BY <1>1, <1>2, <2>1, <2>2, <2>3 DEF Next
  <1>5. PICK s \in Submitters : Call(s)
    BY <1>4
  <1>. DEFINE c == JobOf(thr[s].r, Turn(thr[s]))
  <1>6. PICK a \in Answers(c) :
          job' = [job EXCEPT ![c] = a[2]] /\ Become(s, [thr[s] EXCEPT !.pc = "record", !.got = a[1]])
    BY <1>5 DEF Call
  <1>7. k = c /\ a[2] = "running"
    BY <1>6 DEF IInv, WorldOK
  <1>8. a[1] \in {"submitted", "outcome_unknown"}
    BY <1>7 DEF Answers
  <1>9. thr'[s] = [thr[s] EXCEPT !.pc = "record", !.got = a[1]]
    BY <1>6 DEF Become, IInv, ThreadsOK
  <1>10. thr[s].pc = "call" /\ thr[s].r \in Rows
    BY <1>5, AtWork DEF Call
  <1>. QED
    BY <1>7, <1>8, <1>9, <1>10

-----------------------------------------------------------------------------
(* What a thread serves.                                                   *)

\* The statuses no claim is made of and only a receipt leads out of.
Held == {"submitting", "manual_review", "cancelled", "resubmitted"}

StaysHeld(row, new) == \A b \in Backends : row.back[b] \in Held => new.back[b] \in Held

RowsHeld == \A r \in Rows : StaysHeld(req[r], req'[r])

Serves(t, r, b) == t.pc \in {"call", "record"} /\ t.r = r /\ b \in t.todo

ServedHeld ==
    \A s \in Submitters, r \in Requests, b \in Backends :
        Serves(thr[s], r, b) => req[r].back[b] \in Held

ServedAlone ==
    \A s, u \in Submitters, r \in Requests, b \in Backends :
        Serves(thr[s], r, b) /\ Serves(thr[u], r, b) => s = u

CInv == ServedHeld /\ ServedAlone

-----------------------------------------------------------------------------
(* What the writes do to a target that is held.                            *)

LEMMA SettledHeld ==
  ASSUME NEW row \in Row, NEW b \in Backends, NEW state, NEW bound,
         NEW c \in Backends, c # b \/ state \in Held, row.back[c] \in Held
  PROVE  Settled(row, b, state, bound).back[c] \in Held
  <1>1. CASE ~Finalizable(row, b)
    BY <1>1 DEF Settled
  <1>2. CASE Finalizable(row, b)
    <2>. DEFINE back == [row.back EXCEPT ![b] = state]
    <2>1. Settled(row, b, state, bound).back = back
      BY <1>2 DEF Settled, Finalized, Row
    <2>2. back[c] = IF c = b THEN state ELSE row.back[c]
      BY RowParts
    <2>. QED
      BY <2>1, <2>2
  <1>. QED
    BY <1>1, <1>2

LEMMA StoppedHeld == ASSUME NEW row \in Row PROVE StaysHeld(row, Stopped(row))
  <1>1. CASE ~Stoppable(row)
    BY <1>1 DEF Stopped, StaysHeld
  <1>2. CASE Stoppable(row)
    <2>1. Stopped(row).back = [row.back EXCEPT !["qb"] = "cancelled"]
      BY <1>2 DEF Stopped, Row
    <2>. QED
      BY <2>1, RowParts DEF StaysHeld, Held
  <1>. QED
    BY <1>1, <1>2

LEMMA TakenOverHeld == ASSUME NEW row \in Row, NEW T PROVE StaysHeld(row, TakenOver(row, T))
  BY DEF TakenOver, Row, StaysHeld, Held

LEMMA AppendedHeld == ASSUME NEW row \in Row, NEW T PROVE StaysHeld(row, Appended(row, T))
  BY DEF Appended, Row, StaysHeld, Held

LEMMA RecoveredHeld ==
  ASSUME NEW r, req[r] \in Row, NEW due
  PROVE  StaysHeld(req[r], Recovered(r, due))
  BY DEF Recovered, Row, StaysHeld, Held

LEMMA TrackedHeld ==
  ASSUME NEW shot, shot.row \in Row, NEW thorough,
         NEW q \in Outcomes(shot, "qb", thorough), NEW g \in Outcomes(shot, "gy", thorough)
  PROVE  StaysHeld(shot.row, TrackedRow(shot, q, g))
  <1>1. /\ shot.row.back["qb"] \in Held => q = shot.row.back["qb"]
        /\ shot.row.back["gy"] \in Held => g = shot.row.back["gy"]
    BY DEF Outcomes, Tracked, Held
  <1>2. TrackedRow(shot, q, g).back = [b \in Backends |-> IF b = "qb" THEN q ELSE g]
    BY DEF TrackedRow, Row
  <1>. QED
    BY <1>1, <1>2 DEF StaysHeld, Backends

LEMMA WrittenHeld ==
  ASSUME NEW row \in Row, RowOK(row), NEW new, Written(row, new)
  PROVE  StaysHeld(row, new)
  <1>1. row.root = "pending" => \A b \in Backends : row.back[b] \notin Held
    BY DEF RowOK, Backends, Held
  <1>2. CASE new = row
    BY <1>2 DEF StaysHeld
  <1>3. CASE row.root = "pending"
    BY <1>1, <1>3 DEF StaysHeld
  <1>4. (\E b \in Backends, bound \in BOOLEAN : new = Settled(row, b, "manual_review", bound))
           => StaysHeld(row, new)
    BY SettledHeld DEF StaysHeld, Held
  <1>5. (\E want \in SUBSET Backends : new = Appended(row, Missing(row, want))) => StaysHeld(row, new)
    BY AppendedHeld
  <1>6. (\E T \in SUBSET Backends : new = TakenOver(row, T)) => StaysHeld(row, new)
    BY TakenOverHeld
  <1>7. new = Stopped(row) => StaysHeld(row, new)
    BY StoppedHeld
  <1>. QED
    BY <1>2, <1>3, <1>4, <1>5, <1>6, <1>7 DEF Written

LEMMA StoreHeld ==
  ASSUME RowsOK, WorldOK, NEW r \in Rows, NEW row, StaysHeld(req[r], row), Store(r, row)
  PROVE  RowsHeld
  <1>1. \A x \in Rows : req'[x] = IF x = r THEN row ELSE req[x]
    BY RowsOfRequests DEF Store, RowsOK
  <1>. QED
    BY <1>1 DEF RowsHeld, StaysHeld

LEMMA SameHeld == ASSUME \A r \in Rows : req'[r] = req[r] PROVE RowsHeld
  BY DEF RowsHeld, StaysHeld

-----------------------------------------------------------------------------
(* The steps.                                                              *)

\* A thread serves an existing row.
LEMMA ServedRow ==
  ASSUME IInv, NEW s \in Submitters, NEW r, NEW b, Serves(thr[s], r, b)
  PROVE  r \in Rows
  BY AtWork DEF Serves

\* Nobody serves a target that a claim can be made of.
LEMMA Unserved ==
  ASSUME CInv, NEW r \in Requests, NEW b \in Backends, req[r].back[b] \notin Held
  PROVE  \A u \in Submitters : ~Serves(thr[u], r, b)
  BY DEF CInv, ServedHeld

\* A step of one thread: it keeps what it serves, or takes what nobody served.
LEMMA ServingOK ==
  ASSUME IInv, CInv, NEW s \in Submitters, NEW t, Become(s, t),
         \A r \in Requests, b \in Backends : Serves(t, r, b) =>
            /\ req'[r].back[b] \in Held
            /\ Serves(thr[s], r, b) \/ \A u \in Submitters : ~Serves(thr[u], r, b),
         \A u \in Submitters, r \in Requests, b \in Backends :
            u # s /\ Serves(thr[u], r, b) => req'[r].back[b] \in Held
  PROVE  CInv'
  <1>1. \A u \in Submitters : thr'[u] = IF u = s THEN t ELSE thr[u]
    BY DEF Become, IInv, ThreadsOK
  <1>2. ServedHeld'
    <2>1. ASSUME NEW u \in Submitters, NEW r \in Requests, NEW b \in Backends, Serves(thr'[u], r, b)
          PROVE  req'[r].back[b] \in Held
      BY <1>1, <2>1
    <2>. QED
      BY <2>1 DEF ServedHeld, Requests, Serves
  <1>3. ServedAlone'
    <2>1. ASSUME NEW u \in Submitters, NEW v \in Submitters, NEW r \in Requests, NEW b \in Backends,
                 Serves(thr'[u], r, b), Serves(thr'[v], r, b)
          PROVE  u = v
      BY <1>1, <2>1 DEF CInv, ServedAlone
    <2>. QED
      BY <2>1 DEF ServedAlone, Requests, Serves
  <1>. QED
    BY <1>2, <1>3 DEF CInv

\* A step of a thread that is not, or no longer, at a downloader.
LEMMA QuietOK ==
  ASSUME IInv, CInv, NEW s \in Submitters, NEW t, Become(s, t),
         t.pc \notin {"call", "record"}, RowsHeld
  PROVE  CInv'
  <1>1. \A r \in Requests, b \in Backends : ~Serves(t, r, b)
    BY DEF Serves
  <1>2. \A u \in Submitters, r \in Requests, b \in Backends :
           Serves(thr[u], r, b) => req'[r].back[b] \in Held
    BY ServedRow DEF CInv, ServedHeld, RowsHeld, StaysHeld
  <1>. QED
    BY <1>1, <1>2, ServingOK

LEMMA NoThreadOK ==
  ASSUME IInv, CInv, UNCHANGED thr, RowsHeld
  PROVE  CInv'
  <1>1. \A u \in Submitters, r \in Requests, b \in Backends :
           Serves(thr[u], r, b) => req'[r].back[b] \in Held
    BY ServedRow DEF CInv, ServedHeld, RowsHeld, StaysHeld
  <1>. QED
    BY <1>1 DEF CInv, ServedHeld, ServedAlone, Requests, Serves

LEMMA LeaveOK ==
  ASSUME IInv, CInv, NEW s \in Submitters, Leave(s), RowsHeld
  PROVE  CInv'
  <1>1. IdleThread.pc = "idle"
    BY DEF IdleThread
  <1>. QED
    BY <1>1, QuietOK DEF Leave

\* A thread takes targets of a row that nobody serves.
LEMMA TakesOK ==
  ASSUME IInv, CInv, NEW s \in Submitters, NEW t, Become(s, t), t.r \in Requests,
         \A b \in Backends : b \in t.todo =>
            /\ req'[t.r].back[b] \in Held
            /\ \A u \in Submitters : ~Serves(thr[u], t.r, b),
         RowsHeld
  PROVE  CInv'
  <1>1. \A u \in Submitters, r \in Requests, b \in Backends :
           Serves(thr[u], r, b) => req'[r].back[b] \in Held
    BY ServedRow DEF CInv, ServedHeld, RowsHeld, StaysHeld
  <1>2. \A r \in Requests, b \in Backends : Serves(t, r, b) =>
           req'[r].back[b] \in Held /\ \A u \in Submitters : ~Serves(thr[u], r, b)
    BY DEF Serves
  <1>. QED
    BY <1>1, <1>2, ServingOK

LEMMA ClaimServing ==
  ASSUME IInv, CInv, NEW s \in Submitters, Claim(s)
  PROVE  CInv'
  <1>. DEFINE t == thr[s]
              row == req[t.r]
              next == [t EXCEPT !.pc = "call", !.todo = t.want]
  <1>1. t \in Thread /\ t.r \in Rows /\ t.r \in Requests /\ row \in Row /\ RowOK(row)
    BY AtWork, RowsOfRequests DEF Claim, IInv
  <1>2. CASE Claimable(row) /\ Store(t.r, Claimed(row, t.want)) /\ Become(s, next)
    <2>1. \A b \in Backends : row.back[b] = ""
      BY <1>1, <1>2 DEF Claimable, RowOK, Backends
    <2>2. StaysHeld(row, Claimed(row, t.want))
      BY <2>1 DEF StaysHeld, Held
    <2>3. RowsHeld
      BY <1>1, <1>2, <2>2, StoreHeld DEF IInv
    <2>4. req'[t.r].back = [b \in Backends |-> IF b \in t.want THEN "submitting" ELSE ""]
      BY <1>1, <1>2 DEF Store, Claimed, IInv, RowsOK, Row
    <2>5. next.r = t.r /\ next.todo = t.want
      BY <1>1 DEF Thread
    <2>6. \A b \in Backends : \A u \in Submitters : ~Serves(thr[u], t.r, b)
      BY <1>1, <2>1, Unserved DEF Held
    <2>. HIDE DEF next
    <2>. QED
      BY <1>1, <1>2, <2>3, <2>4, <2>5, <2>6, TakesOK DEF Held
  <1>3. CASE Leave(s) /\ UNCHANGED req
    BY <1>3, SameHeld, LeaveOK
  <1>. QED
    BY <1>2, <1>3 DEF Claim

LEMMA AppendServing ==
  ASSUME IInv, CInv, NEW s \in Submitters, Append(s)
  PROVE  CInv'
  <1>. DEFINE t == thr[s]
              row == req[t.r]
              T == Missing(row, t.want)
              next == [t EXCEPT !.pc = "call", !.via = "append", !.todo = T]
  <1>1. t \in Thread /\ t.r \in Rows /\ t.r \in Requests /\ row \in Row
    BY AtWork, RowsOfRequests DEF Append, IInv
  <1>2. CASE Store(t.r, Appended(row, T)) /\ Become(s, next)
    <2>1. RowsHeld
      BY <1>1, <1>2, AppendedHeld, StoreHeld DEF IInv
    <2>2. \A b \in Backends : b \in T => req'[t.r].back[b] = "submitting"
      BY <1>1, <1>2 DEF Store, Appended, IInv, RowsOK, Row
    <2>3. next.r = t.r /\ next.todo = T
      BY <1>1 DEF Thread
    <2>4. \A b \in T : row.back[b] \notin Held
      BY DEF Missing, Held
    <2>5. \A b \in Backends : b \in T => \A u \in Submitters : ~Serves(thr[u], t.r, b)
      BY <1>1, <2>4, Unserved
    <2>. HIDE DEF next, T
    <2>. QED
      BY <1>1, <1>2, <2>1, <2>2, <2>3, <2>5, TakesOK DEF Held
  <1>3. CASE Leave(s) /\ UNCHANGED req
    BY <1>3, SameHeld, LeaveOK
  <1>. QED
    BY <1>2, <1>3 DEF Append

LEMMA SucceedServing ==
  ASSUME IInv, CInv, NEW s \in Submitters, Succeed(s)
  PROVE  CInv'
  <1>. DEFINE t == thr[s]
              next == [t EXCEPT !.pc = "call", !.r = made + 1, !.todo = t.want, !.was = ""]
  <1>1. t \in Thread /\ t.want \subseteq Backends
    BY DEF IInv, ThreadsOK, Thread
  <1>2. CASE Insert(Claimed(NewRow, t.want)) /\ Become(s, next)
    <2>1. made + 1 \in Requests /\ made + 1 \notin Rows
      BY <1>2, RowsOfRequests DEF Insert, IInv, Rows
    <2>2. \A r \in Requests : req'[r] = IF r = made + 1 THEN Claimed(NewRow, t.want) ELSE req[r]
      BY <1>2 DEF Insert, IInv, RowsOK
    <2>3. RowsHeld
      BY <2>1, <2>2, SameHeld, RowsOfRequests DEF IInv
    <2>4. Claimed(NewRow, t.want).back = [b \in Backends |-> IF b \in t.want THEN "submitting" ELSE ""]
      BY DEF Claimed, NewRow
    <2>5. next.r = made + 1 /\ next.todo = t.want
      BY <1>1 DEF Thread
    <2>6. \A b \in Backends : \A u \in Submitters : ~Serves(thr[u], made + 1, b)
      BY <2>1, ServedRow
    <2>7. \A b \in Backends : b \in t.want => req'[made + 1].back[b] \in Held
      BY <2>1, <2>2, <2>4 DEF Held
    <2>. HIDE DEF next
    <2>. QED
      BY <1>2, <2>1, <2>3, <2>5, <2>6, <2>7, TakesOK
  <1>3. CASE Leave(s) /\ UNCHANGED req
    BY <1>3, SameHeld, LeaveOK
  <1>. QED
    BY <1>2, <1>3 DEF Succeed

LEMMA CallServing ==
  ASSUME IInv, CInv, NEW s \in Submitters, Call(s)
  PROVE  CInv'
  <1>. DEFINE t == thr[s]
  <1>1. t \in Thread /\ t.pc = "call" /\ UNCHANGED req
    BY DEF Call, IInv, ThreadsOK
  <1>2. PICK a : Become(s, [t EXCEPT !.pc = "record", !.got = a])
    BY DEF Call
  <1>. DEFINE next == [t EXCEPT !.pc = "record", !.got = a]
  <1>3. next.r = t.r /\ next.todo = t.todo
    BY <1>1 DEF Thread
  <1>. HIDE DEF next
  <1>4. \A r \in Requests, b \in Backends : Serves(next, r, b) => Serves(t, r, b)
    BY <1>1, <1>3 DEF Serves
  <1>5. \A u \in Submitters, r \in Requests, b \in Backends :
           Serves(thr[u], r, b) => req'[r].back[b] \in Held
    BY <1>1 DEF CInv, ServedHeld
  <1>6. Become(s, next)
    BY <1>2 DEF next
  <1>. QED
    BY <1>4, <1>5, <1>6, ServingOK

\* The receipt ends what the thread serves, and nobody else serves that target.
LEMMA RecordServing ==
  ASSUME IInv, CInv, NEW s \in Submitters, Record(s)
  PROVE  CInv'
  <1>. DEFINE t == thr[s]
              b == Turn(t)
              row == req[t.r]
              after == AfterReceipt(t, b)
              new == Settled(row, b, t.got, row.bound \/ b = "qb")
  <1>1. /\ t \in Thread /\ t.pc = "record" /\ t.todo # {} /\ t.r \in Rows
        /\ t.r \in Requests /\ row \in Row
    BY AtWork, RowsOfRequests DEF Record, IInv, ThreadOK
  <1>2. b \in t.todo /\ b \in Backends
    BY <1>1, TurnOf
  <1>3. Serves(t, t.r, b)
    BY <1>1, <1>2 DEF Serves
  <1>4. \A r \in Requests : req'[r] = IF r = t.r THEN new ELSE req[r]
    BY DEF Record, Store, IInv, RowsOK
  <1>5. \A c \in Backends : c # b /\ row.back[c] \in Held => new.back[c] \in Held
    BY <1>1, <1>2, SettledHeld
  <1>. HIDE DEF new
  <1>6. \A u \in Submitters, r \in Requests, c \in Backends :
           Serves(thr[u], r, c) /\ ~(r = t.r /\ c = b) => req'[r].back[c] \in Held
    BY <1>4, <1>5 DEF CInv, ServedHeld
  <1>7. \A u \in Submitters, r \in Requests, c \in Backends :
           u # s /\ Serves(thr[u], r, c) => ~(r = t.r /\ c = b)
    BY <1>1, <1>2, <1>3 DEF CInv, ServedAlone
  <1>8. ASSUME NEW r \in Requests, NEW c \in Backends, Serves(after, r, c)
        PROVE  Serves(t, r, c) /\ ~(r = t.r /\ c = b)
    <2>1. after.pc \in {"call", "record"} => after.r = t.r /\ after.todo = t.todo \ {b}
      BY <1>1 DEF AfterReceipt, IdleThread, Thread
    <2>. HIDE DEF after
    <2>. QED
      BY <1>1, <1>8, <2>1 DEF Serves
  <1>9. Become(s, after)
    BY DEF Record
  <1>. HIDE DEF after, b
  <1>. QED
    BY <1>6, <1>7, <1>8, <1>9, ServingOK

\* The steps that serve no target anew.
LEMMA QuietServing ==
  ASSUME IInv, CInv, NEW s \in Submitters,
         \/ Submit(s) \/ Create(s) \/ Resubmit(s) \/ LeaseFails(s) \/ RecordFails(s)
         \/ Handle(s) \/ Mark(s)
  PROVE  CInv'
  <1>1. ASSUME NEW r \in Rows PROVE StaysHeld(req[r], req'[r])
    <2>1. req[r] \in Row /\ RowOK(req[r])
      BY RowsOfRequests DEF IInv, RowsOK
    <2>2. Written(req[r], req'[r])
      BY QuietWrites
    <2>. QED
      BY <2>1, <2>2, WrittenHeld
  <1>. QED
    BY <1>1, QuietThread, QuietOK DEF RowsHeld

\* The user, the recovery and the tracker let a held target be held.
LEMMA OthersServing ==
  ASSUME IInv, CInv,
         \/ \E r \in Rows : CancelPending(r) \/ Tracking(r)
         \/ \E k : TaskMoves(k)
         \/ RemoveIntent \/ RemoveTask \/ RecoverStale
  PROVE  CInv'
  <1>1. \A r \in Rows : r \in Requests /\ req[r] \in Row
    BY RowsOfRequests DEF IInv, RowsOK
  <1>2. UNCHANGED thr
    BY DEF CancelPending, Tracking, TrackRead, TrackApply, TaskMoves, RemoveIntent, RemoveTask,
           RecoverStale
  <1>3. RowsHeld
    <2>1. ASSUME NEW r \in Rows, CancelPending(r) PROVE RowsHeld
      <3>1. StaysHeld(req[r], [req[r] EXCEPT !.root = "cancelled"])
        BY <1>1 DEF StaysHeld, Row
      <3>. QED
        BY <2>1, <3>1, StoreHeld DEF CancelPending, IInv
    <2>2. ASSUME NEW r \in Rows, TrackApply(r, FALSE) PROVE RowsHeld
      <3>1. trk[r].row = req[r]
        BY <1>1, <2>2 DEF TrackApply, IInv, SnapshotsOK, SnapshotOK
      <3>2. \E q \in Outcomes(trk[r], "qb", FALSE), g \in Outcomes(trk[r], "gy", FALSE) :
               Store(r, TrackedRow(trk[r], q, g))
        BY <2>2 DEF TrackApply
      <3>. QED
        BY <1>1, <3>1, <3>2, TrackedHeld, StoreHeld DEF IInv
    <2>3. CASE RemoveIntent
      <3>1. \A r \in Rows : req'[r] = Stopped(req[r])
        BY <1>1, <2>3 DEF RemoveIntent
      <3>. QED
        BY <1>1, <3>1, StoppedHeld DEF RowsHeld
    <2>4. CASE RecoverStale
      <3>1. PICK due : RecoverWith(due)
        BY <2>4 DEF RecoverStale
      <3>2. \A r \in Rows : req'[r] = Recovered(r, due)
        BY <1>1, <3>1 DEF RecoverWith
      <3>. QED
        BY <1>1, <3>2, RecoveredHeld DEF RowsHeld
    <2>5. CASE UNCHANGED req
      BY <2>5, SameHeld
    <2>. QED
      BY <2>1, <2>2, <2>3, <2>4, <2>5 DEF Tracking, TrackRead, TaskMoves, RemoveTask
  <1>. QED
    BY <1>2, <1>3, NoThreadOK

\* A restart leaves no thread at a downloader.
LEMMA RestartServing == ASSUME Restart PROVE CInv'
  <1>1. \A s \in Submitters : thr'[s].pc = "idle"
    BY DEF Restart, IdleThread
  <1>. QED
    BY <1>1 DEF CInv, ServedHeld, ServedAlone, Serves, Requests

-----------------------------------------------------------------------------
LEMMA CallerInvariant == Spec => [](IInv /\ CInv)
  <1>1. ASSUME Init PROVE IInv /\ CInv
    BY <1>1, InitOK DEF Init, IdleThread, CInv, ServedHeld, ServedAlone, Serves
  <1>2. ASSUME IInv, CInv, [Next]_vars PROVE IInv' /\ CInv'
    <2>1. ASSUME NEW s \in Submitters, Submission(s) PROVE CInv'
      BY <1>2, <2>1, ClaimServing, AppendServing, SucceedServing, CallServing, RecordServing,
         QuietServing DEF Submission
    <2>2. ASSUME \/ \E r \in Rows : CancelPending(r) \/ Tracking(r)
                 \/ \E k : TaskMoves(k)
                 \/ RemoveIntent \/ RemoveTask \/ RecoverStale
          PROVE  CInv'
      BY <1>2, <2>2, OthersServing
    <2>3. ASSUME Restart PROVE CInv'
      BY <2>3, RestartServing
    <2>4. ASSUME UNCHANGED vars PROVE CInv'
      BY <1>2, <2>4, SameHeld, NoThreadOK DEF vars
    <2>5. CInv'
      BY <1>2, <2>1, <2>2, <2>3, <2>4 DEF Next
    <2>. QED
      BY <1>2, <2>5, NextOK
  <1>. QED
    BY <1>1, <1>2, PTL DEF Spec

\* No two threads serve the same target of the same row, for any number of threads,
\* however long one hangs and however often a recovery takes its claim.
THEOREM OneCallerAlways == Spec => []OneCaller
  <1>1. ASSUME IInv, CInv PROVE OneCaller
    <2>1. ASSUME NEW s \in Submitters, NEW u \in Submitters, s # u,
                 {thr[s].pc, thr[u].pc} \subseteq {"call", "record"}, thr[s].r = thr[u].r
          PROVE  thr[s].todo \cap thr[u].todo = {}
      <3>1. thr[s].r \in Requests /\ thr[s].todo \subseteq Backends
        BY <1>1, <2>1, AtWork, RowsOfRequests DEF IInv, Thread
      <3>2. \A b \in Backends : ~(b \in thr[s].todo /\ b \in thr[u].todo)
        BY <1>1, <2>1, <3>1 DEF CInv, ServedAlone, Serves
      <3>. QED
        BY <3>1, <3>2
    <2>. QED
      BY <2>1 DEF OneCaller
  <1>. QED
    BY <1>1, CallerInvariant, PTL

-----------------------------------------------------------------------------
(* A task that is running is accounted for by a row which nothing that is  *)
(* still under way can take back.  A refusal settles a claim as failed,    *)
(* and an old observation may do the same: the row that accounts for the   *)
(* task must be one whose claim no thread can still report as refused, and *)
(* whose snapshot does not show a failed task.                             *)

Accounted(row, b) == row.back[b] \notin {"", "failed"}

\* A thread may still report that the downloader refused a target.
MayRefuse(t, x, b) ==
    Serves(t, x, b) /\ ~(t.pc = "record" /\ Turn(t) = b /\ t.got # "failed")

Firm(x, b) ==
    /\ Accounted(req[x], b)
    /\ req[x].back[b] = "submitting" => \A s \in Submitters : ~MayRefuse(thr[s], x, b)
    /\ trk[x].seen[b] # "failed"

KeptInv ==
    \A k \in Requests \X Backends :
        job[k] = "running" => \E x \in Rows : JobOf(x, k[2]) = k /\ Firm(x, k[2])

\* A write leaves an accounted target accounted, and makes no claim of it.
StaysAccounted(row, new, b) ==
    Accounted(row, b) =>
        Accounted(new, b) /\ (new.back[b] = "submitting" => row.back[b] = "submitting")

LEMMA SettledAccounted ==
  ASSUME NEW row \in Row, NEW c \in Backends, NEW state, NEW bound, NEW b \in Backends,
         c # b \/ state \notin {"", "failed", "submitting"} \/ row.back[b] # "submitting"
  PROVE  StaysAccounted(row, Settled(row, c, state, bound), b)
  <1>1. CASE ~Finalizable(row, c)
    BY <1>1 DEF Settled, StaysAccounted
  <1>2. CASE Finalizable(row, c)
    <2>1. Settled(row, c, state, bound).back = [row.back EXCEPT ![c] = state]
      BY <1>2 DEF Settled, Finalized, Row
    <2>2. Settled(row, c, state, bound).back[b] = IF b = c THEN state ELSE row.back[b]
      BY <2>1, RowParts
    <2>. QED
      BY <1>2, <2>2 DEF StaysAccounted, Accounted, Finalizable
  <1>. QED
    BY <1>1, <1>2

LEMMA WrittenAccounted ==
  ASSUME NEW row \in Row, RowOK(row), NEW new, Written(row, new), NEW b \in Backends
  PROVE  StaysAccounted(row, new, b)
  <1>1. CASE new = row
    BY <1>1 DEF StaysAccounted
  <1>2. CASE row.root = "pending"
    BY <1>2 DEF StaysAccounted, Accounted, RowOK, Backends
  <1>3. (\E want \in SUBSET Backends : new = Appended(row, Missing(row, want)))
           => StaysAccounted(row, new, b)
    <2>1. \A T : b \notin T => Appended(row, T).back[b] = row.back[b]
      BY DEF Appended, Row
    <2>2. \A want : b \in Missing(row, want) => ~Accounted(row, b)
      BY DEF Missing, Accounted
    <2>3. \A want : Accounted(row, b) => Appended(row, Missing(row, want)).back[b] = row.back[b]
      BY <2>1, <2>2
    <2>4. \A want : StaysAccounted(row, Appended(row, Missing(row, want)), b)
      BY <2>3 DEF StaysAccounted, Accounted
    <2>. QED
      BY <2>4
  <1>4. (\E c \in Backends, bound \in BOOLEAN : new = Settled(row, c, "manual_review", bound))
           => StaysAccounted(row, new, b)
    BY SettledAccounted
  <1>5. (\E T \in SUBSET Backends : new = TakenOver(row, T)) => StaysAccounted(row, new, b)
    <2>1. \A T : TakenOver(row, T).back[b] \in {row.back[b], "resubmitted"}
      BY DEF TakenOver, Row
    <2>2. \A T : StaysAccounted(row, TakenOver(row, T), b)
      BY <2>1 DEF StaysAccounted, Accounted
    <2>. QED
      BY <2>2
  <1>6. StaysAccounted(row, Stopped(row), b)
    <2>1. CASE ~Stoppable(row)
      BY <2>1 DEF Stopped, StaysAccounted
    <2>2. CASE Stoppable(row)
      <3>1. Stopped(row).back = [row.back EXCEPT !["qb"] = "cancelled"]
        BY <2>2 DEF Stopped, Row
      <3>. QED
        BY <3>1, RowParts DEF StaysAccounted, Accounted
    <2>. QED
      BY <2>1, <2>2
  <1>. QED
    BY <1>1, <1>2, <1>3, <1>4, <1>5, <1>6 DEF Written

LEMMA RecoveredAccounted ==
  ASSUME NEW r, req[r] \in Row, NEW due, NEW b \in Backends
  PROVE  StaysAccounted(req[r], Recovered(r, due), b)
  BY DEF Recovered, Row, StaysAccounted, Accounted

\* A round of the tracker finds a target failed only when it saw its task fail.
LEMMA OutcomeAccounted ==
  ASSUME NEW shot, NEW b \in Backends, shot.seen[b] # "failed",
         shot.row.back[b] \in Tracked => shot.seen[b] \in JobStates,
         NEW o \in Outcomes(shot, b, FALSE)
  PROVE  \/ o = shot.row.back[b]
         \/ o \in {"downloading", "completed", "manual_review"}
  <1>. DEFINE state == shot.row.back[b]
              After(expired) == UNION {Followed(state, b, m, expired) : m \in Matches(shot, b)}
  <1>1. CASE state \notin Tracked
    BY <1>1 DEF Outcomes
  <1>2. CASE state \in Tracked
    <2>1. shot.seen[b] \in {"absent", "running", "done"}
      BY <1>2 DEF JobStates
    <2>2. Matches(shot, b) \subseteq {"absent", "running", "done", "partial"}
      BY <2>1 DEF Matches
    <2>3. ASSUME NEW expired \in BOOLEAN, NEW m \in Matches(shot, b)
          PROVE  Followed(state, b, m, expired)
                   \subseteq {state, "downloading", "completed", "manual_review"}
      <3>1. CASE m = "absent"
        BY <3>1 DEF Followed, Unfound
      <3>2. CASE m # "absent"
        BY <3>2, <2>2 DEF Followed
      <3>. QED
        BY <3>1, <3>2
    <2>4. \A expired \in BOOLEAN :
             After(expired) \subseteq {state, "downloading", "completed", "manual_review"}
      BY <2>3
    <2>5. o \in {state} \cup After(TRUE) \cup After(FALSE)
      BY <1>2 DEF Outcomes
    <2>. QED
      BY <2>4, <2>5
  <1>. QED
    BY <1>1, <1>2

LEMMA ObservedAccounted ==
  ASSUME IInv, NEW r \in Rows, Observed(r), NEW b \in Backends, trk[r].seen[b] # "failed"
  PROVE  StaysAccounted(req[r], req'[r], b)
  <1>1. r \in Requests /\ req[r] \in Row /\ trk[r] # NoSnapshot
    BY RowsOfRequests DEF IInv, RowsOK, Observed
  <1>2. trk[r].row = req[r] /\ (req[r].back[b] \in Tracked => trk[r].seen[b] \in JobStates)
    BY <1>1 DEF IInv, SnapshotsOK, SnapshotOK
  <1>3. PICK q \in Outcomes(trk[r], "qb", FALSE), g \in Outcomes(trk[r], "gy", FALSE) :
           req'[r] = TrackedRow(trk[r], q, g)
    BY DEF Observed
  <1>4. req'[r].back = [c \in Backends |-> IF c = "qb" THEN q ELSE g]
    BY <1>1, <1>2, <1>3 DEF TrackedRow, Row
  <1>5. req'[r].back[b] \in Outcomes(trk[r], b, FALSE)
    BY <1>4, <1>3 DEF Backends
  <1>6. req'[r].back[b] = req[r].back[b] \/ req'[r].back[b] \in {"downloading", "completed", "manual_review"}
    BY <1>2, <1>5, OutcomeAccounted
  <1>. QED
    BY <1>6 DEF StaysAccounted, Accounted

-----------------------------------------------------------------------------
\* A row that is firm stays so, while its task is running.
LEMMA FirmStays ==
  ASSUME IInv, CInv, [Next]_vars, NEW x \in Rows, NEW b \in Backends,
         Firm(x, b), job[JobOf(x, b)] = "running"
  PROVE  Firm(x, b)'
  <1>1. x \in Requests /\ req[x] \in Row /\ RowOK(req[x])
    BY RowsOfRequests DEF IInv, RowsOK
  <1>2. StaysAccounted(req[x], req'[x], b)
    <2>1. CASE Reported(x)
      <3>1. PICK s \in Submitters : Record(s) /\ thr[s].r = x /\ req'[x] = Receipt(thr[s], req[x])
        BY <2>1 DEF Reported
      <3>. DEFINE t == thr[s]
                  c == Turn(t)
      <3>2. t \in Thread /\ t.pc = "record" /\ t.got \in Receipts /\ t.todo # {}
        BY <3>1, AtWork DEF Record, ThreadOK
      <3>3. c \in t.todo /\ c \in Backends
        BY <3>2, TurnOf
      <3>4. ASSUME c = b, req[x].back[b] = "submitting" PROVE t.got # "failed"
        BY <3>1, <3>2, <3>3, <3>4 DEF Firm, MayRefuse, Serves
      <3>5. c # b \/ t.got \notin {"", "failed", "submitting"} \/ req[x].back[b] # "submitting"
        BY <3>2, <3>4 DEF Receipts
      <3>. QED
        BY <1>1, <3>1, <3>3, <3>5, SettledAccounted DEF Receipt
    <2>. QED
      BY <1>1, <2>1, StepWrites, WrittenAccounted, RecoveredAccounted, ObservedAccounted DEF Firm
  <1>3. trk'[x].seen[b] # "failed"
    <2>1. trk'[x] \in {trk[x], NoSnapshot, Snapshot(x)}
      BY <1>1, StepReads
    <2>2. NoSnapshot.seen[b] # "failed" /\ Snapshot(x).seen[b] # "failed"
      BY DEF NoSnapshot, Snapshot
    <2>. QED
      BY <2>1, <2>2 DEF Firm
  <1>4. ASSUME NEW u \in Submitters, MayRefuse(thr'[u], x, b) PROVE MayRefuse(thr[u], x, b)
    <2>1. Serves(thr'[u], x, b)
      BY <1>4 DEF MayRefuse
    <2>2. ~Takes(thr'[u])
      BY <2>1 DEF Takes, Serves, Firm, Accounted
    <2>3. CASE Calls(u)
      <3>1. PICK a : thr[u].pc = "call" /\ thr'[u] = [thr[u] EXCEPT !.pc = "record", !.got = a[1]]
        BY <2>3 DEF Calls
      <3>2. thr[u] \in Thread
        BY DEF IInv, ThreadsOK
      <3>3. thr'[u].r = thr[u].r /\ thr'[u].todo = thr[u].todo
        BY <3>1, <3>2 DEF Thread
      <3>. QED
        BY <2>1, <3>1, <3>3 DEF MayRefuse, Serves
    <2>4. CASE NextCall(thr[u], thr'[u])
      BY <2>1, <2>4 DEF NextCall, MayRefuse, Serves
    <2>5. CASE thr'[u] = thr[u]
      BY <1>4, <2>5
    <2>6. thr'[u].pc \in {"call", "record"}
      BY <2>1 DEF Serves
    <2>. QED
      BY <2>2, <2>3, <2>4, <2>5, <2>6, StepMoves
  <1>5. \A u \in Submitters : MayRefuse(thr'[u], x, b) => MayRefuse(thr[u], x, b)
    BY <1>4
  <1>. QED
    BY <1>2, <1>3, <1>5 DEF Firm, StaysAccounted, MayRefuse, Serves, Turn, Accounted

\* A call that starts a task serves a row that becomes firm: nobody else can report
\* that target, and a claimed row has no observation of a task yet.
LEMMA FirmStarts ==
  ASSUME IInv, CInv, CInv', [Next]_vars, NEW k \in Requests \X Backends,
         job'[k] = "running", job[k] # "running"
  PROVE  \E x \in Rows : JobOf(x, k[2]) = k /\ Firm(x, k[2])'
  <1>1. PICK s \in Submitters :
          /\ thr[s].pc = "call" /\ thr[s].r \in Rows /\ k = JobOf(thr[s].r, Turn(thr[s]))
          /\ \E got \in {"submitted", "outcome_unknown"} :
               thr'[s] = [thr[s] EXCEPT !.pc = "record", !.got = got]
    BY StepStarts
  <1>2. PICK x \in Rows, b \in Backends : x = thr[s].r /\ b = Turn(thr[s])
    BY <1>1, AtWork, TurnOf DEF ThreadOK
  <1>. DEFINE t == thr[s]
  <1>3. t \in Thread /\ t.todo # {} /\ x \in Requests
    BY <1>1, <1>2, AtWork, RowsOfRequests DEF ThreadOK, IInv
  <1>4. b \in t.todo /\ b \in Backends /\ k = JobOf(x, b) /\ k[2] = b
    BY <1>1, <1>2, <1>3, TurnOf DEF JobOf
  <1>5. /\ thr'[s].pc = "record" /\ thr'[s].r = x /\ thr'[s].todo = t.todo /\ thr'[s].got # "failed"
    BY <1>1, <1>2, <1>3 DEF Thread
  <1>6. Serves(t, x, b) /\ Serves(thr'[s], x, b) /\ Turn(thr'[s]) = b
    BY <1>1, <1>2, <1>4, <1>5 DEF Serves, Turn
  <1>7. Accounted(req'[x], b)
    BY <1>3, <1>4, <1>6 DEF CInv, ServedHeld, Held, Accounted, Requests, Serves
  <1>8. \A u \in Submitters : ~MayRefuse(thr'[u], x, b)
    <2>1. \A u \in Submitters : Serves(thr'[u], x, b) => u = s
      BY <1>3, <1>4, <1>6 DEF CInv, ServedAlone, Requests, Serves
    <2>. QED
      BY <1>5, <1>6, <2>1 DEF MayRefuse
  <1>9. trk'[x].seen[b] # "failed"
    <2>1. req[x].back[b] \notin Tracked
      BY <1>3, <1>4, <1>6 DEF CInv, ServedHeld, Held, Tracked
    <2>2. trk[x] # NoSnapshot => trk[x].seen[b] = ""
      BY <1>3, <1>4, <2>1 DEF IInv, SnapshotsOK, SnapshotOK
    <2>3. Snapshot(x).seen[b] = "" /\ NoSnapshot.seen[b] = ""
      BY <1>4, <2>1 DEF Snapshot, NoSnapshot
    <2>. QED
      BY <1>3, <2>2, <2>3, StepReads
  <1>10. Firm(x, b)'
    BY <1>7, <1>8, <1>9 DEF Firm, MayRefuse, Serves, Turn, Accounted
  <1>. QED
    BY <1>4, <1>10

LEMMA RowsStay ==
  ASSUME IInv, [Next]_vars
  PROVE  Rows \subseteq Rows'
  <1>1. made \in Nat /\ made' \in {made, made + 1}
    BY RowsOfRequests
       DEF IInv, Next, Submission, Submit, Create, Claim, Append, Resubmit, Succeed, Call,
           Record, LeaseFails, RecordFails, Handle, Mark, Insert, CancelPending, Tracking,
           TrackRead, TrackApply, TaskMoves, RemoveIntent, RemoveTask, RecoverStale, Restart, vars
  <1>. QED
    BY <1>1 DEF Rows

LEMMA KeptStep ==
  ASSUME IInv, CInv, CInv', KeptInv, [Next]_vars
  PROVE  KeptInv'
  <1>1. ASSUME NEW k \in Requests \X Backends, job'[k] = "running"
        PROVE  \E x \in Rows : JobOf(x, k[2]) = k /\ Firm(x, k[2])'
    <2>1. CASE job[k] = "running"
      <3>1. PICK x \in Rows : JobOf(x, k[2]) = k /\ Firm(x, k[2])
        BY <2>1 DEF KeptInv
      <3>2. Firm(x, k[2])'
        BY <2>1, <3>1, FirmStays
      <3>. QED
        BY <3>1, <3>2
    <2>2. CASE job[k] # "running"
      BY <1>1, <2>2, FirmStarts
    <2>. QED
      BY <2>1, <2>2
  <1>2. \A k \in Requests \X Backends :
           job'[k] = "running" => \E x \in Rows' : JobOf(x, k[2]) = k /\ Firm(x, k[2])'
    BY <1>1, RowsStay
  <1>. QED
    BY <1>2 DEF KeptInv, Requests, JobOf

\* A task that a downloader is working on is always accounted for by a row from which
\* no submission starts a second one: through every call that timed out, every
\* receipt that comes late or never, every retry, recovery and restart.
THEOREM AcceptedAlwaysKept == Spec => []AcceptedIsKept
  <1>1. Init => KeptInv
    BY DEF Init, KeptInv
  <1>2. IInv /\ CInv /\ CInv' /\ KeptInv /\ [Next]_vars => KeptInv'
    BY KeptStep
  <1>3. ASSUME IInv, KeptInv PROVE AcceptedIsKept
    <2>1. ASSUME NEW r \in Rows, NEW b \in Backends, job[JobOf(r, b)] = "running"
          PROVE  \E q \in Rows : JobOf(q, b) = JobOf(r, b) /\ req[q].back[b] \notin {"", "failed"}
      <3>1. JobOf(r, b) \in Requests \X Backends /\ JobOf(r, b)[2] = b
        BY <1>3, RowsOfRequests, BoundsAssumption DEF IInv, JobOf, Requests
      <3>. QED
        BY <1>3, <2>1, <3>1 DEF KeptInv, Firm, Accounted
    <2>. QED
      BY <2>1 DEF AcceptedIsKept
  <1>4. IInv /\ KeptInv => AcceptedIsKept
    BY <1>3
  <1>. QED
    BY <1>1, <1>2, <1>4, CallerInvariant, PTL DEF Spec

-----------------------------------------------------------------------------
(* The removal of the qB task.  Every row that tracks the task is bound to *)
(* it, so the intent stops them all; from then on the lease keeps every    *)
(* receipt of qB away until the removal is over.                           *)

TracksQb(row) == row.back["qb"] \in Tracked

RecordsQb(t) == t.pc = "record" /\ Turn(t) = "qb"

QuietInv ==
    /\ \A r \in Rows : TracksQb(req[r]) => req[r].bound
    /\ removal = "remote" => /\ \A r \in Rows : ~TracksQb(req[r])
                             /\ \A s \in Submitters : ~RecordsQb(thr[s])

\* A write that makes no row track the task.
Tame(row, new) == TracksQb(new) => TracksQb(row) /\ (row.bound => new.bound)

LEMMA SettledTame ==
  ASSUME NEW row \in Row, NEW b \in Backends, NEW state, NEW bound \in BOOLEAN,
         b # "qb" \/ state \notin Tracked, row.bound => bound
  PROVE  Tame(row, Settled(row, b, state, bound))
  <1>1. CASE ~Finalizable(row, b)
    BY <1>1 DEF Settled, Tame
  <1>2. CASE Finalizable(row, b)
    <2>1. /\ Settled(row, b, state, bound).back = [row.back EXCEPT ![b] = state]
          /\ Settled(row, b, state, bound).bound = bound
      BY <1>2 DEF Settled, Finalized, Row
    <2>2. Settled(row, b, state, bound).back["qb"] = IF b = "qb" THEN state ELSE row.back["qb"]
      BY <2>1, RowParts DEF Backends
    <2>. QED
      BY <2>1, <2>2 DEF Tame, TracksQb
  <1>. QED
    BY <1>1, <1>2

LEMMA WrittenTame ==
  ASSUME NEW row \in Row, NEW new, Written(row, new)
  PROVE  Tame(row, new)
  <1>1. CASE new = row
    BY <1>1 DEF Tame
  <1>2. \A T : Tame(row, Claimed(row, T))
    <2>1. \A T : Claimed(row, T).back["qb"] \in {"", "submitting"}
      BY DEF Claimed, Row, Backends
    <2>. QED
      BY <2>1 DEF Tame, TracksQb, Tracked
  <1>3. Tame(row, Withdrawn(row))
    <2>1. Withdrawn(row).back = row.back /\ Withdrawn(row).bound = row.bound
      BY DEF Withdrawn, Row
    <2>. QED
      BY <2>1 DEF Tame, TracksQb
  <1>4. \A T : Tame(row, Appended(row, T))
    <2>1. \A T : /\ "qb" \in T => Appended(row, T).back["qb"] = "submitting"
                 /\ "qb" \notin T => /\ Appended(row, T).back["qb"] = row.back["qb"]
                                     /\ row.bound => Appended(row, T).bound
      BY DEF Appended, Row, Backends
    <2>. QED
      BY <2>1 DEF Tame, TracksQb, Tracked
  <1>5. (\E b \in Backends, bound \in BOOLEAN :
           (row.bound => bound) /\ new = Settled(row, b, "manual_review", bound)) => Tame(row, new)
    BY SettledTame DEF Tracked
  <1>6. \A T : Tame(row, TakenOver(row, T))
    <2>1. \A T : TakenOver(row, T).back["qb"] \in {row.back["qb"], "resubmitted"}
                   /\ TakenOver(row, T).bound = row.bound
      BY DEF TakenOver, Row, Backends
    <2>. QED
      BY <2>1 DEF Tame, TracksQb, Tracked
  <1>7. Tame(row, Stopped(row))
    <2>1. CASE ~Stoppable(row)
      BY <2>1 DEF Stopped, Tame
    <2>2. CASE Stoppable(row)
      <3>1. Stopped(row).back = [row.back EXCEPT !["qb"] = "cancelled"]
        BY <2>2 DEF Stopped, Row
      <3>2. Stopped(row).back["qb"] = "cancelled"
        BY <3>1, RowParts DEF Backends
      <3>. QED
        BY <3>2 DEF Tame, TracksQb, Tracked
    <2>. QED
      BY <2>1, <2>2
  <1>. QED
    BY <1>1, <1>2, <1>3, <1>4, <1>5, <1>6, <1>7 DEF Written

LEMMA RecoveredTame ==
  ASSUME NEW r, req[r] \in Row, NEW due
  PROVE  Tame(req[r], Recovered(r, due))
  <1>1. /\ Recovered(r, due).back["qb"] \in {req[r].back["qb"], "manual_review"}
        /\ Recovered(r, due).bound = req[r].bound
    BY DEF Recovered, Row, Backends
  <1>. QED
    BY <1>1 DEF Tame, TracksQb, Tracked

LEMMA ObservedTame ==
  ASSUME IInv, NEW r \in Rows, Observed(r)
  PROVE  Tame(req[r], req'[r])
  <1>1. r \in Requests /\ req[r] \in Row /\ trk[r] # NoSnapshot
    BY RowsOfRequests DEF IInv, RowsOK, Observed
  <1>2. trk[r].row = req[r]
    BY <1>1 DEF IInv, SnapshotsOK, SnapshotOK
  <1>3. PICK q \in Outcomes(trk[r], "qb", FALSE), g \in Outcomes(trk[r], "gy", FALSE) :
           req'[r] = TrackedRow(trk[r], q, g)
    BY DEF Observed
  <1>4. req'[r].back["qb"] = q /\ req'[r].bound = req[r].bound
    BY <1>1, <1>2, <1>3 DEF TrackedRow, Row, Backends
  <1>5. q \in Tracked => req[r].back["qb"] \in Tracked
    BY <1>2 DEF Outcomes
  <1>. QED
    BY <1>4, <1>5 DEF Tame, TracksQb

\* Only a receipt of qB makes a row track the task, and it binds the row.
LEMMA RowQuiet ==
  ASSUME IInv, [Next]_vars, NEW r \in Rows
  PROVE  \/ Tame(req[r], req'[r])
         \/ req'[r].bound /\ \E s \in Submitters : Record(s) /\ RecordsQb(thr[s])
  <1>1. r \in Requests /\ req[r] \in Row /\ req[r].bound \in BOOLEAN
    BY RowsOfRequests, RowParts DEF IInv, RowsOK
  <1>2. CASE Reported(r)
    <2>1. PICK s \in Submitters : Record(s) /\ thr[s].r = r /\ req'[r] = Receipt(thr[s], req[r])
      BY <1>2 DEF Reported
    <2>. DEFINE t == thr[s]
                b == Turn(t)
    <2>2. t \in Thread /\ t.pc = "record" /\ t.todo # {} /\ b \in Backends
      BY <2>1, AtWork, TurnOf DEF Record, ThreadOK
    <2>3. CASE b = "qb"
      <3>1. Receipt(t, req[r]) = Settled(req[r], b, t.got, TRUE)
        <4>1. (req[r].bound \/ b = "qb") = TRUE
          BY <2>3
        <4>. QED
          BY <4>1 DEF Receipt
      <3>2. CASE Finalizable(req[r], b)
        <4>1. req'[r].bound = TRUE
          BY <1>1, <2>1, <3>1, <3>2 DEF Settled, Finalized, Row
        <4>. QED
          BY <2>1, <2>2, <2>3, <4>1 DEF RecordsQb
      <3>3. CASE ~Finalizable(req[r], b)
        BY <2>1, <3>1, <3>3 DEF Settled, Tame
      <3>. QED
        BY <3>2, <3>3
    <2>4. CASE b # "qb"
      <3>1. Receipt(t, req[r]) = Settled(req[r], b, t.got, req[r].bound)
        <4>1. (req[r].bound \/ b = "qb") = req[r].bound
          BY <1>1, <2>4
        <4>. QED
          BY <4>1 DEF Receipt
      <3>. QED
        BY <1>1, <2>1, <2>2, <2>4, <3>1, SettledTame
    <2>. QED
      BY <2>3, <2>4
  <1>. QED
    BY <1>1, <1>2, StepWrites, WrittenTame, RecoveredTame, ObservedTame

\* A row that is created tracks nothing.
LEMMA FreshRow ==
  ASSUME IInv, [Next]_vars, NEW r \in Rows', r \notin Rows
  PROVE  ~TracksQb(req'[r])
  <1>1. made \in Nat
    BY RowsOfRequests DEF IInv
  <1>2. made' # made
    BY DEF Rows
  <1>3. ASSUME NEW s \in Submitters, Submission(s) PROVE Create(s) \/ Succeed(s)
    BY <1>2, <1>3 DEF Submission, Submit, Claim, Append, Resubmit, Call, Record, LeaseFails,
                      RecordFails, Handle, Mark, counters
  <1>4. \E s \in Submitters : Create(s) \/ Succeed(s)
    <2>1. ~UNCHANGED vars /\ ~RemoveIntent /\ ~RemoveTask /\ ~RecoverStale /\ ~Restart
      BY <1>2 DEF vars, RemoveIntent, RemoveTask, RecoverStale, Restart
    <2>2. \A x \in Rows : ~CancelPending(x) /\ ~Tracking(x)
      BY <1>2 DEF CancelPending, Tracking, TrackRead, TrackApply
    <2>3. \A k : ~TaskMoves(k)
      BY <1>2 DEF TaskMoves
    <2>. QED
      BY <1>3, <2>1, <2>2, <2>3 DEF Next
  <1>5. PICK row : Insert(row) /\ (row = NewRow \/ \E T : row = Claimed(NewRow, T))
    BY <1>2, <1>4 DEF Create, Succeed
  <1>6. row.back["qb"] \in {"", "submitting"}
    <2>1. NewRow.back["qb"] = ""
      BY DEF NewRow, Backends
    <2>2. \A T : Claimed(NewRow, T).back["qb"] \in {"", "submitting"}
      BY DEF Claimed, NewRow, Backends
    <2>. QED
      BY <1>5, <2>1, <2>2
  <1>7. r = made + 1 /\ r \in Requests
    BY <1>1, <1>5, RowsOfRequests DEF Insert, Rows, IInv
  <1>8. req'[r] = row
    BY <1>5, <1>7 DEF Insert, IInv, RowsOK
  <1>. QED
    BY <1>6, <1>8 DEF TracksQb, Tracked

\* The intent stops every row that tracks the task.
LEMMA IntentStops ==
  ASSUME IInv, QuietInv, RemoveIntent, NEW r \in Rows
  PROVE  ~TracksQb(req'[r])
  <1>1. r \in Requests /\ req[r] \in Row /\ RowOK(req[r])
    BY RowsOfRequests DEF IInv, RowsOK
  <1>2. req'[r] = Stopped(req[r])
    BY <1>1 DEF RemoveIntent
  <1>3. TracksQb(req[r]) => Stoppable(req[r])
    BY <1>1 DEF QuietInv, TracksQb, Stoppable, RowOK, Active, Terminal
  <1>4. CASE Stoppable(req[r])
    <2>1. Stopped(req[r]).back = [req[r].back EXCEPT !["qb"] = "cancelled"]
      BY <1>1, <1>4 DEF Stopped, Row
    <2>2. Stopped(req[r]).back["qb"] = "cancelled"
      BY <1>1, <2>1, RowParts DEF Backends
    <2>. QED
      BY <1>2, <2>2 DEF TracksQb, Tracked
  <1>5. CASE ~Stoppable(req[r])
    BY <1>2, <1>3, <1>5 DEF Stopped
  <1>. QED
    BY <1>4, <1>5

LEMMA QuietStep ==
  ASSUME IInv, QuietInv, [Next]_vars
  PROVE  QuietInv'
  <1>1. ASSUME NEW r \in Rows', TracksQb(req'[r]) PROVE req'[r].bound
    BY <1>1, FreshRow, RowQuiet DEF QuietInv, Tame
  <1>2. ASSUME removal' = "remote"
        PROVE  /\ \A r \in Rows' : ~TracksQb(req'[r])
               /\ \A s \in Submitters : ~RecordsQb(thr'[s])
    <2>1. CASE removal = "remote"
      <3>1. ASSUME NEW r \in Rows PROVE ~TracksQb(req'[r])
        <4>1. ~TracksQb(req[r]) /\ \A s \in Submitters : ~RecordsQb(thr[s])
          BY <2>1 DEF QuietInv
        <4>. QED
          BY <4>1, RowQuiet DEF Tame
      <3>2. ASSUME NEW u \in Submitters, RecordsQb(thr'[u]) PROVE FALSE
        <4>1. ~RecordsQb(thr[u])
          BY <2>1 DEF QuietInv
        <4>2. Calls(u)
          BY <3>2, <4>1, StepMoves DEF RecordsQb, Takes, NextCall
        <4>3. Turn(thr'[u]) = Turn(thr[u])
          <5>1. thr[u] \in Thread
            BY DEF IInv, ThreadsOK
          <5>2. thr'[u].todo = thr[u].todo
            BY <4>2, <5>1 DEF Calls, Thread
          <5>. QED
            BY <5>2 DEF Turn
        <4>. QED
          BY <2>1, <3>2, <4>2, <4>3 DEF Calls, RecordsQb, LeaseFree
      <3>. QED
        BY <3>1, <3>2, FreshRow
    <2>2. CASE removal # "remote"
      <3>1. RemoveIntent
        <4>1. \A s \in Submitters : ~Submission(s)
          BY <1>2, <2>2 DEF Submission, Submit, Create, Claim, Append, Resubmit, Succeed, Call, Record,
                            LeaseFails, RecordFails, Handle, Mark
        <4>2. ~UNCHANGED vars /\ ~RemoveTask /\ ~RecoverStale /\ ~Restart
          BY <1>2, <2>2 DEF vars, RemoveTask, RecoverStale, Restart
        <4>3. \A x \in Rows : ~CancelPending(x) /\ ~Tracking(x)
          BY <1>2, <2>2 DEF CancelPending, Tracking, TrackRead, TrackApply
        <4>4. \A k : ~TaskMoves(k)
          BY <1>2, <2>2 DEF TaskMoves
        <4>. QED
          BY <4>1, <4>2, <4>3, <4>4 DEF Next
      <3>2. \A s \in Submitters : ~RecordsQb(thr'[s])
        BY <3>1 DEF RemoveIntent, LeaseFree, RecordsQb
      <3>. QED
        BY <3>1, <3>2, IntentStops, FreshRow
    <2>. QED
      BY <2>1, <2>2
  <1>. QED
    BY <1>1, <1>2 DEF QuietInv, TracksQb, RecordsQb, Turn

\* When the user's removal reaches qB no row tracks the task any more, whatever was
\* submitted, received or observed between the stored intent and the remote call.
THEOREM RemovalAlwaysQuiet == Spec => RemovalIsQuiet
  <1>1. Init => QuietInv
    BY DEF Init, QuietInv, Rows
  <1>2. IInv /\ QuietInv /\ [Next]_vars => QuietInv'
    BY QuietStep
  <1>3. QuietInv => (removal = "remote" /\ job'[JobOf(1, "qb")] # job[JobOf(1, "qb")] /\ removal' = "idle"
                       => \A r \in Rows : req[r].back["qb"] \notin Tracked)
    BY DEF QuietInv, TracksQb
  <1>. QED
    BY <1>1, <1>2, <1>3, InductiveInvariant, PTL DEF Spec, RemovalIsQuiet

-----------------------------------------------------------------------------
(* The successors.  At most one row has a target under way, as long as no  *)
(* row in manual review is superseded: a row that has lost the keys is     *)
(* over, and nothing that is still under way can bring it back.  A row in  *)
(* manual review is the one case where SingleFlight fails: its targets may *)
(* still run, and more can be added to it until it is marked.              *)

Finished == Terminal \cup {"", "resubmitted"}

\* A row is over in all its targets.
Over(row) ==
    /\ row.root \in Terminal \cup {"resubmitted"}
    /\ \A b \in Backends : row.back[b] \in Finished

\* A settled root leaves nothing to a manual review.
Decided(row) == row.root \in Terminal => \A b \in Backends : row.back[b] # "manual_review"

\* The newest row owns the keys, and the earlier ones are over.
SuccessionInv ==
    /\ canon = made
    /\ \A r \in Rows : Decided(req[r]) /\ (r # made => Over(req[r]))

\* No step creates the successor of a row in manual review.
ReviewNotSuperseded ==
    \A s \in Submitters : Succeed(s) /\ thr[s].was = "manual_review" => UNCHANGED made

\* A write neither settles a root over a manual review nor reopens what is over.
StaysOver(row, new) == Decided(new) /\ (Over(row) => Over(new))

LEMMA SettledIsOver ==
  ASSUME NEW row \in Row, RowOK(row), Decided(row), row.root \in Terminal
  PROVE  Over(row)
  BY RowParts DEF RowOK, Decided, Over, Finished, BackendStates, Backends

LEMMA SettledOver ==
  ASSUME NEW row \in Row, Decided(row), NEW b \in Backends,
         NEW state \in Receipts \cup {"manual_review"}, NEW bound
  PROVE  StaysOver(row, Settled(row, b, state, bound))
  <1>1. CASE ~Finalizable(row, b)
    BY <1>1 DEF Settled, StaysOver
  <1>2. CASE Finalizable(row, b)
    <2>. DEFINE back == [row.back EXCEPT ![b] = state]
    <2>1. back \in [Backends -> BackendStates]
      BY RowParts DEF Receipts, BackendStates, Active, Tracked, Terminal
    <2>2. Settled(row, b, state, bound).back = back /\ Settled(row, b, state, bound).root = SubmissionRoot(back)
      BY <1>2 DEF Settled, Finalized, Row
    <2>3. "manual_review" \in States(back) <=> back["qb"] = "manual_review" \/ back["gy"] = "manual_review"
      BY <2>1, StatesOf
    <2>. HIDE DEF back
    <2>4. SubmissionRoot(back) \in Terminal => \A c \in Backends : back[c] # "manual_review"
      BY <2>3 DEF SubmissionRoot, Terminal, Backends
    <2>5. ~Over(row)
      BY <1>2 DEF Finalizable, Over, Finished, Terminal
    <2>. QED
      BY <2>2, <2>4, <2>5 DEF StaysOver, Decided
  <1>. QED
    BY <1>1, <1>2

LEMMA TakenOverOver ==
  ASSUME NEW row \in Row, Decided(row), NEW T
  PROVE  StaysOver(row, TakenOver(row, T))
  <1>. DEFINE new == TakenOver(row, T)
  <1>1. new.root \in {row.root, "resubmitted"} /\ \A b \in Backends : new.back[b] \in {row.back[b], "resubmitted"}
    BY DEF TakenOver, Row
  <1>. HIDE DEF new
  <1>2. Decided(new)
    BY <1>1 DEF Decided, Terminal
  <1>3. Over(row) => Over(new)
    BY <1>1 DEF Over, Finished
  <1>. QED
    BY <1>2, <1>3 DEF StaysOver, new

LEMMA StoppedOver ==
  ASSUME NEW row \in Row, Decided(row)
  PROVE  StaysOver(row, Stopped(row))
  <1>1. CASE ~Stoppable(row)
    BY <1>1 DEF Stopped, StaysOver
  <1>2. CASE Stoppable(row)
    <2>. DEFINE new == Stopped(row)
    <2>1. new.root = StoppedRoot(row) /\ new.back = [row.back EXCEPT !["qb"] = "cancelled"]
      BY <1>2 DEF Stopped, Row
    <2>2. new.back["qb"] = "cancelled" /\ new.back["gy"] = row.back["gy"]
      BY <2>1, RowParts DEF Backends
    <2>3. StoppedRoot(row) \in Terminal => row.back["gy"] # "manual_review"
      BY DEF StoppedRoot, Terminal
    <2>4. ~Over(row)
      BY <1>2 DEF Stoppable, Over, Finished, Terminal, Active, Tracked, Backends
    <2>. QED
      BY <2>1, <2>2, <2>3, <2>4 DEF StaysOver, Decided, Backends
  <1>. QED
    BY <1>1, <1>2

LEMMA WrittenOver ==
  ASSUME NEW row \in Row, RowOK(row), Decided(row), NEW new, Written(row, new)
  PROVE  StaysOver(row, new)
  <1>1. CASE new = row
    BY <1>1 DEF StaysOver
  <1>2. CASE row.root = "pending"
    <2>1. ~Over(row) /\ row.back["qb"] = "" /\ row.back["gy"] = ""
      BY <1>2 DEF Over, Terminal, RowOK
    <2>2. new = Withdrawn(row) => Decided(new)
      BY <2>1 DEF Withdrawn, Row, Decided, Backends
    <2>3. \A T : Decided(Claimed(row, T))
      BY DEF Claimed, Row, Decided, Terminal
    <2>4. \A T : Decided(Appended(row, T))
      BY DEF Appended, Row, Decided, Terminal
    <2>. QED
      BY <1>2, <2>1, <2>2, <2>3, <2>4, SettledOver, TakenOverOver, StoppedOver DEF Written, StaysOver
  <1>3. (\E want \in SUBSET Backends : Appendable(row, want) /\ new = Appended(row, Missing(row, want)))
           => StaysOver(row, new)
    <2>1. \A want : Appendable(row, want) => ~Over(row)
      BY DEF Appendable, Over
    <2>2. \A T : Decided(Appended(row, T))
      BY DEF Appended, Row, Decided, Terminal
    <2>. QED
      BY <2>1, <2>2 DEF StaysOver
  <1>. QED
    BY <1>1, <1>2, <1>3, SettledOver, TakenOverOver, StoppedOver DEF Written

LEMMA RecoveredOver ==
  ASSUME NEW r, req[r] \in Row, Decided(req[r]), NEW due
  PROVE  StaysOver(req[r], Recovered(r, due))
  <1>1. Over(req[r]) => Recovered(r, due) = req[r]
    BY DEF Over, Finished, Recovered, Unfinished, Orphaned, Terminal
  <1>2. Recovered(r, due) = req[r] \/ Recovered(r, due).root = "manual_review"
    BY DEF Recovered, Row
  <1>. QED
    BY <1>1, <1>2 DEF StaysOver, Decided, Terminal

\* The tracker follows only what is tracked, and derives a settled root only from settled targets.
LEMMA ObservedOver ==
  ASSUME IInv, NEW r \in Rows, Decided(req[r]), Observed(r)
  PROVE  StaysOver(req[r], req'[r])
  <1>. DEFINE row == req[r]
  <1>1. r \in Requests /\ row \in Row /\ RowOK(row) /\ trk[r].row = row
    BY RowsOfRequests DEF IInv, RowsOK, Observed, SnapshotsOK, SnapshotOK
  <1>2. PICK q \in Outcomes(trk[r], "qb", FALSE), g \in Outcomes(trk[r], "gy", FALSE) :
           req'[r] = TrackedRow(trk[r], q, g)
    BY DEF Observed
  <1>. DEFINE back == [b \in Backends |-> IF b = "qb" THEN q ELSE g]
  <1>3. req'[r].back = back /\ req'[r].root = TrackerRoot(row.root, back)
    BY <1>1, <1>2 DEF TrackedRow, Row
  <1>4. back["qb"] = q /\ back["gy"] = g
    BY DEF Backends
  <1>5. /\ row.back["qb"] \notin Tracked => q = row.back["qb"]
        /\ row.back["gy"] \notin Tracked => g = row.back["gy"]
    BY <1>1 DEF Outcomes
  <1>6. \A x : x \in States(back) <=> x # "" /\ x \in {q, g}
    BY <1>4 DEF States, Backends
  <1>. HIDE DEF back
  <1>7. CASE row.root \in Terminal
    <2>1. Over(row)
      BY <1>1, <1>7, SettledIsOver
    <2>2. q = row.back["qb"] /\ g = row.back["gy"] /\ q \in Finished /\ g \in Finished
      BY <1>5, <2>1 DEF Over, Finished, Terminal, Tracked, Backends
    <2>3. TrackerRoot(row.root, back) \in Terminal
      <3>1. States(back) \subseteq Terminal \cup {"resubmitted"}
        BY <1>6, <2>2 DEF Finished, Terminal
      <3>2. "manual_review" \notin States(back) /\ "submitting" \notin States(back)
        BY <3>1 DEF Terminal
      <3>3. States(back) = {} => States(back) \cap {"downloading", "completed", "outcome_unknown"} = {}
        OBVIOUS
      <3>. HIDE DEF row
      <3>. QED
        BY <1>7, <3>1, <3>2, <3>3 DEF TrackerRoot, Terminal
    <2>. QED
      BY <1>3, <1>4, <2>2, <2>3 DEF StaysOver, Over, Decided, Finished, Terminal, Backends
  <1>8. CASE row.root \notin Terminal
    <2>1. TrackerRoot(row.root, back) \in Terminal => q # "manual_review" /\ g # "manual_review"
      BY <1>6, <1>8 DEF TrackerRoot, Terminal
    <2>2. Over(row) => TrackerRoot(row.root, back) = "resubmitted"
      BY <1>8 DEF Over, TrackerRoot
    <2>3. Over(row) => q \in Finished /\ g \in Finished
      BY <1>5 DEF Over, Finished, Terminal, Tracked, Backends
    <2>. QED
      BY <1>3, <1>4, <2>1, <2>2, <2>3 DEF StaysOver, Over, Decided, Backends
  <1>. QED
    BY <1>7, <1>8

\* Only the owner of the keys is succeeded, and only by a new row.
LEMMA StepInserts ==
  ASSUME IInv, [Next]_vars, ReviewNotSuperseded
  PROVE  \/ UNCHANGED <<made, canon>>
         \/ /\ made' = made + 1 /\ canon' = made + 1
            /\ req'[made + 1].root \notin Terminal
            /\ canon = 0 \/ req[canon].root \in Terminal
  <1>0. made \in Nat /\ (made < MaxRequests => made + 1 \in Requests) /\ req \in [Requests -> Row]
    BY RowsOfRequests DEF IInv, RowsOK
  <1>1. ASSUME NEW row, Insert(row), row.root \notin Terminal
        PROVE  made' = made + 1 /\ canon' = made + 1 /\ req'[made + 1].root \notin Terminal
    BY <1>0, <1>1 DEF Insert
  <1>2. OwnerRoot \in Terminal \cup {"none"} => canon = 0 \/ req[canon].root \in Terminal
    <2>1. canon # 0 => req[canon].root \in RootStates
      BY RowsOfRequests, RowParts DEF IInv, WorldOK, RowsOK
    <2>. QED
      BY <2>1 DEF OwnerRoot, RootStates, Terminal
  <1>3. ASSUME NEW s \in Submitters, Create(s), ~UNCHANGED <<made, canon>>
        PROVE  OwnerRoot \in Terminal \cup {"none"} /\ Insert(NewRow)
    BY <1>3 DEF Create
  <1>4. ASSUME NEW s \in Submitters, Succeed(s), ~UNCHANGED <<made, canon>>
        PROVE  OwnerRoot \in Terminal /\ \E T : Insert(Claimed(NewRow, T))
    <2>1. Supersedes(thr[s]) /\ Insert(Claimed(NewRow, thr[s].want))
      BY <1>4 DEF Succeed
    <2>2. ~UNCHANGED made
      BY <1>0, <2>1 DEF Insert
    <2>. QED
      BY <1>4, <2>1, <2>2 DEF Supersedes, ReviewNotSuperseded
  <1>5. NewRow.root \notin Terminal /\ \A T : Claimed(NewRow, T).root \notin Terminal
    BY DEF NewRow, Claimed, Terminal
  <1>6. \/ UNCHANGED <<made, canon>>
        \/ \E s \in Submitters : Create(s) \/ Succeed(s)
    <2>1. ASSUME NEW s \in Submitters, Submission(s)
          PROVE  UNCHANGED <<made, canon>> \/ Create(s) \/ Succeed(s)
      BY <2>1 DEF Submission, Submit, Claim, Append, Resubmit, Call, Record, LeaseFails,
                  RecordFails, Handle, Mark
    <2>. QED
      BY <2>1 DEF Next, CancelPending, Tracking, TrackRead, TrackApply, TaskMoves, RemoveIntent,
                  RemoveTask, RecoverStale, Restart, vars
  <1>. QED
    BY <1>1, <1>2, <1>3, <1>4, <1>5, <1>6

LEMMA SuccessionStep ==
  ASSUME IInv, SuccessionInv, [Next]_vars, ReviewNotSuperseded
  PROVE  SuccessionInv'
  <1>0. /\ made \in Nat /\ Rows \subseteq Requests /\ (made # 0 => made \in Rows)
        /\ \A r \in Rows : req[r] \in Row /\ RowOK(req[r])
    BY RowsOfRequests DEF IInv, RowsOK, Rows
  <1>1. ASSUME NEW r \in Rows PROVE StaysOver(req[r], req'[r])
    <2>1. req[r] \in Row /\ RowOK(req[r]) /\ Decided(req[r])
      BY <1>0 DEF SuccessionInv
    <2>2. CASE Reported(r)
      <3>1. PICK s \in Submitters : Record(s) /\ req'[r] = Receipt(thr[s], req[r])
        BY <2>2 DEF Reported
      <3>2. thr[s] \in Thread /\ thr[s].got \in Receipts /\ thr[s].todo # {}
        BY <3>1, AtWork DEF Record, ThreadOK
      <3>. QED
        BY <2>1, <3>1, <3>2, TurnOf, SettledOver DEF Receipt
    <2>. QED
      BY <2>1, <2>2, StepWrites, WrittenOver, RecoveredOver, ObservedOver
  <1>2. CASE UNCHANGED <<made, canon>>
    BY <1>1, <1>2 DEF SuccessionInv, StaysOver, Rows, Decided, Over
  <1>3. CASE /\ made' = made + 1 /\ canon' = made + 1
             /\ req'[made + 1].root \notin Terminal
             /\ canon = 0 \/ req[canon].root \in Terminal
    <2>1. \A r \in Rows : Over(req[r])
      BY <1>0, <1>3, SettledIsOver DEF SuccessionInv, Rows
    <2>2. \A r \in Rows : Decided(req'[r]) /\ Over(req'[r])
      BY <1>1, <2>1 DEF StaysOver
    <2>3. Decided(req'[made + 1])
      BY <1>3 DEF Decided
    <2>4. \A r \in Rows' : r \in Rows \/ r = made + 1
      BY <1>0, <1>3 DEF Rows
    <2>. QED
      BY <1>3, <2>2, <2>3, <2>4 DEF SuccessionInv, Decided, Over
  <1>. QED
    BY <1>2, <1>3, StepInserts

\* As long as nobody retries a row in manual review, a target of the resource is under
\* way in one row only, whatever is submitted, retried, recovered or late: the
\* counterexample to SingleFlight needs such a retry.
THEOREM SingleFlightUnlessReviewed == Spec /\ [][ReviewNotSuperseded]_vars => []SingleFlight
  <1>1. Init => SuccessionInv
    BY DEF Init, SuccessionInv, Rows
  <1>2. IInv /\ SuccessionInv /\ [Next]_vars /\ [ReviewNotSuperseded]_vars => SuccessionInv'
    <2>1. ASSUME UNCHANGED vars, SuccessionInv PROVE SuccessionInv'
      BY <2>1 DEF vars, SuccessionInv, Rows, Decided, Over
    <2>. QED
      BY <2>1, SuccessionStep
  <1>3. ASSUME IInv, SuccessionInv PROVE SingleFlight
    <2>1. ASSUME NEW b \in Backends
          PROVE  Cardinality({r \in Rows : req[r].back[b] \in Active}) <= 1
      <3>. DEFINE busy == {r \in Rows : req[r].back[b] \in Active}
      <3>1. busy \subseteq {made}
        BY <1>3 DEF SuccessionInv, Over, Finished, Terminal, Active, Tracked
      <3>2. Cardinality(busy) <= Cardinality({made}) /\ Cardinality({made}) = 1
        BY <3>1, FS_Subset, FS_Singleton
      <3>. QED
        BY <3>2
    <2>. QED
      BY <2>1 DEF SingleFlight
  <1>4. IInv /\ SuccessionInv => SingleFlight
    BY <1>3
  <1>. QED
    BY <1>1, <1>2, <1>4, InductiveInvariant, PTL DEF Spec

-----------------------------------------------------------------------------
(* The lifecycle of a target.                                              *)

\* The ways a target's status may change.
Lifecycle ==
    ({"", "failed"} \X {"submitting"})                                    \* claimed
    \cup ({"submitting"} \X (Receipts \cup {"manual_review"}))            \* reported, or never
    \cup (Tracked \X {"downloading", "completed", "failed", "manual_review"})  \* followed
    \cup ((Active \cup {"manual_review"}) \X {"cancelled"})               \* removed by the user
    \cup ({"failed", "manual_review"} \X {"resubmitted"})                 \* handed to a successor

Follows(row, new) ==
    \A b \in Backends : <<row.back[b], new.back[b]>> \in Lifecycle \/ new.back[b] = row.back[b]

FollowsLifecycle == [][\A r \in Rows : Follows(req[r], req'[r])]_vars

LEMMA SettledFollows ==
  ASSUME NEW row \in Row, NEW b \in Backends, NEW state \in Receipts \cup {"manual_review"}, NEW bound
  PROVE  Follows(row, Settled(row, b, state, bound))
  <1>1. CASE ~Finalizable(row, b)
    BY <1>1 DEF Settled, Follows
  <1>2. CASE Finalizable(row, b)
    <2>1. Settled(row, b, state, bound).back = [row.back EXCEPT ![b] = state]
      BY <1>2 DEF Settled, Finalized, Row
    <2>2. <<row.back[b], state>> \in Lifecycle
      BY <1>2 DEF Finalizable, Lifecycle
    <2>. QED
      BY <2>1, <2>2, RowParts DEF Follows
  <1>. QED
    BY <1>1, <1>2

LEMMA StoppedFollows == ASSUME NEW row \in Row PROVE Follows(row, Stopped(row))
  <1>1. CASE ~Stoppable(row)
    BY <1>1 DEF Stopped, Follows
  <1>2. CASE Stoppable(row)
    <2>1. Stopped(row).back = [row.back EXCEPT !["qb"] = "cancelled"]
      BY <1>2 DEF Stopped, Row
    <2>2. <<row.back["qb"], "cancelled">> \in Lifecycle
      BY <1>2 DEF Stoppable, Lifecycle
    <2>. QED
      BY <2>1, <2>2, RowParts DEF Follows
  <1>. QED
    BY <1>1, <1>2

LEMMA WrittenFollows ==
  ASSUME NEW row \in Row, RowOK(row), NEW new, Written(row, new)
  PROVE  Follows(row, new)
  <1>1. CASE new = row
    BY <1>1 DEF Follows
  <1>2. ASSUME row.root = "pending", NEW T \in SUBSET Backends PROVE Follows(row, Claimed(row, T))
    <2>1. \A b \in Backends : row.back[b] = ""
      BY <1>2 DEF RowOK, Backends
    <2>2. Claimed(row, T).back = [b \in Backends |-> IF b \in T THEN "submitting" ELSE ""]
      BY DEF Claimed, Row
    <2>. QED
      BY <2>1, <2>2 DEF Follows, Lifecycle
  <1>3. Follows(row, Withdrawn(row))
    BY DEF Withdrawn, Row, Follows
  <1>4. ASSUME NEW want \in SUBSET Backends PROVE Follows(row, Appended(row, Missing(row, want)))
    BY DEF Appended, Missing, Row, Follows, Lifecycle
  <1>5. ASSUME NEW T \in SUBSET Backends PROVE Follows(row, TakenOver(row, T))
    BY DEF TakenOver, Row, Follows, Lifecycle
  <1>. QED
    BY <1>1, <1>2, <1>3, <1>4, <1>5, SettledFollows, StoppedFollows DEF Written

LEMMA RecoveredFollows ==
  ASSUME NEW r, req[r] \in Row, NEW due
  PROVE  Follows(req[r], Recovered(r, due))
  BY DEF Recovered, Unfinished, Row, Follows, Lifecycle

\* What a round of the tracker may find.
LEMMA OutcomeFollows ==
  ASSUME NEW shot, NEW b \in Backends,
         shot.row.back[b] \in Tracked => shot.seen[b] \in JobStates,
         NEW o \in Outcomes(shot, b, FALSE)
  PROVE  <<shot.row.back[b], o>> \in Lifecycle \/ o = shot.row.back[b]
  <1>. DEFINE state == shot.row.back[b]
              known == {state, "downloading", "completed", "failed", "manual_review"}
              After(expired) == UNION {Followed(state, b, m, expired) : m \in Matches(shot, b)}
  <1>1. CASE state \notin Tracked
    BY <1>1 DEF Outcomes
  <1>2. CASE state \in Tracked
    <2>1. Matches(shot, b) \subseteq JobStates \cup {"partial"}
      BY <1>2 DEF Matches, JobStates
    <2>2. ASSUME NEW expired \in BOOLEAN, NEW m \in Matches(shot, b)
          PROVE  Followed(state, b, m, expired) \subseteq known
      <3>1. CASE m = "absent"
        BY <3>1 DEF Followed, Unfound
      <3>2. CASE m # "absent"
        BY <3>2, <2>1 DEF Followed, JobStates
      <3>. QED
        BY <3>1, <3>2
    <2>3. \A expired \in BOOLEAN : After(expired) \subseteq known
      BY <2>2
    <2>4. o \in {state} \cup After(TRUE) \cup After(FALSE)
      BY <1>2 DEF Outcomes
    <2>5. o \in known
      BY <2>3, <2>4
    <2>. QED
      BY <1>2, <2>5 DEF Lifecycle
  <1>. QED
    BY <1>1, <1>2

LEMMA ObservedFollows ==
  ASSUME IInv, NEW r \in Rows, Observed(r)
  PROVE  Follows(req[r], req'[r])
  <1>1. r \in Requests /\ req[r] \in Row /\ trk[r] # NoSnapshot
    BY RowsOfRequests DEF IInv, RowsOK, Observed
  <1>2. /\ trk[r].row = req[r]
        /\ \A b \in Backends : req[r].back[b] \in Tracked => trk[r].seen[b] \in JobStates
    BY <1>1 DEF IInv, SnapshotsOK, SnapshotOK
  <1>3. PICK q \in Outcomes(trk[r], "qb", FALSE), g \in Outcomes(trk[r], "gy", FALSE) :
           req'[r] = TrackedRow(trk[r], q, g)
    BY DEF Observed
  <1>4. req'[r].back = [c \in Backends |-> IF c = "qb" THEN q ELSE g]
    BY <1>1, <1>2, <1>3 DEF TrackedRow, Row
  <1>5. ASSUME NEW b \in Backends
        PROVE  <<req[r].back[b], req'[r].back[b]>> \in Lifecycle \/ req'[r].back[b] = req[r].back[b]
    <2>1. req'[r].back[b] \in Outcomes(trk[r], b, FALSE)
      BY <1>3, <1>4 DEF Backends
    <2>. QED
      BY <1>2, <2>1, OutcomeFollows
  <1>. QED
    BY <1>5 DEF Follows

LEMMA StepFollows == ASSUME IInv, [Next]_vars, NEW r \in Rows PROVE Follows(req[r], req'[r])
  <1>1. r \in Requests /\ req[r] \in Row /\ RowOK(req[r])
    BY RowsOfRequests DEF IInv, RowsOK
  <1>2. CASE Reported(r)
    <2>1. PICK s \in Submitters : Record(s) /\ req'[r] = Receipt(thr[s], req[r])
      BY <1>2 DEF Reported
    <2>2. Turn(thr[s]) \in Backends /\ thr[s].got \in Receipts
      BY <2>1, AtWork, TurnOf DEF Record, ThreadOK
    <2>. QED
      BY <1>1, <2>1, <2>2, SettledFollows DEF Receipt
  <1>. QED
    BY <1>1, <1>2, StepWrites, WrittenFollows, RecoveredFollows, ObservedFollows

\* The status of a target changes only along the lifecycle, whoever is late: it is claimed
\* only while it has no task or failed, so never after an unknown outcome or from manual
\* review, and only a target that is tracked completes.
THEOREM LifecycleKept == Spec => FollowsLifecycle
  <1>1. IInv /\ [Next]_vars => \A r \in Rows : Follows(req[r], req'[r])
    BY StepFollows
  <1>. QED
    BY <1>1, InductiveInvariant, PTL DEF Spec, FollowsLifecycle

\* The statuses that are final for a target.
Final == {"completed", "cancelled", "resubmitted"}

FinalStays ==
    [][\A r \in Rows, b \in Backends :
         req[r].back[b] \in Final => req'[r].back[b] = req[r].back[b]]_vars

\* A target that is completed, cancelled or handed over stays what it is: no late
\* receipt, snapshot, recovery, retry or removal reopens or rewrites it.
THEOREM FinalForGood == Spec => FinalStays
  <1>1. ASSUME \A r \in Rows : Follows(req[r], req'[r])
        PROVE  \A r \in Rows, b \in Backends :
                 req[r].back[b] \in Final => req'[r].back[b] = req[r].back[b]
    BY <1>1 DEF Follows, Lifecycle, Final, Active, Tracked
  <1>2. IInv /\ [Next]_vars =>
          \A r \in Rows, b \in Backends :
             req[r].back[b] \in Final => req'[r].back[b] = req[r].back[b]
    BY <1>1, StepFollows
  <1>. QED
    BY <1>2, InductiveInvariant, PTL DEF Spec, FinalStays

=============================================================================
