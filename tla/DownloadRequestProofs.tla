----------------------- MODULE DownloadRequestProofs -----------------------
(***************************************************************************)
(* What no interleaving of submissions, retries, receipts, cancellations,  *)
(* recoveries and observations does to the rows of a resource, for any     *)
(* number of threads, requests and faults.  The argument is made row by    *)
(* row: every write of the repository takes a good row to a good one.      *)
(***************************************************************************)
EXTENDS DownloadRequest, TLAPS

\* What the statuses of a row say of each other.
RowOK(row) ==
    LET q == row.back["qb"]  g == row.back["gy"]
    IN  /\ row.root \in Terminal => q \notin Active /\ g \notin Active
        /\ row.root = "submitting" => q = "submitting" \/ g = "submitting"
        /\ row.root = "pending" => q = "" /\ g = ""
        /\ row.root = "cancelled" => {q, g} \subseteq {"", "cancelled", "resubmitted"}

\* What a write may not do to a row.
Keeps(row, new) ==
    /\ row.back["qb"] = "cancelled" => new.back["qb"] = "cancelled"
    /\ row.root = "cancelled" => new = row
    /\ row.root = "resubmitted" => new.root \in {"resubmitted", "manual_review"}

Good(row) == row \in Row /\ RowOK(row)
Evolves(row, new) == Good(new) /\ Keeps(row, new)

-----------------------------------------------------------------------------
LEMMA RowParts ==
  ASSUME NEW row \in Row
  PROVE  /\ row.root \in RootStates /\ row.bound \in BOOLEAN
         /\ row.back \in [Backends -> BackendStates]
         /\ row.back["qb"] \in BackendStates /\ row.back["gy"] \in BackendStates
  BY DEF Row, Backends

LEMMA StatesOf ==
  ASSUME NEW back \in [Backends -> BackendStates]
  PROVE  /\ \A x : x \in States(back) <=> x # "" /\ x \in {back["qb"], back["gy"]}
         /\ \A S : "" \notin S =>
              (States(back) \cap S # {} <=> back["qb"] \in S \/ back["gy"] \in S)
  <1>1. \A x : x \in States(back) <=> x # "" /\ x \in {back["qb"], back["gy"]}
    BY DEF States, Backends
  <1>2. ASSUME NEW S, "" \notin S
        PROVE  States(back) \cap S # {} <=> back["qb"] \in S \/ back["gy"] \in S
    BY <1>1, <1>2
  <1>. QED
    BY <1>1, <1>2

\* A row whose root was derived from its targets by finalize_download_request_submission.
LEMMA SubmissionRootOK ==
  ASSUME NEW row \in Row, row.root = SubmissionRoot(row.back)
  PROVE  RowOK(row)
  <1>. DEFINE q == row.back["qb"]
              g == row.back["gy"]
              back == row.back
  <1>1. back \in [Backends -> BackendStates]
    BY RowParts
  <1>2. /\ "manual_review" \in States(back) <=> q = "manual_review" \/ g = "manual_review"
        /\ "submitting" \in States(back) <=> q = "submitting" \/ g = "submitting"
        /\ States(back) \cap Tracked # {} <=> q \in Tracked \/ g \in Tracked
    BY <1>1, StatesOf DEF Tracked
  <1>3. SubmissionRoot(back) \notin {"pending", "cancelled"}
    BY DEF SubmissionRoot
  <1>4. SubmissionRoot(back) = "submitting" => q = "submitting" \/ g = "submitting"
    BY <1>2 DEF SubmissionRoot
  <1>5. SubmissionRoot(back) \in Terminal => q \notin Active /\ g \notin Active
    BY <1>2 DEF SubmissionRoot, Terminal, Active
  <1>. QED
    BY <1>3, <1>4, <1>5 DEF RowOK

LEMMA SubmissionRootType ==
  ASSUME NEW back
  PROVE  SubmissionRoot(back) \in RootStates
  BY DEF SubmissionRoot, RootStates, Terminal

LEMMA StutterOK == ASSUME NEW row, Good(row) PROVE Evolves(row, row)
  BY DEF Evolves, Keeps

\* A new claim of targets T on a row that waits, or on a new row.
LEMMA ClaimedOK ==
  ASSUME NEW row \in Row, RowOK(row), row.root = "pending", NEW T \in SUBSET Backends, T # {}
  PROVE  Evolves(row, Claimed(row, T))
  <1>. DEFINE back == [b \in Backends |-> IF b \in T THEN "submitting" ELSE ""]
              new == Claimed(row, T)
  <1>1. back \in [Backends -> BackendStates]
    BY DEF BackendStates, Active
  <1>2. new.root = "submitting" /\ new.back = back /\ new \in Row
    BY <1>1 DEF Claimed, Row, RootStates
  <1>3. back["qb"] = "submitting" \/ back["gy"] = "submitting"
    BY DEF Backends
  <1>4. row.back["qb"] = ""
    BY DEF RowOK
  <1>. QED
    BY <1>2, <1>3, <1>4 DEF Evolves, Good, RowOK, Keeps, Terminal

\* A claim that adds targets to a row.
LEMMA AppendedOK ==
  ASSUME NEW row \in Row, RowOK(row), NEW want \in SUBSET Backends, Appendable(row, want)
  PROVE  Evolves(row, Appended(row, Missing(row, want)))
  <1>. DEFINE T == Missing(row, want)
              back == [b \in Backends |-> IF b \in T THEN "submitting" ELSE row.back[b]]
              new == Appended(row, T)
  <1>1. back \in [Backends -> BackendStates]
    BY RowParts DEF BackendStates, Active
  <1>2. new.root = "submitting" /\ new.back = back /\ new \in Row
    BY <1>1, RowParts DEF Appended, Row, RootStates
  <1>3. T # {} /\ T \subseteq Backends
    BY DEF Appendable, Missing
  <1>4. back["qb"] = "submitting" \/ back["gy"] = "submitting"
    BY <1>3 DEF Backends
  <1>5. row.back["qb"] = "cancelled" => back["qb"] = "cancelled"
    BY DEF Missing, Backends
  <1>6. row.root \notin {"cancelled", "resubmitted"}
    BY DEF Appendable, Terminal
  <1>. QED
    BY <1>2, <1>4, <1>5, <1>6 DEF Evolves, Good, RowOK, Keeps, Terminal

\* A receipt, or what replaces one.
LEMMA SettledOK ==
  ASSUME NEW row \in Row, RowOK(row), NEW b \in Backends,
         NEW state \in Receipts \cup {"manual_review"}, NEW bound \in BOOLEAN
  PROVE  Evolves(row, Settled(row, b, state, bound))
  <1>1. CASE ~Finalizable(row, b)
    BY <1>1, StutterOK DEF Settled, Good
  <1>2. CASE Finalizable(row, b)
    <2>. DEFINE back == [row.back EXCEPT ![b] = state]
                new == Finalized(row, b, state, bound)
    <2>1. back \in [Backends -> BackendStates]
      BY RowParts DEF Receipts, BackendStates, Active, Tracked, Terminal
    <2>2. new \in Row /\ new.root = SubmissionRoot(back) /\ new.back = back
      BY <2>1, RowParts, SubmissionRootType DEF Finalized, Row
    <2>3. RowOK(new)
      BY <2>2, SubmissionRootOK
    <2>4. row.back["qb"] = "cancelled" => back["qb"] = "cancelled"
      BY <1>2, RowParts DEF Finalizable, Backends
    <2>5. row.root \notin {"cancelled", "resubmitted"}
      BY <1>2 DEF Finalizable
    <2>. QED
      BY <1>2, <2>2, <2>3, <2>4, <2>5 DEF Settled, Evolves, Good, Keeps
  <1>. QED
    BY <1>1, <1>2

\* The user stops the qB task of a row.
LEMMA StoppedOK ==
  ASSUME NEW row \in Row, RowOK(row)
  PROVE  Evolves(row, Stopped(row))
  <1>1. CASE ~Stoppable(row)
    BY <1>1, StutterOK DEF Stopped, Good
  <1>2. CASE Stoppable(row)
    <2>. DEFINE new == Stopped(row)
                gy == row.back["gy"]
    <2>1. gy \in BackendStates
      BY RowParts
    <2>2. StoppedRoot(row) \in RootStates
      BY <2>1 DEF StoppedRoot, RootStates, BackendStates, Active, Tracked, Terminal
    <2>3. /\ new \in Row /\ new.root = StoppedRoot(row)
          /\ new.back["qb"] = "cancelled" /\ new.back["gy"] = gy
      BY <1>2, <2>2, RowParts DEF Stopped, Row, Backends, BackendStates, Terminal
    <2>4. row.root \in RootStates \ {"cancelled"}
      BY <1>2, RowParts DEF Stoppable
    <2>5. RowOK(new)
      BY <2>1, <2>3 DEF RowOK, StoppedRoot, BackendStates, Active, Tracked, Terminal
    <2>6. row.root = "resubmitted" => new.root = "resubmitted"
      BY <2>3 DEF StoppedRoot
    <2>. QED
      BY <2>3, <2>4, <2>5, <2>6 DEF Evolves, Good, Keeps
  <1>. QED
    BY <1>1, <1>2

\* A retry takes targets over.
LEMMA TakenOverOK ==
  ASSUME NEW row \in Row, RowOK(row), NEW T
  PROVE  Evolves(row, TakenOver(row, T))
  <1>. DEFINE Over(state) == IF state \in {"failed", "manual_review"} THEN "resubmitted" ELSE state
              back == [b \in Backends |-> IF b \in T THEN Over(row.back[b]) ELSE row.back[b]]
              new == TakenOver(row, T)
  <1>1. back \in [Backends -> BackendStates]
    BY RowParts DEF BackendStates
  <1>2. Over(row.root) \in RootStates
    BY RowParts DEF RootStates
  <1>3. new \in Row /\ new.root = Over(row.root) /\ new.back = back /\ new.bound = row.bound
    BY <1>1, <1>2, RowParts DEF TakenOver, Row
  <1>4. /\ back["qb"] \in {row.back["qb"], "resubmitted"}
        /\ back["gy"] \in {row.back["gy"], "resubmitted"}
        /\ row.back["qb"] \notin {"failed", "manual_review"} => back["qb"] = row.back["qb"]
        /\ row.back["gy"] \notin {"failed", "manual_review"} => back["gy"] = row.back["gy"]
    BY DEF Backends
  <1>5. RowOK(new)
    BY <1>3, <1>4 DEF RowOK, Terminal, Active, Tracked
  <1>6. ASSUME row.root = "cancelled" PROVE new = row
    <2>1. back["qb"] = row.back["qb"] /\ back["gy"] = row.back["gy"]
      BY <1>4, <1>6 DEF RowOK
    <2>2. back = row.back
      BY <2>1, <1>1, RowParts DEF Backends
    <2>. QED
      BY <1>3, <1>6, <2>2 DEF Row
  <1>. QED
    BY <1>3, <1>4, <1>5, <1>6 DEF Evolves, Good, Keeps

\* A recovery, of whichever claims are due.
LEMMA RecoveredOK ==
  ASSUME NEW r, req[r] \in Row, RowOK(req[r]), NEW due
  PROVE  Evolves(req[r], Recovered(r, due))
  <1>. DEFINE row == req[r]
              U == Unfinished(r, due)
              back == [b \in Backends |-> IF b \in U THEN "manual_review" ELSE row.back[b]]
              new == Recovered(r, due)
  <1>1. CASE U = {} /\ ~Orphaned(row)
    BY <1>1, StutterOK DEF Recovered, Good
  <1>2. CASE ~(U = {} /\ ~Orphaned(row))
    <2>1. back \in [Backends -> BackendStates]
      BY RowParts DEF BackendStates
    <2>2. new \in Row /\ new.root = "manual_review" /\ new.back = back
      BY <1>2, <2>1, RowParts DEF Recovered, Row, RootStates
    <2>3. row.back["qb"] = "cancelled" => back["qb"] = "cancelled"
      BY DEF Unfinished, Backends
    <2>4. row.root # "cancelled"
      BY <1>2 DEF Orphaned, Unfinished, RowOK, Backends
    <2>. QED
      BY <2>2, <2>3, <2>4 DEF Evolves, Good, RowOK, Keeps, Terminal
  <1>. QED
    BY <1>1, <1>2

\* What a round of the tracker makes of one target.
LEMMA OutcomeOf ==
  ASSUME NEW shot, NEW b \in Backends, NEW thorough \in BOOLEAN,
         shot.row.back[b] \in Tracked => shot.seen[b] \in JobStates,
         NEW o \in Outcomes(shot, b, thorough)
  PROVE  \/ o = shot.row.back[b]
         \/ /\ shot.row.back[b] \in Tracked
            /\ o \in {"downloading", "completed", "failed", "manual_review"}
  <1>. DEFINE state == shot.row.back[b]
              After(expired) == UNION {Followed(state, b, m, expired) : m \in Matches(shot, b)}
  <1>1. CASE state \notin Tracked
    BY <1>1 DEF Outcomes
  <1>2. CASE state \in Tracked
    <2>1. shot.seen[b] \in {"absent", "running", "done", "failed"}
      BY <1>2 DEF JobStates
    <2>2. Matches(shot, b) \subseteq {"absent", "running", "done", "failed", "partial"}
      BY <2>1 DEF Matches
    <2>3. ASSUME NEW expired \in BOOLEAN, NEW m \in Matches(shot, b)
          PROVE  Followed(state, b, m, expired)
                   \subseteq {state, "downloading", "completed", "failed", "manual_review"}
      <3>1. CASE m = "absent"
        BY <3>1 DEF Followed, Unfound
      <3>2. CASE m # "absent"
        BY <3>2, <2>2 DEF Followed
      <3>. QED
        BY <3>1, <3>2
    <2>4. \A expired \in BOOLEAN :
             After(expired) \subseteq {state, "downloading", "completed", "failed", "manual_review"}
      BY <2>3
    <2>5. o \in {state} \cup After(TRUE) \cup After(FALSE)
      BY <1>2 DEF Outcomes
    <2>. QED
      BY <1>2, <2>4, <2>5
  <1>. QED
    BY <1>1, <1>2

\* A row that a round of the tracker leads to.
LEMMA TrackedOK ==
  ASSUME NEW shot, shot.row \in Row, RowOK(shot.row), NEW thorough \in BOOLEAN,
         \A b \in Backends : shot.row.back[b] \in Tracked => shot.seen[b] \in JobStates,
         NEW q \in Outcomes(shot, "qb", thorough), NEW g \in Outcomes(shot, "gy", thorough)
  PROVE  Evolves(shot.row, TrackedRow(shot, q, g))
  <1>. DEFINE row == shot.row
              back == [b \in Backends |-> IF b = "qb" THEN q ELSE g]
              root == TrackerRoot(row.root, back)
              new == TrackedRow(shot, q, g)
  <1>1. new = [row EXCEPT !.back = back, !.root = root]
    BY DEF TrackedRow
  <1>2. /\ \/ q = row.back["qb"]
           \/ row.back["qb"] \in Tracked /\ q \in {"downloading", "completed", "failed", "manual_review"}
        /\ \/ g = row.back["gy"]
           \/ row.back["gy"] \in Tracked /\ g \in {"downloading", "completed", "failed", "manual_review"}
    BY OutcomeOf DEF Backends
  <1>3. q \in BackendStates /\ g \in BackendStates
    BY <1>2, RowParts DEF BackendStates, Active, Tracked, Terminal
  <1>4. back \in [Backends -> BackendStates] /\ back["qb"] = q /\ back["gy"] = g
    BY <1>3 DEF Backends
  <1>5. \A x : x \in States(back) <=> x # "" /\ (x = q \/ x = g)
    BY <1>4, StatesOf
  <1>6. root \in RootStates
    BY RowParts DEF TrackerRoot, RootStates, Terminal
  <1>7. new \in Row /\ new.root = root /\ new.back = back /\ new.bound = row.bound
    BY <1>1, <1>4, <1>6, RowParts DEF Row
  <1>8. RowOK(new)
    <2>1. root = "submitting" => q = "submitting" \/ g = "submitting"
      <3>1. CASE "submitting" \in States(back)
        BY <3>1, <1>5
      <3>2. CASE "submitting" \notin States(back)
        <4>1. root = "submitting" => row.root = "submitting"
          BY <3>2 DEF TrackerRoot
        <4>2. row.root = "submitting" => q = "submitting" \/ g = "submitting"
          BY <1>2 DEF RowOK, Tracked
        <4>. QED
          BY <4>1, <4>2
      <3>. QED
        BY <3>1, <3>2
    <2>2. root \in Terminal => q \notin Active /\ g \notin Active
      BY <1>2, <1>5 DEF TrackerRoot, RowOK, Terminal, Active, Tracked
    <2>3. root = "pending" => q = "" /\ g = ""
      BY <1>2, <1>5 DEF TrackerRoot, RowOK, Tracked
    <2>4. root = "cancelled" => {q, g} \subseteq {"", "cancelled", "resubmitted"}
      BY <1>2, <1>3, <1>5 DEF TrackerRoot, RowOK, Tracked, Terminal
    <2>. QED
      BY <1>4, <1>7, <2>1, <2>2, <2>3, <2>4 DEF RowOK
  <1>9. row.root = "resubmitted" => new.root = "resubmitted"
    BY <1>7 DEF TrackerRoot
  <1>10. row.back["qb"] = "cancelled" => new.back["qb"] = "cancelled"
    BY <1>2, <1>4, <1>7 DEF Tracked
  <1>11. ASSUME row.root = "cancelled" PROVE new = row
    <2>1. q = row.back["qb"] /\ g = row.back["gy"]
      BY <1>2, <1>11 DEF RowOK, Tracked
    <2>2. back = row.back
      BY <2>1, <1>4, RowParts DEF Backends
    <2>3. root = "cancelled"
      <3>1. States(back) \subseteq {"cancelled", "resubmitted"}
        BY <1>5, <2>1, <1>11 DEF RowOK
      <3>. QED
        BY <3>1, <1>11 DEF TrackerRoot, Terminal
    <2>. QED
      BY <1>7, <1>11, <2>2, <2>3 DEF Row
  <1>. QED
    BY <1>7, <1>8, <1>9, <1>10, <1>11 DEF Evolves, Good, Keeps

-----------------------------------------------------------------------------
(* The inductive invariant.                                                *)

Places == {"idle", "create", "claim", "append", "succeed", "call", "record", "handle", "mark"}

Thread == [pc : Places, r : Nat, want : SUBSET Backends, todo : SUBSET Backends,
           via : {"", "persist", "append", "retry"}, src : Nat,
           was : RootStates \cup {""}, got : Receipts \cup {""}, ok : {"no", "yes", "late"}]

\* What a thread holds at each place, when n rows exist.
ThreadOK(t, n) ==
    /\ t.r \in 0 .. n /\ t.src \in 0 .. n
    /\ t.pc \notin {"idle", "create", "succeed"} => t.r # 0
    /\ t.pc \in {"succeed", "mark"} \/ t.via = "retry" => t.src # 0
    /\ t.pc # "idle" => t.want # {}
    /\ t.todo \subseteq t.want
    /\ t.pc = "record" <=> t.got \in Receipts
    /\ t.pc \in {"call", "record", "handle"} => t.todo # {}

ThreadsOK ==
    /\ thr \in [Submitters -> Thread]
    /\ \A s \in Submitters : ThreadOK(thr[s], made)

RowsOK == req \in [Requests -> Row] /\ \A r \in Requests : RowOK(req[r])

\* A snapshot that is still there is one of the row as it is.
SnapshotOK(shot, row) ==
    /\ shot.row = row
    /\ \A b \in Backends : IF row.back[b] \in Tracked THEN shot.seen[b] \in JobStates
                                                      ELSE shot.seen[b] = ""

SnapshotsOK ==
    /\ trk = [r \in Requests |-> trk[r]]
    /\ \A r \in Requests : trk[r] # NoSnapshot => r \in Rows /\ SnapshotOK(trk[r], req[r])

WorldOK ==
    /\ made \in 0 .. MaxRequests /\ canon \in 0 .. made
    /\ job \in [Requests \X Backends -> JobStates]
    /\ removal \in {"idle", "remote"}

IInv == WorldOK /\ RowsOK /\ ThreadsOK /\ SnapshotsOK

\* What every step does to the rows.
RowsKept == \A r \in Rows : Keeps(req[r], req'[r])

-----------------------------------------------------------------------------
LEMMA RowsOfRequests ==
  ASSUME WorldOK
  PROVE  /\ made \in Nat /\ Rows \subseteq Requests
         /\ \A r \in 0 .. made : r # 0 => r \in Rows
         /\ made < MaxRequests => made + 1 \in Requests
  BY BoundsAssumption DEF WorldOK, Rows, Requests

LEMMA StoreOK ==
  ASSUME RowsOK, WorldOK, NEW r \in Requests, NEW row, Evolves(req[r], row), Store(r, row)
  PROVE  RowsOK' /\ RowsKept
  <1>1. req' = [req EXCEPT ![r] = row] /\ row \in Row /\ RowOK(row) /\ Keeps(req[r], row)
    BY DEF Store, Evolves, Good
  <1>2. \A x \in Requests : Keeps(req[x], req[x])
    BY DEF Keeps
  <1>3. req' \in [Requests -> Row]
    BY <1>1 DEF RowsOK
  <1>4. \A x \in Requests : req'[x] = IF x = r THEN row ELSE req[x]
    BY <1>1 DEF RowsOK
  <1>. HIDE DEF Keeps, RowOK
  <1>5. \A x \in Requests : RowOK(req'[x])
    BY <1>1, <1>4 DEF RowsOK
  <1>6. \A x \in Requests : RowOK(req[x])'
    BY <1>5
  <1>7. \A x \in Rows : Keeps(req[x], req'[x])
    BY <1>1, <1>2, <1>4, RowsOfRequests
  <1>. QED
    BY <1>3, <1>5, <1>7 DEF RowsOK, RowsKept, Requests, RowOK

LEMMA SameRowsOK ==
  ASSUME RowsOK, UNCHANGED req
  PROVE  RowsOK' /\ RowsKept
  <1>. QED
    BY DEF RowsOK, RowsKept, Requests, RowOK, Keeps

LEMMA KeepSnapshotsOK ==
  ASSUME SnapshotsOK, KeepSnapshots, made' = made
  PROVE  SnapshotsOK'
  <1>1. trk' = [r \in Requests |-> trk'[r]]
    BY DEF KeepSnapshots
  <1>2. ASSUME NEW r \in Requests, trk'[r] # NoSnapshot
        PROVE  r \in Rows /\ SnapshotOK(trk'[r], req'[r])
    <2>1. trk'[r] = trk[r] /\ trk[r].row = req'[r]
      BY <1>2 DEF KeepSnapshots, Current
    <2>2. r \in Rows /\ SnapshotOK(trk[r], req[r])
      BY <1>2, <2>1 DEF SnapshotsOK
    <2>. QED
      BY <2>1, <2>2 DEF SnapshotOK
  <1>. QED
    BY <1>1, <1>2 DEF SnapshotsOK, Requests, Rows, SnapshotOK, NoSnapshot

LEMMA SameSnapshotsOK ==
  ASSUME SnapshotsOK, WorldOK, UNCHANGED trk, made' \in {made, made + 1},
         \A r \in Rows : req'[r] = req[r]
  PROVE  SnapshotsOK'
  <1>1. trk' = [r \in Requests |-> trk'[r]]
    BY DEF SnapshotsOK
  <1>2. ASSUME NEW r \in Requests, trk'[r] # NoSnapshot
        PROVE  r \in 1 .. made' /\ SnapshotOK(trk'[r], req'[r])
    <2>1. r \in Rows /\ SnapshotOK(trk[r], req[r])
      BY <1>2 DEF SnapshotsOK
    <2>. QED
      BY <2>1, RowsOfRequests DEF Rows
  <1>. QED
    BY <1>1, <1>2 DEF SnapshotsOK, Requests, Rows, SnapshotOK, NoSnapshot

LEMMA BecomeOK ==
  ASSUME ThreadsOK, WorldOK, made' \in {made, made + 1}, NEW s \in Submitters,
         NEW t \in Thread, ThreadOK(t, made'), Become(s, t)
  PROVE  ThreadsOK'
  <1>1. thr' \in [Submitters -> Thread]
    BY DEF Become, ThreadsOK
  <1>2. ASSUME NEW x \in Submitters PROVE ThreadOK(thr'[x], made')
    <2>1. CASE x = s
      BY <2>1 DEF Become, ThreadsOK
    <2>2. CASE x # s
      <3>1. thr'[x] = thr[x] /\ ThreadOK(thr[x], made)
        BY <2>2 DEF Become, ThreadsOK
      <3>. QED
        BY <3>1, RowsOfRequests DEF ThreadOK
    <2>. QED
      BY <2>1, <2>2
  <1>. QED
    BY <1>1, <1>2 DEF ThreadsOK, ThreadOK, Thread

LEMMA IdleOK ==
  ASSUME NEW n \in Nat
  PROVE  IdleThread \in Thread /\ ThreadOK(IdleThread, n)
  BY DEF IdleThread, Thread, ThreadOK, Places, Receipts

LEMMA SameThreadsOK ==
  ASSUME ThreadsOK, UNCHANGED <<thr, made>>
  PROVE  ThreadsOK'
  BY DEF ThreadsOK, ThreadOK

LEMMA SameWorldOK ==
  ASSUME WorldOK, UNCHANGED <<made, canon, job, removal>>
  PROVE  WorldOK'
  BY DEF WorldOK

LEMMA TurnOf ==
  ASSUME NEW t \in Thread, t.todo # {}
  PROVE  Turn(t) \in t.todo /\ Turn(t) \in Backends
  BY DEF Turn, Thread, Backends

-----------------------------------------------------------------------------
(* The steps of the submitting threads.                                    *)

LEMMA SubmitStep ==
  ASSUME IInv, NEW s \in Submitters, Submit(s)
  PROVE  IInv' /\ RowsKept
  <1>1. WorldOK' /\ RowsOK' /\ RowsKept /\ SnapshotsOK'
    BY SameWorldOK, SameRowsOK, SameSnapshotsOK DEF Submit, IInv
  <1>. DEFINE To(pc, r, T) == [IdleThread EXCEPT !.pc = pc, !.r = r, !.want = T, !.via = "persist"]
  <1>2. PICK want \in Requested :
          \/ Become(s, To("create", 0, want))
          \/ Missing(req[canon], want) # {} /\ Become(s, To("create", 0, Missing(req[canon], want)))
          \/ canon # 0 /\ Become(s, To("claim", canon, want))
          \/ canon # 0 /\ Become(s, To("append", canon, want))
    BY DEF Submit, OwnerRoot
  <1>3. ASSUME NEW pc \in {"create", "claim", "append"}, NEW r \in 0 .. made, NEW T \in SUBSET Backends,
               T # {}, pc # "create" => r # 0
        PROVE  To(pc, r, T) \in Thread /\ ThreadOK(To(pc, r, T), made)
    <2>. DEFINE new == To(pc, r, T)
    <2>1. /\ new.pc = pc /\ new.r = r /\ new.want = T /\ new.todo = {}
          /\ new.via = "persist" /\ new.src = 0 /\ new.got = ""
      BY DEF IdleThread
    <2>2. made \in Nat /\ r \in Nat /\ pc \in Places
      BY RowsOfRequests DEF IInv, Places
    <2>3. To(pc, r, T) \in Thread
      BY <2>2 DEF IdleThread, Thread, Receipts, RootStates
    <2>4. ThreadOK(To(pc, r, T), made)
      <3>. HIDE DEF To
      <3>1. 0 \in 0 .. made /\ "" \notin Receipts
        BY <2>2 DEF Receipts
      <3>. QED
        BY <1>3, <2>1, <3>1 DEF ThreadOK
    <2>. QED
      BY <2>3, <2>4
  <1>4. want \in SUBSET Backends /\ want # {} /\ Missing(req[canon], want) \in SUBSET Backends
    BY RequestedAssumption DEF Missing
  <1>5. made' = made /\ canon \in 0 .. made /\ 0 \in 0 .. made
    BY RowsOfRequests DEF Submit, IInv, WorldOK
  <1>. HIDE DEF To
  <1>6. \E t \in Thread : ThreadOK(t, made) /\ Become(s, t)
    BY <1>2, <1>3, <1>4, <1>5
  <1>7. ThreadsOK'
    BY <1>5, <1>6, BecomeOK DEF IInv
  <1>. QED
    BY <1>1, <1>7 DEF IInv

\* A row that is inserted is a good one, and the others are as they were.
LEMMA InsertOK ==
  ASSUME WorldOK, RowsOK, NEW row, Good(row), Insert(row)
  PROVE  /\ RowsOK' /\ RowsKept
         /\ made' = made + 1 /\ made' \in 0 .. MaxRequests /\ canon' \in 0 .. made'
         /\ \A r \in Rows : req'[r] = req[r]
  <1>1. made + 1 \in Requests /\ made \in Nat /\ made < MaxRequests
    BY RowsOfRequests DEF Insert
  <1>2. made' = made + 1 /\ canon' = made + 1 /\ req' = [req EXCEPT ![made + 1] = row]
    BY DEF Insert
  <1>3. req' \in [Requests -> Row]
    BY <1>1, <1>2 DEF RowsOK, Good
  <1>4. \A x \in Requests : req'[x] = IF x = made + 1 THEN row ELSE req[x]
    BY <1>2 DEF RowsOK
  <1>5. \A r \in Rows : req'[r] = req[r]
    BY <1>1, <1>4, RowsOfRequests DEF Rows
  <1>. HIDE DEF RowOK
  <1>6. \A x \in Requests : RowOK(req'[x])
    BY <1>4 DEF RowsOK, Good
  <1>7. RowsKept
    BY <1>5 DEF RowsKept, Keeps
  <1>8. RowsOK'
    BY <1>3, <1>6 DEF RowsOK, Requests, RowOK
  <1>9. made' \in 0 .. MaxRequests /\ canon' \in 0 .. made'
    BY <1>1, <1>2, BoundsAssumption
  <1>. QED
    BY <1>2, <1>5, <1>7, <1>8, <1>9

\* A thread goes on to claim a row.
LEMMA AtRow ==
  ASSUME NEW t \in Thread, NEW n \in Nat, ThreadOK(t, n), t.pc = "create",
         NEW m \in {n, n + 1}, NEW r \in 0 .. m, r # 0
  PROVE  /\ [t EXCEPT !.pc = "claim", !.r = r] \in Thread
         /\ ThreadOK([t EXCEPT !.pc = "claim", !.r = r], m)
  <1>. DEFINE new == [t EXCEPT !.pc = "claim", !.r = r]
  <1>0. r \in Nat /\ "claim" \in Places
    BY DEF Places
  <1>1. new \in Thread
    BY <1>0 DEF Thread
  <1>2. /\ new.pc = "claim" /\ new.r = r /\ new.src = t.src /\ new.via = t.via
        /\ new.want = t.want /\ new.todo = t.todo /\ new.got = t.got
    BY DEF Thread
  <1>. QED
    BY <1>1, <1>2 DEF ThreadOK

LEMMA NewRowOK == Good(NewRow) /\ NewRow.root = "pending"
  BY DEF Good, NewRow, Row, RowOK, RootStates, BackendStates, Backends, Terminal, Active, Tracked

LEMMA CreateStep ==
  ASSUME IInv, NEW s \in Submitters, Create(s)
  PROVE  IInv' /\ RowsKept
  <1>. DEFINE t == thr[s]
  <1>1. t \in Thread /\ ThreadOK(t, made) /\ t.pc = "create"
    BY DEF Create, IInv, ThreadsOK
  <1>2. CASE OwnerRoot \notin Terminal \cup {"none"} /\ UNCHANGED <<made, canon, req>>
             /\ Become(s, [t EXCEPT !.pc = "claim", !.r = canon])
    <2>1. canon # 0 /\ canon \in 0 .. made
      BY <1>2 DEF OwnerRoot, IInv, WorldOK
    <2>2. /\ [t EXCEPT !.pc = "claim", !.r = canon] \in Thread
          /\ ThreadOK([t EXCEPT !.pc = "claim", !.r = canon], made)
      BY <1>1, <2>1, AtRow, RowsOfRequests DEF IInv
    <2>3. ThreadsOK'
      BY <1>2, <2>2, BecomeOK DEF IInv
    <2>. QED
      BY <1>2, <2>3, SameWorldOK, SameRowsOK, SameSnapshotsOK DEF Create, IInv
  <1>3. CASE Insert(NewRow) /\ Become(s, [t EXCEPT !.pc = "claim", !.r = made + 1])
    <2>1. /\ RowsOK' /\ RowsKept /\ made' = made + 1
          /\ made' \in 0 .. MaxRequests /\ canon' \in 0 .. made'
          /\ \A r \in Rows : req'[r] = req[r]
      BY <1>3, NewRowOK, InsertOK DEF IInv
    <2>2. WorldOK'
      BY <2>1 DEF IInv, WorldOK, Create
    <2>3. /\ [t EXCEPT !.pc = "claim", !.r = made + 1] \in Thread
          /\ ThreadOK([t EXCEPT !.pc = "claim", !.r = made + 1], made')
      <3>1. made + 1 \in 0 .. made' /\ made + 1 # 0 /\ made' \in {made, made + 1} /\ made \in Nat
        BY <2>1, RowsOfRequests DEF IInv
      <3>. QED
        BY <1>1, <3>1, AtRow
    <2>4. ThreadsOK'
      BY <1>3, <2>1, <2>3, BecomeOK DEF IInv
    <2>5. SnapshotsOK'
      BY <2>1, SameSnapshotsOK DEF IInv, Create
    <2>. QED
      BY <2>1, <2>2, <2>4, <2>5 DEF IInv
  <1>. QED
    BY <1>2, <1>3 DEF Create

\* Every step that writes at most one existing row, and drops the snapshots it makes stale.
LEMMA OneRowStep ==
  ASSUME IInv, NEW s \in Submitters, NEW t \in Thread, ThreadOK(t, made), Become(s, t),
         UNCHANGED <<made, canon, job, removal>>,
         \/ UNCHANGED req
         \/ \E r \in Rows : \E row : Evolves(req[r], row) /\ Store(r, row),
         KeepSnapshots \/ UNCHANGED <<trk, req>>
  PROVE  IInv' /\ RowsKept
  <1>1. WorldOK /\ RowsOK /\ ThreadsOK /\ SnapshotsOK /\ made' = made
    BY DEF IInv
  <1>2. RowsOK' /\ RowsKept
    BY <1>1, StoreOK, SameRowsOK, RowsOfRequests
  <1>3. SnapshotsOK'
    BY <1>1, KeepSnapshotsOK, SameSnapshotsOK
  <1>. QED
    BY <1>1, <1>2, <1>3, SameWorldOK, BecomeOK DEF IInv

\* What is known of a thread that works on a row.
LEMMA AtWork ==
  ASSUME IInv, NEW s \in Submitters, thr[s].pc \notin {"idle", "create", "succeed"}
  PROVE  /\ thr[s] \in Thread /\ ThreadOK(thr[s], made) /\ made \in Nat
         /\ thr[s].r \in Rows /\ thr[s].want \in SUBSET Backends /\ thr[s].want # {}
         /\ req[thr[s].r] \in Row /\ RowOK(req[thr[s].r])
  BY RowsOfRequests DEF IInv, ThreadsOK, ThreadOK, Thread, RowsOK

\* The thread that got its claim goes on to the calls.
LEMMA ToCalls ==
  ASSUME NEW t \in Thread, NEW n \in Nat, ThreadOK(t, n), t.got = "", t.r # 0,
         NEW T \in SUBSET Backends, T # {}, T \subseteq t.want,
         NEW via \in {t.via, "append"}
  PROVE  /\ [t EXCEPT !.pc = "call", !.via = via, !.todo = T] \in Thread
         /\ ThreadOK([t EXCEPT !.pc = "call", !.via = via, !.todo = T], n)
  <1>. DEFINE new == [t EXCEPT !.pc = "call", !.via = via, !.todo = T]
  <1>0. "call" \in Places /\ via \in {"", "persist", "append", "retry"}
    BY DEF Places, Thread
  <1>1. new \in Thread
    BY <1>0 DEF Thread
  <1>2. /\ new.pc = "call" /\ new.r = t.r /\ new.src = t.src /\ new.via = via
        /\ new.want = t.want /\ new.todo = T /\ new.got = t.got
    BY DEF Thread
  <1>. HIDE DEF new
  <1>3. ThreadOK(new, n)
    BY <1>2 DEF ThreadOK, Receipts
  <1>. QED
    BY <1>1, <1>3 DEF new

LEMMA ClaimStep ==
  ASSUME IInv, NEW s \in Submitters, Claim(s)
  PROVE  IInv' /\ RowsKept
  <1>. DEFINE t == thr[s]
  <1>1. t.pc = "claim"
    BY DEF Claim
  <1>2. /\ t \in Thread /\ ThreadOK(t, made) /\ made \in Nat /\ t.r \in Rows
        /\ t.want \in SUBSET Backends /\ t.want # {} /\ req[t.r] \in Row /\ RowOK(req[t.r])
    BY <1>1, AtWork
  <1>3. t.got = "" /\ t.r # 0
    BY <1>1, <1>2 DEF ThreadOK, Thread
  <1>4. UNCHANGED <<made, canon, job, removal>> /\ KeepSnapshots
    BY DEF Claim, counters
  <1>5. CASE /\ Claimable(req[t.r]) /\ Store(t.r, Claimed(req[t.r], t.want))
             /\ Become(s, [t EXCEPT !.pc = "call", !.todo = t.want])
    <2>1. Evolves(req[t.r], Claimed(req[t.r], t.want))
      BY <1>2, <1>5, ClaimedOK DEF Claimable
    <2>2. [t EXCEPT !.pc = "call", !.todo = t.want] = [t EXCEPT !.pc = "call", !.via = t.via, !.todo = t.want]
      BY <1>2 DEF Thread
    <2>3. /\ [t EXCEPT !.pc = "call", !.todo = t.want] \in Thread
          /\ ThreadOK([t EXCEPT !.pc = "call", !.todo = t.want], made)
      BY <1>2, <1>3, <2>2, ToCalls
    <2>. QED
      BY <1>2, <1>4, <1>5, <2>1, <2>3, OneRowStep
  <1>6. CASE Leave(s) /\ UNCHANGED req
    BY <1>2, <1>4, <1>6, IdleOK, OneRowStep DEF Leave
  <1>. QED
    BY <1>5, <1>6 DEF Claim

LEMMA AppendStep ==
  ASSUME IInv, NEW s \in Submitters, Append(s)
  PROVE  IInv' /\ RowsKept
  <1>. DEFINE t == thr[s]
              T == Missing(req[t.r], t.want)
  <1>1. t.pc = "append"
    BY DEF Append
  <1>2. /\ t \in Thread /\ ThreadOK(t, made) /\ made \in Nat /\ t.r \in Rows
        /\ t.want \in SUBSET Backends /\ t.want # {} /\ req[t.r] \in Row /\ RowOK(req[t.r])
    BY <1>1, AtWork
  <1>3. t.got = "" /\ t.r # 0
    BY <1>1, <1>2 DEF ThreadOK, Thread
  <1>4. UNCHANGED <<made, canon, job, removal>> /\ KeepSnapshots
    BY DEF Append, counters
  <1>5. CASE /\ Appendable(req[t.r], t.want) /\ Store(t.r, Appended(req[t.r], T))
             /\ Become(s, [t EXCEPT !.pc = "call", !.via = "append", !.todo = T])
    <2>1. Evolves(req[t.r], Appended(req[t.r], T))
      BY <1>2, <1>5, AppendedOK
    <2>2. T \in SUBSET Backends /\ T # {} /\ T \subseteq t.want
      BY <1>2, <1>5 DEF Appendable, Missing
    <2>3. /\ [t EXCEPT !.pc = "call", !.via = "append", !.todo = T] \in Thread
          /\ ThreadOK([t EXCEPT !.pc = "call", !.via = "append", !.todo = T], made)
      BY <1>2, <1>3, <2>2, ToCalls
    <2>. QED
      BY <1>2, <1>4, <1>5, <2>1, <2>3, OneRowStep
  <1>6. CASE Leave(s) /\ UNCHANGED req
    BY <1>2, <1>4, <1>6, IdleOK, OneRowStep DEF Leave
  <1>. QED
    BY <1>5, <1>6 DEF Append

LEMMA ResubmitStep ==
  ASSUME IInv, NEW s \in Submitters, Resubmit(s)
  PROVE  IInv' /\ RowsKept
  <1>1. UNCHANGED <<made, canon, job, removal, trk, req>>
    BY DEF Resubmit
  <1>. DEFINE There(src, want) == [IdleThread EXCEPT !.pc = "append", !.r = src, !.want = want]
              Anew(src, want) == [IdleThread EXCEPT !.pc = "succeed", !.src = src, !.want = want,
                                                    !.was = req[src].root, !.via = "retry"]
  <1>2. PICK src \in Rows, want \in Requested : Become(s, There(src, want)) \/ Become(s, Anew(src, want))
    BY DEF Resubmit
  <1>3. /\ want \in SUBSET Backends /\ want # {} /\ req[src].root \in RootStates
        /\ made \in Nat /\ src \in 0 .. made /\ src # 0 /\ src \in Nat
    BY RequestedAssumption, RowsOfRequests, RowParts DEF IInv, RowsOK, Rows
  <1>4. There(src, want) \in Thread /\ Anew(src, want) \in Thread
    BY <1>3 DEF IdleThread, Thread, Places
  <1>5. /\ There(src, want).pc = "append" /\ There(src, want).r = src /\ There(src, want).src = 0
        /\ There(src, want).want = want /\ There(src, want).todo = {}
        /\ There(src, want).via = "" /\ There(src, want).got = ""
    BY DEF IdleThread
  <1>6. /\ Anew(src, want).pc = "succeed" /\ Anew(src, want).r = 0 /\ Anew(src, want).src = src
        /\ Anew(src, want).want = want /\ Anew(src, want).todo = {}
        /\ Anew(src, want).via = "retry" /\ Anew(src, want).got = ""
    BY DEF IdleThread
  <1>7. 0 \in 0 .. made /\ "" \notin Receipts
    BY <1>3 DEF Receipts
  <1>. HIDE DEF There, Anew
  <1>8. ThreadOK(There(src, want), made) /\ ThreadOK(Anew(src, want), made)
    BY <1>3, <1>5, <1>6, <1>7 DEF ThreadOK
  <1>. QED
    BY <1>1, <1>2, <1>4, <1>8, OneRowStep

LEMMA SucceedStep ==
  ASSUME IInv, NEW s \in Submitters, Succeed(s)
  PROVE  IInv' /\ RowsKept
  <1>. DEFINE t == thr[s]
              next == [t EXCEPT !.pc = "call", !.r = made + 1, !.todo = t.want, !.was = ""]
  <1>1. /\ t \in Thread /\ ThreadOK(t, made) /\ t.pc = "succeed" /\ made \in Nat
        /\ t.want \in SUBSET Backends /\ t.want # {}
    BY RowsOfRequests DEF Succeed, IInv, ThreadsOK, ThreadOK, Thread
  <1>2. CASE Insert(Claimed(NewRow, t.want)) /\ Become(s, next)
    <2>1. Good(Claimed(NewRow, t.want))
      BY <1>1, NewRowOK, ClaimedOK DEF Good, Evolves
    <2>2. /\ RowsOK' /\ RowsKept /\ made' = made + 1
          /\ made' \in 0 .. MaxRequests /\ canon' \in 0 .. made'
          /\ \A r \in Rows : req'[r] = req[r]
      BY <1>2, <2>1, InsertOK DEF IInv
    <2>3. WorldOK'
      BY <2>2 DEF IInv, WorldOK, Succeed
    <2>4. next \in Thread
      <3>1. made + 1 \in Nat /\ "call" \in Places /\ "" \in RootStates \cup {""}
        BY <1>1 DEF Places
      <3>. QED
        BY <1>1, <3>1 DEF Thread
    <2>5. /\ next.pc = "call" /\ next.r = made + 1 /\ next.src = t.src /\ next.via = t.via
          /\ next.want = t.want /\ next.todo = t.want /\ next.got = t.got
      BY <1>1 DEF Thread
    <2>6. t.got \notin Receipts /\ t.src \in 0 .. made /\ t.src # 0
      BY <1>1 DEF ThreadOK
    <2>7. ThreadOK(next, made')
      <3>. HIDE DEF next
      <3>1. made + 1 \in 0 .. made' /\ t.src \in 0 .. made' /\ made + 1 # 0
        BY <1>1, <2>2, <2>6
      <3>. QED
        BY <1>1, <2>5, <2>6, <3>1 DEF ThreadOK
    <2>8. ThreadsOK'
      <3>. HIDE DEF next
      <3>. QED
        BY <1>2, <2>2, <2>4, <2>7, BecomeOK DEF IInv
    <2>9. SnapshotsOK'
      BY <2>2, SameSnapshotsOK DEF IInv, Succeed
    <2>. QED
      BY <2>2, <2>3, <2>8, <2>9 DEF IInv
  <1>3. CASE Leave(s) /\ UNCHANGED <<made, canon, req>>
    <2>1. UNCHANGED <<made, canon, job, removal, trk, req>>
      BY <1>3 DEF Succeed
    <2>. QED
      BY <1>1, <1>3, <2>1, IdleOK, OneRowStep DEF Leave
  <1>. QED
    BY <1>2, <1>3 DEF Succeed

LEMMA CallStep ==
  ASSUME IInv, NEW s \in Submitters, Call(s)
  PROVE  IInv' /\ RowsKept
  <1>. DEFINE t == thr[s]
              k == JobOf(t.r, Turn(t))
  <1>1. t.pc = "call"
    BY DEF Call
  <1>2. /\ t \in Thread /\ ThreadOK(t, made) /\ made \in Nat /\ t.r \in Rows
        /\ t.todo # {}
    BY <1>1, AtWork DEF ThreadOK
  <1>3. k \in Requests \X Backends
    BY <1>2, TurnOf, RowsOfRequests, BoundsAssumption DEF JobOf, IInv, Requests
  <1>4. PICK a \in Answers(k) : job' = [job EXCEPT ![k] = a[2]] /\ Become(s, [t EXCEPT !.pc = "record", !.got = a[1]])
    BY DEF Call
  <1>5. job[k] \in JobStates
    BY <1>3 DEF IInv, WorldOK
  <1>6. a[1] \in Receipts /\ a[2] \in JobStates
    BY <1>5 DEF Answers, Started, Receipts, JobStates
  <1>. DEFINE next == [t EXCEPT !.pc = "record", !.got = a[1]]
  <1>7. next \in Thread
    BY <1>2, <1>6 DEF Thread, Places
  <1>8. /\ next.pc = "record" /\ next.r = t.r /\ next.src = t.src /\ next.via = t.via
        /\ next.want = t.want /\ next.todo = t.todo /\ next.got = a[1]
    BY <1>2 DEF Thread
  <1>9. ThreadOK(next, made)
    <2>. HIDE DEF next
    <2>. QED
      BY <1>1, <1>2, <1>6, <1>8 DEF ThreadOK
  <1>10. ThreadsOK'
    <2>. HIDE DEF next
    <2>1. Become(s, next) /\ made' = made
      BY <1>4 DEF Call, next
    <2>. QED
      BY <1>7, <1>9, <2>1, BecomeOK DEF IInv
  <1>11. WorldOK'
    BY <1>4, <1>6 DEF IInv, WorldOK, Call, counters
  <1>. QED
    BY <1>10, <1>11, SameRowsOK, SameSnapshotsOK DEF IInv, Call

\* Where a thread is after a receipt.
LEMMA AfterReceiptOK ==
  ASSUME NEW t \in Thread, NEW n \in Nat, ThreadOK(t, n), t.pc = "record", NEW b
  PROVE  AfterReceipt(t, b) \in Thread /\ ThreadOK(AfterReceipt(t, b), n)
  <1>. DEFINE rest == t.todo \ {b}
              next == [t EXCEPT !.todo = rest, !.ok = Verdict(t, b), !.got = ""]
              call == [next EXCEPT !.pc = "call"]
              mark == [next EXCEPT !.pc = "mark"]
  <1>1. Verdict(t, b) \in {"no", "yes", "late"} /\ rest \in SUBSET Backends
    BY DEF Verdict, Thread
  <1>2. next \in Thread
    BY <1>1 DEF Thread
  <1>3. /\ next.r = t.r /\ next.src = t.src /\ next.via = t.via
        /\ next.want = t.want /\ next.todo = rest /\ next.got = ""
    BY DEF Thread
  <1>. HIDE DEF next
  <1>4. call \in Thread /\ mark \in Thread
    BY <1>2 DEF Thread, Places
  <1>5. /\ call.pc = "call" /\ call.r = t.r /\ call.src = t.src /\ call.via = t.via
        /\ call.want = t.want /\ call.todo = rest /\ call.got = ""
        /\ mark.pc = "mark" /\ mark.r = t.r /\ mark.src = t.src /\ mark.via = t.via
        /\ mark.want = t.want /\ mark.todo = rest /\ mark.got = ""
    BY <1>2, <1>3 DEF Thread
  <1>. HIDE DEF call, mark
  <1>6. (t.via = "retry" => ThreadOK(mark, n)) /\ (rest # {} => ThreadOK(call, n))
    BY <1>5 DEF ThreadOK, Receipts
  <1>7. AfterReceipt(t, b) = IF rest # {} THEN call
                             ELSE IF t.via = "retry" /\ Verdict(t, b) = "yes" THEN mark
                             ELSE IdleThread
    BY DEF AfterReceipt, call, mark, next
  <1>. QED
    BY <1>4, <1>6, <1>7, IdleOK

LEMMA RecordStep ==
  ASSUME IInv, NEW s \in Submitters, Record(s)
  PROVE  IInv' /\ RowsKept
  <1>. DEFINE t == thr[s]
              b == Turn(t)
              row == req[t.r]
  <1>1. t.pc = "record"
    BY DEF Record
  <1>2. /\ t \in Thread /\ ThreadOK(t, made) /\ made \in Nat /\ t.r \in Rows
        /\ row \in Row /\ RowOK(row)
    BY <1>1, AtWork
  <1>3. t.got \in Receipts /\ b \in Backends
    BY <1>1, <1>2, TurnOf DEF ThreadOK
  <1>4. Evolves(row, Settled(row, b, t.got, row.bound \/ b = "qb"))
    <2>1. (row.bound \/ b = "qb") \in BOOLEAN
      BY <1>2, RowParts
    <2>. QED
      BY <1>2, <1>3, <2>1, SettledOK
  <1>5. AfterReceipt(t, b) \in Thread /\ ThreadOK(AfterReceipt(t, b), made)
    BY <1>1, <1>2, AfterReceiptOK
  <1>. QED
    BY <1>2, <1>4, <1>5, OneRowStep DEF Record, counters

\* Where an exception leaves a thread.
LEMMA EscapeOK ==
  ASSUME IInv, NEW s \in Submitters, thr[s].pc \in {"call", "record"}, Escape(s)
  PROVE  \E t \in Thread : ThreadOK(t, made) /\ Become(s, t)
  <1>. DEFINE t == thr[s]
              next == [t EXCEPT !.pc = "handle", !.todo = t.want, !.got = ""]
  <1>1. /\ t \in Thread /\ ThreadOK(t, made) /\ made \in Nat /\ t.r \in Rows
        /\ t.want \in SUBSET Backends /\ t.want # {}
    BY AtWork
  <1>2. next \in Thread
    BY <1>1 DEF Thread, Places
  <1>3. /\ next.pc = "handle" /\ next.r = t.r /\ next.src = t.src /\ next.via = t.via
        /\ next.want = t.want /\ next.todo = t.want /\ next.got = ""
    BY <1>1 DEF Thread
  <1>4. Become(s, next) \/ Leave(s)
    BY DEF Escape
  <1>. HIDE DEF next
  <1>5. ThreadOK(next, made)
    BY <1>1, <1>3 DEF ThreadOK, Receipts
  <1>. QED
    BY <1>1, <1>2, <1>4, <1>5, IdleOK DEF Leave

LEMMA LeaseFailsStep ==
  ASSUME IInv, NEW s \in Submitters, LeaseFails(s)
  PROVE  IInv' /\ RowsKept
  <1>1. \E t \in Thread : ThreadOK(t, made) /\ Become(s, t)
    BY EscapeOK DEF LeaseFails
  <1>. QED
    BY <1>1, OneRowStep DEF LeaseFails

LEMMA RecordFailsStep ==
  ASSUME IInv, NEW s \in Submitters, RecordFails(s)
  PROVE  IInv' /\ RowsKept
  <1>. DEFINE t == thr[s]
              b == Turn(t)
              row == req[t.r]
  <1>1. \E u \in Thread : ThreadOK(u, made) /\ Become(s, u)
    BY EscapeOK DEF RecordFails
  <1>2. t.r \in Rows /\ row \in Row /\ RowOK(row) /\ t \in Thread /\ t.todo # {}
    BY AtWork DEF RecordFails, ThreadOK
  <1>3. b \in Backends
    BY <1>2, TurnOf
  <1>4. Evolves(row, Settled(row, b, "manual_review", TRUE))
    BY <1>2, <1>3, SettledOK
  <1>5. UNCHANGED req \/ \E r \in Rows : \E new : Evolves(req[r], new) /\ Store(r, new)
    BY <1>2, <1>4 DEF RecordFails
  <1>. QED
    BY <1>1, <1>5, OneRowStep DEF RecordFails

LEMMA HandleStep ==
  ASSUME IInv, NEW s \in Submitters, Handle(s)
  PROVE  IInv' /\ RowsKept
  <1>. DEFINE t == thr[s]
              b == Turn(t)
              row == req[t.r]
              next == [t EXCEPT !.todo = t.todo \ {b}]
  <1>1. t.pc = "handle"
    BY DEF Handle
  <1>2. /\ t \in Thread /\ ThreadOK(t, made) /\ made \in Nat /\ t.r \in Rows
        /\ row \in Row /\ RowOK(row) /\ t.todo # {}
    BY <1>1, AtWork DEF ThreadOK
  <1>3. b \in Backends /\ row.bound \in BOOLEAN
    BY <1>2, TurnOf, RowParts
  <1>4. Evolves(row, Settled(row, b, "manual_review", row.bound))
    BY <1>2, <1>3, SettledOK
  <1>5. UNCHANGED req \/ \E r \in Rows : \E new : Evolves(req[r], new) /\ Store(r, new)
    BY <1>2, <1>4 DEF Handle
  <1>6. next \in Thread
    BY <1>2 DEF Thread
  <1>7. /\ next.pc = "handle" /\ next.r = t.r /\ next.src = t.src /\ next.via = t.via
        /\ next.want = t.want /\ next.todo = t.todo \ {b} /\ next.got = t.got
    BY <1>1, <1>2 DEF Thread
  <1>8. t.todo # {b} => ThreadOK(next, made)
    <2>. HIDE DEF next
    <2>. QED
      BY <1>1, <1>2, <1>7 DEF ThreadOK
  <1>9. Leave(s) \/ (t.todo # {b} /\ Become(s, next))
    BY DEF Handle
  <1>10. \E u \in Thread : ThreadOK(u, made) /\ Become(s, u)
    <2>. HIDE DEF next
    <2>. QED
      BY <1>2, <1>6, <1>8, <1>9, IdleOK DEF Leave
  <1>. QED
    BY <1>5, <1>10, OneRowStep DEF Handle

LEMMA MarkStep ==
  ASSUME IInv, NEW s \in Submitters, Mark(s)
  PROVE  IInv' /\ RowsKept
  <1>. DEFINE t == thr[s]
  <1>1. t \in Thread /\ ThreadOK(t, made) /\ made \in Nat /\ t.pc = "mark"
    BY AtWork DEF Mark
  <1>2. t.src \in Rows /\ req[t.src] \in Row /\ RowOK(req[t.src])
    BY <1>1, RowsOfRequests DEF IInv, RowsOK, ThreadOK
  <1>3. Evolves(req[t.src], TakenOver(req[t.src], t.want))
    BY <1>2, TakenOverOK
  <1>. QED
    BY <1>1, <1>2, <1>3, IdleOK, OneRowStep DEF Mark, Leave, counters

-----------------------------------------------------------------------------
(* The steps of the user, the tracker, the downloaders and the process.    *)

\* A step that may write every row of the resource.
LEMMA ManyRowsOK ==
  ASSUME RowsOK, WorldOK, req' = [r \in Requests |-> req'[r]],
         \A r \in Rows : Evolves(req[r], req'[r]),
         \A r \in Requests : r \notin Rows => req'[r] = req[r]
  PROVE  RowsOK' /\ RowsKept
  <1>1. \A r \in Requests : req'[r] \in Row /\ RowOK(req'[r])
    BY DEF RowsOK, Evolves, Good
  <1>2. RowsKept
    BY RowsOfRequests DEF RowsKept, Evolves
  <1>3. RowsOK'
    <2>. HIDE DEF RowOK
    <2>1. req' \in [Requests -> Row]
      BY <1>1
    <2>. QED
      BY <1>1, <2>1 DEF RowsOK, Requests, RowOK
  <1>. QED
    BY <1>2, <1>3

LEMMA CancelPendingStep ==
  ASSUME IInv, NEW r \in Rows, CancelPending(r)
  PROVE  IInv' /\ RowsKept
  <1>. DEFINE new == [req[r] EXCEPT !.root = "cancelled"]
  <1>1. req[r] \in Row /\ RowOK(req[r]) /\ r \in Requests
    BY RowsOfRequests DEF IInv, RowsOK
  <1>2. new \in Row /\ new.root = "cancelled" /\ new.back = req[r].back
    BY <1>1 DEF Row, RootStates, Terminal
  <1>3. Evolves(req[r], new)
    <2>. HIDE DEF new
    <2>. QED
      BY <1>1, <1>2 DEF CancelPending, Evolves, Good, Keeps, RowOK, Terminal, Active, Tracked
  <1>4. RowsOK' /\ RowsKept
    BY <1>1, <1>3, StoreOK DEF CancelPending, IInv
  <1>. QED
    BY <1>4, SameWorldOK, SameThreadsOK, KeepSnapshotsOK DEF CancelPending, IInv, counters

LEMMA RemoveIntentStep ==
  ASSUME IInv, RemoveIntent
  PROVE  IInv' /\ RowsKept
  <1>1. \A r \in Rows : Evolves(req[r], Stopped(req[r]))
    BY StoppedOK, RowsOfRequests DEF IInv, RowsOK
  <1>2. /\ req' = [r \in Requests |-> req'[r]]
        /\ \A r \in Requests : req'[r] = IF r \in Rows THEN Stopped(req[r]) ELSE req[r]
    BY DEF RemoveIntent
  <1>3. RowsOK' /\ RowsKept
    BY <1>1, <1>2, ManyRowsOK, RowsOfRequests DEF IInv
  <1>4. WorldOK'
    BY DEF RemoveIntent, IInv, WorldOK
  <1>. QED
    BY <1>3, <1>4, SameThreadsOK, KeepSnapshotsOK DEF RemoveIntent, IInv

LEMMA RemoveTaskStep ==
  ASSUME IInv, RemoveTask
  PROVE  IInv' /\ RowsKept
  <1>1. WorldOK'
    BY DEF RemoveTask, IInv, WorldOK, JobStates
  <1>. QED
    BY <1>1, SameRowsOK, SameThreadsOK, SameSnapshotsOK DEF RemoveTask, IInv

LEMMA RecoverOK ==
  ASSUME IInv, NEW due, RecoverWith(due)
  PROVE  RowsOK' /\ RowsKept
  <1>1. \A r \in Rows : Evolves(req[r], Recovered(r, due))
    BY RecoveredOK, RowsOfRequests DEF IInv, RowsOK
  <1>2. /\ req' = [r \in Requests |-> req'[r]]
        /\ \A r \in Requests : req'[r] = IF r \in Rows THEN Recovered(r, due) ELSE req[r]
    BY DEF RecoverWith
  <1>. QED
    BY <1>1, <1>2, ManyRowsOK, RowsOfRequests DEF IInv

LEMMA RecoverStaleStep ==
  ASSUME IInv, RecoverStale
  PROVE  IInv' /\ RowsKept
  <1>1. RowsOK' /\ RowsKept
    BY RecoverOK DEF RecoverStale
  <1>. QED
    BY <1>1, SameWorldOK, SameThreadsOK, KeepSnapshotsOK DEF RecoverStale, IInv, counters

LEMMA RestartStep ==
  ASSUME IInv, Restart
  PROVE  IInv' /\ RowsKept
  <1>1. RowsOK' /\ RowsKept
    BY RecoverOK DEF Restart
  <1>2. WorldOK'
    BY DEF Restart, IInv, WorldOK
  <1>3. ThreadsOK'
    <2>1. \A s \in Submitters : thr'[s] = IdleThread
      BY DEF Restart
    <2>2. made' = made /\ made \in Nat /\ thr' \in [Submitters -> Thread]
      BY IdleOK, RowsOfRequests DEF Restart, IInv
    <2>. QED
      BY <2>1, <2>2, IdleOK DEF ThreadsOK, ThreadOK
  <1>4. SnapshotsOK'
    BY DEF Restart, SnapshotsOK, Requests, NoSnapshot
  <1>. QED
    BY <1>1, <1>2, <1>3, <1>4 DEF IInv

LEMMA TrackReadStep ==
  ASSUME IInv, NEW r \in Rows, TrackRead(r)
  PROVE  IInv' /\ RowsKept
  <1>1. WorldOK' /\ RowsOK' /\ RowsKept /\ ThreadsOK'
    BY SameWorldOK, SameRowsOK, SameThreadsOK DEF TrackRead, IInv, counters
  <1>2. r \in Requests /\ UNCHANGED <<made, req>> /\ trk' = [trk EXCEPT ![r] = Snapshot(r)]
    BY RowsOfRequests DEF TrackRead, IInv
  <1>3. SnapshotOK(Snapshot(r), req[r])
    <2>1. \A b \in Backends : JobOf(r, b) \in Requests \X Backends
      BY <1>2, BoundsAssumption DEF JobOf, Requests
    <2>2. \A b \in Backends : job[JobOf(r, b)] \in JobStates
      BY <2>1 DEF IInv, WorldOK
    <2>. QED
      BY <2>2 DEF SnapshotOK, Snapshot
  <1>4. \A x \in Requests : trk'[x] = IF x = r THEN Snapshot(r) ELSE trk[x]
    BY <1>2 DEF IInv, SnapshotsOK
  <1>5. trk' = [x \in Requests |-> trk'[x]]
    BY <1>2 DEF IInv, SnapshotsOK
  <1>6. ASSUME NEW x \in Requests, trk'[x] # NoSnapshot
        PROVE  x \in Rows /\ SnapshotOK(trk'[x], req[x])
    BY <1>3, <1>4, <1>6 DEF IInv, SnapshotsOK
  <1>7. SnapshotsOK'
    BY <1>2, <1>5, <1>6 DEF SnapshotsOK, Requests, Rows, SnapshotOK, NoSnapshot
  <1>. QED
    BY <1>1, <1>7 DEF IInv

LEMMA TrackApplyStep ==
  ASSUME IInv, NEW r \in Rows, NEW thorough \in BOOLEAN, TrackApply(r, thorough)
  PROVE  IInv' /\ RowsKept
  <1>1. r \in Requests /\ req[r] \in Row /\ RowOK(req[r])
    BY RowsOfRequests DEF IInv, RowsOK
  <1>2. trk[r].row = req[r] /\ \A b \in Backends : req[r].back[b] \in Tracked => trk[r].seen[b] \in JobStates
    BY <1>1 DEF TrackApply, IInv, SnapshotsOK, SnapshotOK
  <1>3. PICK q \in Outcomes(trk[r], "qb", thorough), g \in Outcomes(trk[r], "gy", thorough) :
           Store(r, TrackedRow(trk[r], q, g))
    BY DEF TrackApply
  <1>4. Evolves(req[r], TrackedRow(trk[r], q, g))
    BY <1>1, <1>2, TrackedOK
  <1>5. RowsOK' /\ RowsKept
    BY <1>1, <1>3, <1>4, StoreOK DEF IInv
  <1>6. SnapshotsOK'
    <2>1. trk' = [trk EXCEPT ![r] = NoSnapshot] /\ made' = made
      BY DEF TrackApply
    <2>2. \A x \in Requests : trk'[x] = IF x = r THEN NoSnapshot ELSE trk[x]
      BY <2>1 DEF IInv, SnapshotsOK
    <2>3. trk' = [x \in Requests |-> trk'[x]]
      BY <2>1 DEF IInv, SnapshotsOK
    <2>4. \A x \in Requests : x # r => req'[x] = req[x]
      BY <1>3 DEF Store, IInv, RowsOK
    <2>5. ASSUME NEW x \in Requests, trk'[x] # NoSnapshot
          PROVE  x \in Rows /\ SnapshotOK(trk'[x], req'[x])
      BY <2>2, <2>4, <2>5 DEF IInv, SnapshotsOK
    <2>. QED
      BY <2>1, <2>3, <2>5 DEF SnapshotsOK, Requests, Rows, SnapshotOK, NoSnapshot
  <1>. QED
    BY <1>5, <1>6, SameWorldOK, SameThreadsOK DEF TrackApply, IInv, counters

LEMMA TaskMovesStep ==
  ASSUME IInv, NEW k, TaskMoves(k)
  PROVE  IInv' /\ RowsKept
  <1>1. WorldOK'
    BY DEF TaskMoves, IInv, WorldOK, JobStates, counters
  <1>. QED
    BY <1>1, SameRowsOK, SameThreadsOK, SameSnapshotsOK DEF TaskMoves, IInv, counters

-----------------------------------------------------------------------------
(* The theorems.                                                           *)

LEMMA InitOK == ASSUME Init PROVE IInv
  <1>1. WorldOK
    BY BoundsAssumption DEF Init, WorldOK, JobStates
  <1>2. RowsOK
    BY NewRowOK DEF Init, RowsOK, Good
  <1>3. ThreadsOK
    BY IdleOK DEF Init, ThreadsOK
  <1>4. SnapshotsOK
    BY DEF Init, SnapshotsOK
  <1>. QED
    BY <1>1, <1>2, <1>3, <1>4 DEF IInv

LEMMA NextOK == ASSUME IInv, [Next]_vars PROVE IInv' /\ RowsKept
  <1>1. ASSUME NEW s \in Submitters, Submission(s) PROVE IInv' /\ RowsKept
    BY <1>1, SubmitStep, CreateStep, ClaimStep, AppendStep, ResubmitStep, SucceedStep,
       CallStep, RecordStep, LeaseFailsStep, RecordFailsStep, HandleStep, MarkStep
       DEF Submission
  <1>2. ASSUME NEW r \in Rows, CancelPending(r) \/ Tracking(r) PROVE IInv' /\ RowsKept
    BY <1>2, CancelPendingStep, TrackReadStep, TrackApplyStep DEF Tracking
  <1>3. CASE RemoveIntent \/ RemoveTask \/ RecoverStale \/ Restart
    BY <1>3, RemoveIntentStep, RemoveTaskStep, RecoverStaleStep, RestartStep
  <1>4. ASSUME NEW k, TaskMoves(k) PROVE IInv' /\ RowsKept
    BY <1>4, TaskMovesStep
  <1>5. CASE UNCHANGED vars
    BY <1>5, SameWorldOK, SameRowsOK, SameThreadsOK, SameSnapshotsOK DEF IInv, vars
  <1>. QED
    BY <1>1, <1>2, <1>3, <1>4, <1>5 DEF Next

THEOREM InductiveInvariant == Spec => []IInv
  <1>1. Init => IInv
    BY InitOK
  <1>2. IInv /\ [Next]_vars => IInv'
    BY NextOK
  <1>. QED
    BY <1>1, <1>2, PTL DEF Spec

\* Whatever the threads do, every row, task and thread has its type, and a thread
\* that is at work holds a target to work on.
THEOREM TypeCorrect == Spec => []TypeOK
  <1>1. IInv => TypeOK
    BY RowsOfRequests DEF IInv, WorldOK, RowsOK, ThreadsOK, ThreadOK, Thread, Places, TypeOK
  <1>. QED
    BY <1>1, InductiveInvariant, PTL

\* The root status of a row, which lookups, archiving and the tracker's list go by,
\* agrees with its targets: never over while one is under way, never being
\* submitted when none is.
THEOREM RootAlwaysTrue == Spec => []RootIsTrue
  <1>1. ASSUME IInv PROVE RootIsTrue
    <2>1. ASSUME NEW r \in Rows
          PROVE  /\ req[r].root \in Terminal => States(req[r].back) \cap Active = {}
                 /\ ~Orphaned(req[r])
      <3>1. req[r] \in Row /\ RowOK(req[r])
        BY <1>1, RowsOfRequests DEF IInv, RowsOK
      <3>2. \A x : x \in States(req[r].back) <=> x # "" /\ x \in {req[r].back["qb"], req[r].back["gy"]}
        BY <3>1, RowParts, StatesOf
      <3>3. req[r].root \in Terminal => States(req[r].back) \cap Active = {}
        <4>1. "" \notin Active
          BY DEF Active, Tracked
        <4>2. States(req[r].back) \cap Active # {} <=>
                 req[r].back["qb"] \in Active \/ req[r].back["gy"] \in Active
          BY <3>1, <4>1, RowParts, StatesOf
        <4>. QED
          BY <3>1, <4>2 DEF RowOK
      <3>4. req[r].root = "submitting" => "submitting" \in States(req[r].back)
        BY <3>1, <3>2 DEF RowOK
      <3>. QED
        BY <3>3, <3>4 DEF Orphaned
    <2>. QED
      BY <2>1 DEF RootIsTrue
  <1>. QED
    BY <1>1, InductiveInvariant, PTL

LEMMA RowsAreKept == Spec => [][RowsKept]_vars
  <1>1. IInv /\ [Next]_vars => [RowsKept]_vars
    BY NextOK
  <1>. QED
    BY <1>1, InductiveInvariant, PTL DEF Spec

\* A target whose tracking the user stopped is never tracked again, and a cancelled
\* row never changes: no late receipt, earlier observation or recovery revives it.
THEOREM CancelledForGood == Spec => CancelledStays
  <1>1. RowsKept => \A r \in Rows :
           /\ req[r].back["qb"] = "cancelled" => req'[r].back["qb"] = "cancelled"
           /\ req[r].root = "cancelled" => req'[r] = req[r]
    BY DEF RowsKept, Keeps
  <1>. QED
    BY <1>1, RowsAreKept, PTL DEF CancelledStays

\* A row that a retry took over stays history: its root only ever changes to ask
\* for a manual review, whatever becomes of a target that was not taken over.
THEOREM HistoryKept == Spec => HistoryStays
  <1>1. RowsKept => \A r \in Rows : req[r].root = "resubmitted"
                                      => req'[r].root \in {"resubmitted", "manual_review"}
    BY DEF RowsKept, Keeps
  <1>. QED
    BY <1>1, RowsAreKept, PTL DEF HistoryStays

=============================================================================
