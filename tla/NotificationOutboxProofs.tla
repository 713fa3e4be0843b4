---------------------- MODULE NotificationOutboxProofs ----------------------
(***************************************************************************)
(* The outbox sends one message per row, in order, records as sent only    *)
(* what is shown and loses no writer's fact, for any rows, writers and     *)
(* bounds.                                                                 *)
(***************************************************************************)
EXTENDS NotificationOutbox, TLAPS

\* A first send may have arrived without its row knowing the message.
Doubt == {"sending", "outcome_unknown"}

\* A row that does not exist has nothing.
AbsentIsEmpty == \A k \in Keys : row[k].status = "absent" => row[k] = Absent

\* A message that was sent is known by its row, or its row is in doubt.
KnownOrInDoubt ==
    \A k \in Keys : ~refused[k] /\ chat[k] # <<>> /\ row[k].msg = 0 => row[k].status \in Doubt

\* What the worker names exists.
WorkerNames ==
    /\ worker.pc = "idle" => worker = Idle
    /\ worker.msg <= Len(chat[worker.key])
    /\ worker.got.msg <= Len(chat[worker.key])

\* What the worker knows of the message of its row, while it can be edited.
WorkerSends ==
    worker.pc # "idle" /\ ~refused[worker.key] =>
        /\ worker.msg > 0 => row[worker.key].msg > 0
        /\ worker.pc = "claimed" /\ worker.msg = 0 =>
             chat[worker.key] = <<>> /\ row[worker.key].status \in Doubt
        /\ worker.pc = "called" /\ row[worker.key].msg = 0
             /\ worker.got.kind \notin {"ok", "unknown"} => chat[worker.key] = <<>>
        /\ worker.pc = "called" => ~worker.got.fallback

\* What the worker claimed is the revision it shows.
WorkerShows ==
    worker.pc # "idle" =>
        /\ row[worker.key].status \notin {"absent", "sent"}
        /\ worker.rev <= row[worker.key].rev
        /\ worker.rev = row[worker.key].rev => worker.facts = row[worker.key].facts
        /\ worker.pc = "called" /\ worker.got.kind = "ok" =>
             /\ worker.got.msg > 0
             /\ chat[worker.key][worker.got.msg] = worker.facts

\* What a writer read is the content of that revision.
SnapsTrue ==
    \A w \in Writers : snap[w] # <<>> =>
        /\ snap[w].rev <= row[snap[w].on].rev
        /\ snap[w].rev = row[snap[w].on].rev => snap[w].facts = row[snap[w].on].facts

Shape == TypeOK /\ AbsentIsEmpty /\ WorkerNames

IInv == Shape /\ KnownOrInDoubt /\ OneMessage /\ WorkerSends
              /\ WorkerShows /\ SentIsShown /\ InOrder /\ SnapsTrue

-----------------------------------------------------------------------------
(* What the operators on rows do.                                          *)

LEMMA AbsentRow == Absent \in Row
  BY DEF Absent, Row, Statuses

LEMMA InsertedRow ==
  ASSUME NEW facts \in SUBSET Facts, NEW p \in Nat
  PROVE  /\ Inserted(facts, p) \in Row
         /\ Inserted(facts, p).status = "pending" /\ Inserted(facts, p).facts = facts
         /\ Inserted(facts, p).rev = 1 /\ Inserted(facts, p).msg = p
  BY DEF Inserted, Absent, Row, Statuses, Queued

LEMMA RepeatedRow ==
  ASSUME NEW r \in Row, NEW p \in Nat, r.status # "absent"
  PROVE  /\ Repeated(r, p) \in Row
         /\ Repeated(r, p).msg = Adopted(r, p)
         /\ Repeated(r, p).rev = r.rev /\ Repeated(r, p).facts = r.facts
         /\ Repeated(r, p).status # "absent"
         /\ Repeated(r, p).status = "sent" => r.status = "sent"
         /\ Repeated(r, p).msg = 0 /\ r.status \in Doubt => Repeated(r, p).status = r.status
         /\ Repeated(r, p).msg = 0 /\ Repeated(r, p).status \notin Doubt => r.status \notin Doubt
  <1>. DEFINE msg == Adopted(r, p)
              revive == \/ r.status \in {"failed", "suppressed"}
                        \/ r.status = "outcome_unknown" /\ msg > 0
  <1>1. msg \in Nat
    BY DEF Adopted, Row
  <1>2. CASE revive
    <2>1. Repeated(r, p) = [r EXCEPT !.msg = msg, !.status = "pending", !.attempts = 0,
                                     !.due = TRUE, !.stale = FALSE]
      BY <1>2 DEF Repeated
    <2>. HIDE DEF msg, revive
    <2>2. Repeated(r, p) \in Row
      <3>1. "pending" \in Statuses /\ 0 \in Nat /\ TRUE \in BOOLEAN /\ FALSE \in BOOLEAN
        BY DEF Statuses, Queued
      <3>2. r.facts \in SUBSET Facts /\ r.rev \in Nat /\ r.gen \in Nat
        BY DEF Row
      <3>3. Repeated(r, p) = [status |-> "pending", facts |-> r.facts, rev |-> r.rev, msg |-> msg,
                              attempts |-> 0, gen |-> r.gen, due |-> TRUE, stale |-> FALSE]
        BY <2>1 DEF Row
      <3>. QED
        BY <1>1, <3>1, <3>2, <3>3 DEF Row
    <2>3. /\ Repeated(r, p).msg = msg /\ Repeated(r, p).rev = r.rev
          /\ Repeated(r, p).facts = r.facts /\ Repeated(r, p).status = "pending"
      BY <2>1 DEF Row
    <2>. QED
      BY <1>1, <1>2, <2>2, <2>3 DEF Doubt, msg, revive
  <1>3. CASE ~revive
    <2>1. Repeated(r, p) = [r EXCEPT !.msg = msg, !.stale = FALSE]
      BY <1>3 DEF Repeated
    <2>. HIDE DEF msg
    <2>2. /\ Repeated(r, p) \in Row /\ Repeated(r, p).msg = msg /\ Repeated(r, p).rev = r.rev
          /\ Repeated(r, p).facts = r.facts /\ Repeated(r, p).status = r.status
      BY <1>1, <2>1 DEF Row
    <2>. QED
      BY <2>2 DEF msg
  <1>. QED
    BY <1>2, <1>3

LEMMA ReplacedRow ==
  ASSUME NEW r \in Row, NEW facts \in SUBSET Facts, NEW p \in Nat, r.status # "absent"
  PROVE  /\ Replaced(r, facts, p) \in Row
         /\ Replaced(r, facts, p).msg = Adopted(r, p)
         /\ Replaced(r, facts, p).rev = r.rev + 1 /\ Replaced(r, facts, p).facts = facts
         /\ Replaced(r, facts, p).status \notin {"absent", "sent"}
         /\ Replaced(r, facts, p).msg = 0 /\ r.status \in Doubt
              => Replaced(r, facts, p).status = r.status
         /\ Replaced(r, facts, p).msg = 0 /\ Replaced(r, facts, p).status \notin Doubt
              => r.status \notin Doubt
  <1>. DEFINE msg == Adopted(r, p)
              keep == r.status = "outcome_unknown" /\ msg = 0
              status == CASE r.status = "sending" -> "sending"
                          [] keep -> "outcome_unknown"
                          [] OTHER -> "pending"
              attempts == IF r.status = "sending" \/ keep THEN r.attempts ELSE 0
  <1>1. msg \in Nat /\ r.rev + 1 \in Nat /\ attempts \in Nat
    BY DEF Adopted, Row
  <1>2. /\ status \in {"sending", "outcome_unknown", "pending"}
        /\ msg = 0 /\ r.status \in Doubt => status = r.status
        /\ msg = 0 /\ status \notin Doubt => r.status \notin Doubt
    BY DEF Doubt
  <1>3. Replaced(r, facts, p) =
          [r EXCEPT !.facts = facts, !.msg = msg, !.rev = r.rev + 1, !.status = status,
                    !.attempts = attempts, !.due = TRUE, !.stale = FALSE]
    BY Zenon DEF Replaced
  <1>. HIDE DEF msg, status, attempts
  <1>4. Replaced(r, facts, p) \in Row
    BY <1>1, <1>2, <1>3 DEF Row, Statuses, Queued, Finished
  <1>5. /\ Replaced(r, facts, p).msg = msg /\ Replaced(r, facts, p).rev = r.rev + 1
        /\ Replaced(r, facts, p).facts = facts /\ Replaced(r, facts, p).status = status
    BY <1>3 DEF Row
  <1>. QED
    BY <1>2, <1>4, <1>5 DEF msg

\* A publication adopts a message only where none is known, never turns doubt into
\* an order to send, and counts every change of the content.
LEMMA UpsertedRow ==
  ASSUME NEW r \in Row, NEW facts \in SUBSET Facts, NEW p \in Nat,
         r.status = "absent" => r = Absent
  PROVE  /\ Upserted(r, facts, p) \in Row
         /\ Upserted(r, facts, p).msg = Adopted(r, p)
         /\ Upserted(r, facts, p).rev >= r.rev
         /\ Upserted(r, facts, p).rev = r.rev => Upserted(r, facts, p).facts = r.facts
         /\ Upserted(r, facts, p).facts = facts
         /\ Upserted(r, facts, p).status # "absent"
         /\ Upserted(r, facts, p).status = "sent" => r.status = "sent" /\ facts = r.facts
         /\ Upserted(r, facts, p).msg = 0 /\ r.status \in Doubt
              => Upserted(r, facts, p).status = r.status
         /\ Upserted(r, facts, p).msg = 0 /\ Upserted(r, facts, p).status \notin Doubt
              => r.status \notin Doubt
  <1>1. CASE r.status = "absent"
    <2>1. r.rev = 0 /\ r.msg = 0 /\ r.status \notin Doubt
      BY <1>1 DEF Absent, Doubt
    <2>2. Upserted(r, facts, p) = Inserted(facts, p)
      BY <1>1 DEF Upserted
    <2>. QED
      BY <1>1, <2>1, <2>2, InsertedRow DEF Adopted, Doubt, Absent
  <1>2. CASE r.status # "absent" /\ facts = r.facts
    <2>1. Upserted(r, facts, p) = Repeated(r, p)
      BY <1>2 DEF Upserted
    <2>2. r.rev \in Nat
      BY DEF Row
    <2>. QED
      BY <1>2, <2>1, <2>2, RepeatedRow
  <1>3. CASE r.status # "absent" /\ facts # r.facts
    <2>1. Upserted(r, facts, p) = Replaced(r, facts, p)
      BY <1>3 DEF Upserted
    <2>2. r.rev \in Nat
      BY DEF Row
    <2>. QED
      BY <1>3, <2>1, <2>2, ReplacedRow
  <1>. QED
    BY <1>1, <1>2, <1>3

LEMMA QuarantinedRow ==
  ASSUME NEW r \in Row
  PROVE  /\ Quarantined(r) \in Row
         /\ Quarantined(r).msg = r.msg /\ Quarantined(r).rev = r.rev
         /\ Quarantined(r).facts = r.facts
         /\ InDoubt(r) => /\ r.status = "sending" /\ r.msg = 0
                          /\ Quarantined(r).status = "outcome_unknown"
         /\ ~InDoubt(r) => Quarantined(r) = r
  <1>1. r.gen + 1 \in Nat
    BY DEF Row
  <1>2. CASE InDoubt(r)
    <2>1. Quarantined(r) = [r EXCEPT !.status = "outcome_unknown", !.gen = r.gen + 1,
                                     !.stale = FALSE]
      BY <1>2 DEF Quarantined
    <2>2. Quarantined(r) \in Row /\ Quarantined(r).status = "outcome_unknown"
      BY <1>1, <2>1 DEF Row, Statuses, Finished
    <2>. QED
      BY <1>2, <2>1, <2>2 DEF InDoubt, Row
  <1>3. CASE ~InDoubt(r)
    BY <1>3 DEF Quarantined
  <1>. QED
    BY <1>2, <1>3

LEMMA RecoveredRow ==
  ASSUME NEW r \in Row
  PROVE  /\ Recovered(r) \in Row
         /\ Recovered(r).msg = r.msg /\ Recovered(r).rev = r.rev /\ Recovered(r).facts = r.facts
         /\ r.status \notin Doubt => Recovered(r) = r
         /\ r.status \in Doubt => Recovered(r).status \notin {"absent", "sent"}
         /\ r.status \in Doubt /\ r.msg = 0 => Recovered(r).status = "outcome_unknown"
  <1>. DEFINE status == CASE r.msg = 0 -> "outcome_unknown"
                         [] r.msg > 0 /\ r.attempts >= MaxAttempts -> "failed"
                         [] OTHER -> "retry_wait"
  <1>1. r.gen + 1 \in Nat
    BY DEF Row
  <1>2. /\ status \in {"outcome_unknown", "failed", "retry_wait"}
        /\ r.msg = 0 => status = "outcome_unknown"
    OBVIOUS
  <1>3. CASE r.status = "sending" \/ (r.status = "outcome_unknown" /\ r.msg > 0)
    <2>1. Recovered(r) = [r EXCEPT !.status = status, !.gen = r.gen + 1,
                                   !.due = TRUE, !.stale = FALSE]
      BY <1>3, Zenon DEF Recovered
    <2>. HIDE DEF status
    <2>2. Recovered(r) \in Row
      BY <1>1, <1>2, <2>1 DEF Row, Statuses, Finished, Queued
    <2>3. /\ Recovered(r).msg = r.msg /\ Recovered(r).rev = r.rev
          /\ Recovered(r).facts = r.facts /\ Recovered(r).status = status
      BY <2>1 DEF Row
    <2>. QED
      BY <1>2, <1>3, <2>2, <2>3 DEF Doubt
  <1>4. CASE ~(r.status = "sending" \/ (r.status = "outcome_unknown" /\ r.msg > 0))
    <2>1. Recovered(r) = r
      BY <1>4 DEF Recovered
    <2>2. r.msg \in Nat
      BY DEF Row
    <2>. QED
      BY <1>4, <2>1, <2>2 DEF Doubt
  <1>. QED
    BY <1>3, <1>4

LEMMA RequeuedRow ==
  ASSUME NEW r \in Row
  PROVE  /\ Requeued(r) \in Row
         /\ Requeued(r).msg = r.msg /\ Requeued(r).rev = r.rev /\ Requeued(r).facts = r.facts
         /\ Requeued(r).status = "pending"
  BY DEF Requeued, Row, Statuses, Queued

LEMMA CompletedRow ==
  ASSUME NEW r \in Row, worker \in Worker
  PROVE  /\ Completed(r) \in Row
         /\ Completed(r).msg = (IF worker.got.msg # 0 THEN worker.got.msg ELSE r.msg)
         /\ Completed(r).rev = r.rev /\ Completed(r).facts = r.facts
         /\ Completed(r).status = (IF Newer(r) THEN "pending" ELSE "sent")
  <1>1. worker.got \in Result /\ worker.got.msg \in Nat
    BY DEF Worker, Result
  <1>. QED
    BY <1>1 DEF Completed, Row, Statuses, Queued, Finished

LEMMA FailedRow ==
  ASSUME NEW r \in Row, worker \in Worker
  PROVE  /\ Failed(r) \in Row
         /\ Failed(r).msg = (IF worker.got.fallback THEN 0 ELSE r.msg)
         /\ Failed(r).rev = r.rev /\ Failed(r).facts = r.facts
         /\ Failed(r).status \in {"pending", "failed"}
  <1>1. /\ Cleared(r) \in Row /\ Cleared(r).rev = r.rev /\ Cleared(r).facts = r.facts
        /\ Cleared(r).msg = (IF worker.got.fallback THEN 0 ELSE r.msg)
    BY DEF Cleared, Row
  <1>2. CASE Newer(r)
    BY <1>1, <1>2, RequeuedRow DEF Failed
  <1>3. CASE ~Newer(r)
    <2>1. Failed(r) = [Cleared(r) EXCEPT !.status = "failed",
                         !.attempts = Cleared(r).attempts + 1, !.stale = FALSE]
      BY <1>3 DEF Failed
    <2>2. Cleared(r).attempts + 1 \in Nat
      BY <1>1 DEF Row
    <2>. QED
      BY <1>1, <2>1, <2>2 DEF Row, Statuses, Finished
  <1>. QED
    BY <1>2, <1>3

LEMMA RetriedRow ==
  ASSUME NEW r \in Row, worker \in Worker
  PROVE  /\ Retried(r) \in Row
         /\ Retried(r).msg = (IF worker.got.fallback THEN 0
                              ELSE IF r.msg # 0 THEN r.msg ELSE worker.got.msg)
         /\ Retried(r).rev = r.rev /\ Retried(r).facts = r.facts
         /\ Retried(r).status \in {"outcome_unknown", "pending", "failed", "retry_wait"}
         /\ worker.got.kind = "unknown" /\ Retried(r).msg = 0
              => Retried(r).status = "outcome_unknown"
  <1>. DEFINE known == IF worker.got.fallback THEN 0
                       ELSE IF r.msg # 0 THEN r.msg ELSE worker.got.msg
              s == [r EXCEPT !.msg = known, !.stale = FALSE]
  <1>1. worker.got \in Result /\ worker.got.msg \in Nat
    BY DEF Worker, Result
  <1>2. known \in Nat
    BY <1>1 DEF Row
  <1>3. s \in Row /\ s.msg = known /\ s.rev = r.rev /\ s.facts = r.facts /\ s.attempts = r.attempts
    BY <1>2 DEF Row
  <1>4. r.attempts \in Nat /\ r.attempts + 1 \in Nat
    BY DEF Row
  <1>5. Retried(r) = IF worker.got.kind = "unknown" /\ known = 0
                       THEN [s EXCEPT !.status = "outcome_unknown", !.due = TRUE]
                     ELSE IF Newer(r) THEN Requeued(s)
                     ELSE IF r.attempts + 1 >= MaxAttempts
                       THEN [s EXCEPT !.status = "failed", !.attempts = @ + 1, !.due = TRUE]
                     ELSE [s EXCEPT !.status = "retry_wait", !.attempts = @ + 1, !.due = FALSE]
    BY DEF Retried
  <1>. HIDE DEF known, s
  <1>6. CASE worker.got.kind = "unknown" /\ known = 0
    BY <1>3, <1>4, <1>5, <1>6 DEF Row, Statuses, Finished, known
  <1>7. CASE ~(worker.got.kind = "unknown" /\ known = 0) /\ Newer(r)
    BY <1>3, <1>5, <1>7, RequeuedRow DEF known
  <1>8. CASE ~(worker.got.kind = "unknown" /\ known = 0) /\ ~Newer(r)
    <2>1. s.attempts + 1 \in Nat
      BY <1>3, <1>4
    <2>2. CASE r.attempts + 1 >= MaxAttempts
      <3>1. Retried(r) = [s EXCEPT !.status = "failed", !.attempts = s.attempts + 1, !.due = TRUE]
        BY <1>5, <1>8, <2>2
      <3>2. Retried(r) \in Row
        BY <1>3, <2>1, <3>1 DEF Row, Statuses, Finished
      <3>3. /\ Retried(r).msg = known /\ Retried(r).rev = r.rev
            /\ Retried(r).facts = r.facts /\ Retried(r).status = "failed"
        BY <1>3, <3>1 DEF Row
      <3>. QED
        BY <1>8, <3>2, <3>3 DEF known
    <2>3. CASE ~(r.attempts + 1 >= MaxAttempts)
      <3>1. Retried(r) = [s EXCEPT !.status = "retry_wait", !.attempts = s.attempts + 1,
                                   !.due = FALSE]
        BY <1>5, <1>8, <2>3
      <3>. QED
        BY <1>3, <1>8, <2>1, <3>1 DEF Row, Statuses, Queued, known
    <2>. QED
      BY <2>2, <2>3
  <1>. QED
    BY <1>6, <1>7, <1>8

\* A settlement keeps the content; only a delivery of the newest content is sent.
LEMMA SettledRow ==
  ASSUME NEW r \in Row, worker \in Worker
  PROVE  /\ Settled(r) \in Row
         /\ Settled(r).rev = r.rev /\ Settled(r).facts = r.facts
         /\ Settled(r).msg \in {0, r.msg, worker.got.msg}
         /\ Settled(r).status # "absent"
         /\ Settled(r).status = "sent" =>
              /\ worker.got.kind = "ok" /\ r.rev = worker.rev
              /\ worker.got.msg # 0 => Settled(r).msg = worker.got.msg
         /\ Settled(r).msg = 0 /\ ~worker.got.fallback =>
              /\ r.msg = 0 /\ (worker.got.kind = "ok" => worker.got.msg = 0)
              /\ worker.got.kind = "unknown" => Settled(r).status \in Doubt
  <1>1. CASE worker.got.kind = "ok"
    BY <1>1, CompletedRow DEF Settled, Newer
  <1>2. CASE worker.got.kind = "rejected"
    BY <1>2, FailedRow DEF Settled
  <1>3. CASE worker.got.kind \notin {"ok", "rejected"}
    BY <1>3, RetriedRow DEF Settled, Doubt
  <1>. QED
    BY <1>1, <1>2, <1>3

\* A writer's publication, as the change of one row.
LEMMA PublishedRow ==
  ASSUME Shape, NEW w \in Writers, PublishThread(w)
  PROVE  \/ row' = row
         \/ \E k \in Threads, p \in Nat :
              /\ snap[w] # <<>> /\ k = snap[w].on /\ row[k].rev = snap[w].rev /\ p <= Len(chat[k])
              /\ row' = [row EXCEPT ![k] = Upserted(row[k], snap[w].facts \cup {w}, p)]
              /\ snap[w].facts \cup {w} \in SUBSET Facts
  <1>1. CASE ~Unchanged(row[snap[w].on], snap[w])
    BY <1>1 DEF PublishThread
  <1>2. CASE Unchanged(row[snap[w].on], snap[w])
    <2>. DEFINE k == snap[w].on
    <2>1. snap[w] \in Snapshot /\ snap[w] # <<>>
      BY DEF PublishThread, Shape, TypeOK
    <2>2. k \in Threads /\ snap[w].facts \cup {w} \in SUBSET Facts
      BY <2>1 DEF Snapshot, Facts
    <2>3. PICK p \in 0 .. Len(chat[k]) :
            row' = [row EXCEPT ![k] = Upserted(row[k], snap[w].facts \cup {w}, p)]
      BY <1>2 DEF PublishThread
    <2>4. Len(chat[k]) \in Nat
      BY <2>2 DEF Shape, TypeOK, Keys
    <2>5. p \in Nat /\ p <= Len(chat[k]) /\ row[k].rev = snap[w].rev
      BY <1>2, <2>3, <2>4 DEF Unchanged
    <2>. HIDE DEF k
    <2>. QED
      BY <2>1, <2>2, <2>3, <2>5 DEF k
  <1>. QED
    BY <1>1, <1>2

\* A claim sets first sends aside and gives at most one row to the worker.
LEMMA ClaimedRow ==
  ASSUME Shape, Claim
  PROVE  \/ /\ row' = [k \in Keys |-> Quarantined(row[k])]
            /\ worker' = worker
         \/ \E k \in Keys :
              /\ Claimable([q \in Keys |-> Quarantined(row[q])], k)
              /\ Quarantined(row[k]) = row[k]
              /\ row'[k] = [row[k] EXCEPT !.status = "sending", !.gen = @ + 1, !.stale = FALSE]
              /\ \A q \in Keys \ {k} : row'[q] = Quarantined(row[q])
              /\ DOMAIN row' = Keys /\ row' = [q \in Keys |-> row'[q]]
              /\ worker' = [pc |-> "claimed", key |-> k, facts |-> row[k].facts, rev |-> row[k].rev,
                            msg |-> row[k].msg, gen |-> row[k].gen + 1, got |-> NoResult]
  <1>. DEFINE rows == [k \in Keys |-> Quarantined(row[k])]
  <1>1. CASE row' = rows /\ worker' = worker
    BY <1>1
  <1>2. ASSUME NEW k \in Keys, Claimable(rows, k),
               row' = [rows EXCEPT ![k].status = "sending", ![k].gen = @ + 1, ![k].stale = FALSE],
               worker' = [pc |-> "claimed", key |-> k, facts |-> row[k].facts, rev |-> row[k].rev,
                          msg |-> row[k].msg, gen |-> row[k].gen + 1, got |-> NoResult]
        PROVE  \E q \in Keys :
                 /\ Claimable(rows, q)
                 /\ Quarantined(row[q]) = row[q]
                 /\ row'[q] = [row[q] EXCEPT !.status = "sending", !.gen = @ + 1, !.stale = FALSE]
                 /\ \A p \in Keys \ {q} : row'[p] = Quarantined(row[p])
                 /\ DOMAIN row' = Keys /\ row' = [p \in Keys |-> row'[p]]
                 /\ worker' = [pc |-> "claimed", key |-> q, facts |-> row[q].facts,
                               rev |-> row[q].rev, msg |-> row[q].msg, gen |-> row[q].gen + 1,
                               got |-> NoResult]
    <2>1. row[k] \in Row
      BY DEF Shape, TypeOK
    <2>2. rows[k].status \in {"pending", "retry_wait", "sending"}
      BY <1>2 DEF Claimable, Queued
    <2>3. ~InDoubt(row[k]) /\ rows[k] = row[k]
      BY <2>1, <2>2, QuarantinedRow
    <2>4. row' = [rows EXCEPT ![k] = [rows[k] EXCEPT !.status = "sending", !.gen = @ + 1,
                                                   !.stale = FALSE]]
      BY <1>2
    <2>5. /\ row'[k] = [row[k] EXCEPT !.status = "sending", !.gen = @ + 1, !.stale = FALSE]
          /\ \A p \in Keys \ {k} : row'[p] = Quarantined(row[p])
          /\ DOMAIN row' = Keys /\ row' = [p \in Keys |-> row'[p]]
      BY <2>3, <2>4
    <2>. QED
      BY <1>2, <2>3, <2>5
  <1>. QED
    BY <1>1, <1>2 DEF Claim

LEMMA TakenRow ==
  ASSUME NEW r \in Row
  PROVE  LET t == [r EXCEPT !.status = "sending", !.gen = @ + 1, !.stale = FALSE]
         IN  /\ t \in Row /\ t.status = "sending" /\ t.msg = r.msg
             /\ t.rev = r.rev /\ t.facts = r.facts
  <1>1. r.gen + 1 \in Nat /\ "sending" \in Statuses
    BY DEF Row, Statuses
  <1>. QED
    BY <1>1 DEF Row

\* Giving up: the row, or the rows of an answer, without a message being sent.
LEMMA SuppressedRow ==
  ASSUME Shape, Suppress, NEW q \in Keys
  PROVE  \/ row'[q] = row[q]
         \/ /\ row[q].status \in Queued \cup {"sending"}
            /\ row'[q] \in Row /\ row'[q].status \in {"suppressed", "pending"}
            /\ row[q].status = "sending" => q = worker.key
            /\ row'[q].msg = row[q].msg /\ row'[q].rev = row[q].rev
            /\ row'[q].facts = row[q].facts
  <1>. DEFINE k == worker.key
              Given(r) == [r EXCEPT !.status = "suppressed", !.stale = FALSE]
  <1>1. \A r \in Row : /\ Given(r) \in Row /\ Given(r).status = "suppressed"
                       /\ Given(r).msg = r.msg /\ Given(r).rev = r.rev /\ Given(r).facts = r.facts
    BY DEF Row, Statuses, Finished
  <1>2. row \in [Keys -> Row] /\ k \in Keys /\ row[q] \in Row /\ row[k] \in Row
    BY DEF Shape, TypeOK, Worker
  <1>3. CASE ~Held(row[k])
    BY <1>3 DEF Suppress
  <1>4. CASE Held(row[k]) /\ k \in PartSet
    <2>1. row'[q] = IF \/ q = k /\ ~Newer(row[k])
                       \/ q \in PartSet /\ row[q].status \in Queued /\ ~Newer(row[k])
                    THEN Given(row[q]) ELSE row[q]
      BY <1>2, <1>4 DEF Suppress
    <2>2. CASE row'[q] = row[q]
      BY <2>2
    <2>3. CASE row'[q] # row[q]
      <3>1. row'[q] = Given(row[q]) /\ (q = k \/ row[q].status \in Queued)
        BY <2>1, <2>3
      <3>2. "sending" \notin Queued
        BY DEF Queued
      <3>. QED
        BY <1>1, <1>2, <1>4, <3>1, <3>2 DEF Held
    <2>. QED
      BY <2>2, <2>3
  <1>5. CASE Held(row[k]) /\ k \notin PartSet
    <2>1. row' = [row EXCEPT ![k] = IF Newer(row[k]) THEN Requeued(row[k]) ELSE Given(row[k])]
      BY <1>5 DEF Suppress
    <2>2. CASE q # k
      BY <1>2, <2>1, <2>2
    <2>3. CASE q = k
      <3>1. row'[q] = IF Newer(row[k]) THEN Requeued(row[k]) ELSE Given(row[k])
        BY <1>2, <2>1, <2>3
      <3>2. row[q].status = "sending"
        BY <1>5, <2>3 DEF Held
      <3>3. CASE Newer(row[k])
        BY <1>2, <2>3, <3>1, <3>2, <3>3, RequeuedRow
      <3>4. CASE ~Newer(row[k])
        BY <1>1, <1>2, <2>3, <3>1, <3>2, <3>4
      <3>. QED
        BY <3>3, <3>4
    <2>. QED
      BY <2>2, <2>3
  <1>. QED
    BY <1>3, <1>4, <1>5

-----------------------------------------------------------------------------
(* Steps that leave Telegram alone.                                        *)

\* No row disappears, loses content or its place, and no row is sent thereby.
Kept(q) ==
    /\ row'[q] \in Row
    /\ row'[q].status = "absent" => row'[q] = row[q]
    /\ row'[q].rev >= row[q].rev
    /\ row'[q].rev = row[q].rev => row'[q].facts = row[q].facts
    /\ row'[q].msg = row[q].msg \/ row'[q].msg <= Len(chat[q])

Steady(q) ==
    /\ Kept(q)
    /\ row'[q].status = "sent" => /\ row[q].status = "sent" /\ row'[q].facts = row[q].facts
                                  /\ row[q].msg # 0 => row'[q].msg = row[q].msg
    /\ row'[q].msg = 0 => row[q].msg = 0
    /\ row'[q].msg = 0 /\ row[q].status \in Doubt =>
         \/ row'[q].status \in Doubt
         \/ q = worker.key /\ worker.pc = "claimed" /\ worker'.pc = "idle"

Quiet ==
    \/ \E w \in Writers : ReadThread(w) \/ PublishThread(w)
    \/ \E k \in Events \cup PartSet : PublishOnce(k)
    \/ \E k \in Threads : Invalidate(k)
    \/ Suppress \/ SettleFails \/ Restart \/ Recover
    \/ \E k \in Keys : LeaseEnds(k) \/ RetryDue(k)

Calls == Send \/ Edit \/ EditRefused \/ Refrain

\* A row that is left alone is steady.
LEMMA SameIsSteady ==
  ASSUME Shape, NEW q \in Keys, row'[q] = row[q]
  PROVE  Steady(q)
  <1>1. row[q] \in Row /\ row[q].rev \in Nat
    BY DEF Shape, TypeOK, Row
  <1>. QED
    BY <1>1 DEF Steady, Kept

\* So is a row that keeps its message, its content and its place in doubt.
LEMMA AlikeIsSteady ==
  ASSUME Shape, NEW q \in Keys, row'[q] \in Row,
         row'[q].msg = row[q].msg, row'[q].rev = row[q].rev, row'[q].facts = row[q].facts,
         row'[q].status \notin {"absent", "sent"},
         row[q].status \in Doubt => row'[q].status \in Doubt \/ row[q].msg # 0
  PROVE  Steady(q)
  <1>1. row[q].rev \in Nat
    BY DEF Shape, TypeOK, Row
  <1>. QED
    BY <1>1 DEF Steady, Kept

LEMMA ReadSteady ==
  ASSUME Shape, NEW w \in Writers, ReadThread(w)
  PROVE  row' = row
  BY DEF ReadThread

LEMMA PublishThreadSteady ==
  ASSUME Shape, NEW w \in Writers, PublishThread(w)
  PROVE  row' \in [Keys -> Row] /\ \A q \in Keys : Steady(q)
  <1>1. row \in [Keys -> Row]
    BY DEF Shape, TypeOK
  <1>2. CASE row' = row
    BY <1>1, <1>2, SameIsSteady
  <1>3. ASSUME NEW k \in Threads, NEW p \in Nat, p <= Len(chat[k]),
               row' = [row EXCEPT ![k] = Upserted(row[k], snap[w].facts \cup {w}, p)],
               snap[w].facts \cup {w} \in SUBSET Facts
        PROVE  row' \in [Keys -> Row] /\ \A q \in Keys : Steady(q)
    <2>1. k \in Keys /\ row[k] \in Row /\ (row[k].status = "absent" => row[k] = Absent)
      BY <1>1 DEF Keys, Shape, AbsentIsEmpty
    <2>. DEFINE facts == snap[w].facts \cup {w}
                u == Upserted(row[k], facts, p)
    <2>2. /\ u \in Row /\ u.msg = Adopted(row[k], p) /\ u.rev >= row[k].rev
          /\ u.rev = row[k].rev => u.facts = row[k].facts
          /\ u.facts = facts /\ u.status # "absent"
          /\ u.status = "sent" => row[k].status = "sent" /\ facts = row[k].facts
          /\ u.msg = 0 /\ row[k].status \in Doubt => u.status = row[k].status
      BY <1>3, <2>1, UpsertedRow
    <2>3. row' = [row EXCEPT ![k] = u]
      BY <1>3
    <2>. HIDE DEF u, facts
    <2>4. Steady(k)
      <3>1. row'[k] = u
        BY <1>1, <2>1, <2>3
      <3>2. /\ u.msg = row[k].msg \/ u.msg = p
            /\ row[k].msg # 0 => u.msg = row[k].msg
        BY <2>2 DEF Adopted
      <3>3. u.msg = 0 => row[k].msg = 0
        BY <3>2
      <3>. QED
        BY <1>3, <2>2, <3>1, <3>2, <3>3 DEF Steady, Kept
    <2>5. ASSUME NEW q \in Keys \ {k}
          PROVE  Steady(q)
      BY <1>1, <2>3, SameIsSteady
    <2>. QED
      BY <1>1, <2>1, <2>2, <2>3, <2>4, <2>5
  <1>. QED
    BY <1>2, <1>3, PublishedRow

LEMMA PublishOnceSteady ==
  ASSUME Shape, NEW k \in Events \cup PartSet, PublishOnce(k)
  PROVE  row' \in [Keys -> Row] /\ \A q \in Keys : Steady(q)
  <1>1. row \in [Keys -> Row] /\ k \in Keys /\ {"body"} \in SUBSET Facts /\ 0 \in Nat
    BY DEF Shape, TypeOK, Keys, Facts
  <1>2. row[k] = Absent
    BY <1>1 DEF PublishOnce, Shape, AbsentIsEmpty
  <1>. DEFINE n == Inserted({"body"}, 0)
  <1>3. n \in Row /\ n.status = "pending" /\ n.rev = 1 /\ n.msg = 0
    BY <1>1, InsertedRow
  <1>4. row' = [row EXCEPT ![k] = n]
    BY DEF PublishOnce
  <1>. HIDE DEF n
  <1>5. Steady(k)
    <2>1. row'[k] = n
      BY <1>1, <1>4
    <2>2. row[k].rev = 0 /\ row[k].msg = 0 /\ row[k].status \notin Doubt
      BY <1>2 DEF Absent, Doubt
    <2>. QED
      BY <1>3, <2>1, <2>2 DEF Steady, Kept
  <1>6. ASSUME NEW q \in Keys \ {k}
        PROVE  Steady(q)
    BY <1>1, <1>4, SameIsSteady
  <1>. QED
    BY <1>1, <1>3, <1>4, <1>5, <1>6

LEMMA InvalidateSteady ==
  ASSUME Shape, NEW k \in Threads, Invalidate(k)
  PROVE  row' \in [Keys -> Row] /\ \A q \in Keys : Steady(q)
  <1>1. row \in [Keys -> Row] /\ k \in Keys /\ row[k] \in Row
    BY DEF Shape, TypeOK, Keys
  <1>. DEFINE n == [row[k] EXCEPT !.status = "suppressed"]
  <1>2. "suppressed" \in Statuses
    BY DEF Statuses, Finished
  <1>3. /\ n \in Row /\ n.status = "suppressed" /\ n.msg = row[k].msg /\ n.rev = row[k].rev
        /\ n.facts = row[k].facts
    BY <1>1, <1>2 DEF Row
  <1>4. row' = [row EXCEPT ![k] = n] /\ row[k].status \notin Doubt
    BY DEF Invalidate, Queued, Doubt
  <1>. HIDE DEF n
  <1>5. row'[k] = n
    BY <1>1, <1>4
  <1>6. Steady(k)
    BY <1>1, <1>3, <1>4, <1>5, AlikeIsSteady
  <1>7. ASSUME NEW q \in Keys \ {k}
        PROVE  Steady(q)
    BY <1>1, <1>4, SameIsSteady
  <1>. QED
    BY <1>1, <1>3, <1>4, <1>6, <1>7

LEMMA SuppressSteady ==
  ASSUME Shape, Suppress
  PROVE  row' \in [Keys -> Row] /\ \A q \in Keys : Steady(q)
  <1>1. row \in [Keys -> Row] /\ worker'.pc = "idle" /\ worker.pc = "claimed"
    BY DEF Shape, TypeOK, Suppress, Idle
  <1>2. ASSUME NEW q \in Keys
        PROVE  Steady(q)
    <2>1. CASE row'[q] = row[q]
      BY <2>1, SameIsSteady
    <2>2. CASE row'[q] # row[q]
      <3>1. /\ row[q].status \in Queued \cup {"sending"}
            /\ row'[q] \in Row /\ row'[q].status \in {"suppressed", "pending"}
            /\ row[q].status = "sending" => q = worker.key
            /\ row'[q].msg = row[q].msg /\ row'[q].rev = row[q].rev
            /\ row'[q].facts = row[q].facts
        BY <2>2, SuppressedRow
      <3>2. row[q].status \in Doubt => q = worker.key
        BY <3>1 DEF Doubt, Queued
      <3>3. row[q].rev \in Nat
        BY <1>1 DEF Row
      <3>. QED
        BY <1>1, <3>1, <3>2, <3>3 DEF Steady, Kept
    <2>. QED
      BY <2>1, <2>2
  <1>3. DOMAIN row' = Keys /\ row' = [q \in Keys |-> row'[q]]
    <2>1. CASE row' = row
      BY <1>1, <2>1
    <2>2. CASE row' # row
      BY <1>1, <2>2 DEF Suppress
    <2>. QED
      BY <2>1, <2>2
  <1>4. \A q \in Keys : row'[q] \in Row
    BY <1>2 DEF Steady, Kept
  <1>. QED
    BY <1>2, <1>3, <1>4

LEMMA RecoverSteady ==
  ASSUME Shape, row' = [k \in Keys |-> Recovered(row[k])]
  PROVE  row' \in [Keys -> Row] /\ \A q \in Keys : Steady(q)
  <1>1. row \in [Keys -> Row]
    BY DEF Shape, TypeOK
  <1>2. ASSUME NEW q \in Keys
        PROVE  Steady(q) /\ row'[q] \in Row
    <2>1. row[q] \in Row /\ row'[q] = Recovered(row[q])
      BY <1>1
    <2>2. CASE row[q].status \notin Doubt
      <3>1. row'[q] = row[q]
        BY <2>1, <2>2, RecoveredRow
      <3>. QED
        BY <2>1, <3>1, SameIsSteady
    <2>3. CASE row[q].status \in Doubt
      <3>1. /\ row'[q] \in Row /\ row'[q].msg = row[q].msg /\ row'[q].rev = row[q].rev
            /\ row'[q].facts = row[q].facts /\ row'[q].status \notin {"absent", "sent"}
            /\ row[q].msg = 0 => row'[q].status = "outcome_unknown"
        BY <2>1, <2>3, RecoveredRow
      <3>2. row[q].msg = 0 => row'[q].status \in Doubt
        BY <3>1 DEF Doubt
      <3>. QED
        BY <3>1, <3>2, AlikeIsSteady
    <2>. QED
      BY <2>2, <2>3
  <1>. QED
    BY <1>2

LEMMA ClockSteady ==
  ASSUME Shape, NEW k \in Keys, LeaseEnds(k) \/ RetryDue(k)
  PROVE  row' \in [Keys -> Row] /\ \A q \in Keys : Steady(q)
  <1>1. row \in [Keys -> Row] /\ row[k] \in Row
    BY DEF Shape, TypeOK
  <1>2. PICK n \in Row : /\ row' = [row EXCEPT ![k] = n] /\ n.msg = row[k].msg
                         /\ n.rev = row[k].rev /\ n.facts = row[k].facts
                         /\ n.status = row[k].status
    <2>1. CASE LeaseEnds(k)
      <3>1. [row[k] EXCEPT !.stale = TRUE] \in Row
        BY <1>1 DEF Row
      <3>. QED
        BY <1>1, <2>1, <3>1 DEF LeaseEnds, Row
    <2>2. CASE RetryDue(k)
      <3>1. [row[k] EXCEPT !.due = TRUE] \in Row
        BY <1>1 DEF Row
      <3>. QED
        BY <1>1, <2>2, <3>1 DEF RetryDue, Row
    <2>. QED
      BY <2>1, <2>2
  <1>3. row[k].status \in {"sending", "retry_wait"}
    BY DEF LeaseEnds, RetryDue
  <1>4. row'[k] = n
    BY <1>1, <1>2
  <1>5. Steady(k)
    BY <1>2, <1>3, <1>4, AlikeIsSteady
  <1>6. ASSUME NEW q \in Keys \ {k}
        PROVE  Steady(q)
    BY <1>1, <1>2, SameIsSteady
  <1>. QED
    BY <1>1, <1>2, <1>5, <1>6

LEMMA ClaimSteady ==
  ASSUME Shape, Claim
  PROVE  row' \in [Keys -> Row] /\ \A q \in Keys : Steady(q)
  <1>1. row \in [Keys -> Row]
    BY DEF Shape, TypeOK
  <1>2. ASSUME NEW q \in Keys, row'[q] = Quarantined(row[q])
        PROVE  Steady(q) /\ row'[q] \in Row
    <2>1. row[q] \in Row
      BY <1>1
    <2>2. CASE InDoubt(row[q])
      <3>1. /\ row'[q] \in Row /\ row'[q].status = "outcome_unknown" /\ row'[q].msg = row[q].msg
            /\ row'[q].rev = row[q].rev /\ row'[q].facts = row[q].facts
        BY <1>2, <2>1, <2>2, QuarantinedRow
      <3>. QED
        BY <3>1, AlikeIsSteady DEF Doubt
    <2>3. CASE ~InDoubt(row[q])
      <3>1. row'[q] = row[q]
        BY <1>2, <2>1, <2>3, QuarantinedRow
      <3>. QED
        BY <2>1, <3>1, SameIsSteady
    <2>. QED
      BY <2>2, <2>3
  <1>3. CASE row' = [k \in Keys |-> Quarantined(row[k])]
    <2>1. \A q \in Keys : row'[q] = Quarantined(row[q])
      BY <1>3
    <2>. QED
      BY <1>2, <1>3, <2>1
  <1>4. ASSUME NEW k \in Keys,
               row'[k] = [row[k] EXCEPT !.status = "sending", !.gen = @ + 1, !.stale = FALSE],
               \A q \in Keys \ {k} : row'[q] = Quarantined(row[q]),
               DOMAIN row' = Keys, row' = [q \in Keys |-> row'[q]]
        PROVE  row' \in [Keys -> Row] /\ \A q \in Keys : Steady(q)
    <2>1. row[k] \in Row
      BY <1>1
    <2>2. /\ row'[k] \in Row /\ row'[k].status = "sending" /\ row'[k].msg = row[k].msg
          /\ row'[k].rev = row[k].rev /\ row'[k].facts = row[k].facts
      BY <1>4, <2>1, TakenRow
    <2>3. Steady(k)
      BY <2>2, AlikeIsSteady DEF Doubt
    <2>4. \A q \in Keys : row'[q] \in Row /\ Steady(q)
      BY <1>2, <1>4, <2>2, <2>3
    <2>. QED
      BY <1>4, <2>4
  <1>. QED
    BY <1>3, <1>4, ClaimedRow

\* The steps that send nothing and settle nothing.
LEMMA QuietSteady ==
  ASSUME Shape, Quiet \/ Claim \/ UNCHANGED vars
  PROVE  row' \in [Keys -> Row] /\ \A q \in Keys : Steady(q)
  <1>1. CASE row' = row
    <2>1. row' \in [Keys -> Row]
      BY <1>1 DEF Shape, TypeOK
    <2>. QED
      BY <1>1, <2>1, SameIsSteady
  <1>2. CASE Restart \/ Recover
    BY <1>2, RecoverSteady DEF Restart, Recover
  <1>3. CASE SettleFails \/ UNCHANGED vars
    BY <1>1, <1>3 DEF SettleFails, vars
  <1>4. CASE \E w \in Writers : ReadThread(w)
    BY <1>1, <1>4, ReadSteady
  <1>. QED
    BY <1>2, <1>3, <1>4, PublishThreadSteady, PublishOnceSteady, InvalidateSteady,
       SuppressSteady, ClockSteady, ClaimSteady DEF Quiet

\* What else a quiet step does: the worker goes on or stops, nothing is shown, and a
\* writer forgets what it read or reads what there is.
LEMMA QuietRest ==
  ASSUME Shape, Quiet \/ UNCHANGED vars
  PROVE  /\ chat' = chat /\ refused' = refused /\ (worker' = worker \/ worker' = Idle)
         /\ snap' \in [Writers -> Snapshot]
         /\ \A w \in Writers : \/ snap'[w] = <<>> \/ snap'[w] = snap[w]
                               \/ \E k \in Threads :
                                    /\ row' = row
                                    /\ snap'[w] = [on |-> k, rev |-> row[k].rev,
                                                   facts |-> row[k].facts]
         /\ publishes' \in 0 .. MaxPublishes /\ troubles' \in 0 .. MaxTroubles
  <1>. USE OutboxAssumption DEF Shape, TypeOK, Trouble
  <1>1. ASSUME NEW w \in Writers, ReadThread(w)
        PROVE  /\ chat' = chat /\ refused' = refused /\ worker' = worker
               /\ snap' \in [Writers -> Snapshot]
               /\ \A v \in Writers : \/ snap'[v] = snap[v]
                                     \/ \E k \in Threads :
                                          /\ row' = row
                                          /\ snap'[v] = [on |-> k, rev |-> row[k].rev,
                                                         facts |-> row[k].facts]
               /\ publishes' \in 0 .. MaxPublishes /\ troubles' \in 0 .. MaxTroubles
    <2>1. PICK k \in Threads :
            snap' = [snap EXCEPT ![w] = [on |-> k, rev |-> row[k].rev, facts |-> row[k].facts]]
      BY <1>1 DEF ReadThread
    <2>2. row[k].rev \in Nat /\ row[k].facts \in SUBSET Facts
      BY DEF Keys, Row
    <2>3. [on |-> k, rev |-> row[k].rev, facts |-> row[k].facts] \in Snapshot
      BY <2>2 DEF Snapshot
    <2>. QED
      BY <1>1, <2>1, <2>3 DEF ReadThread
  <1>2. ASSUME NEW w \in Writers, PublishThread(w)
        PROVE  /\ chat' = chat /\ refused' = refused /\ worker' = worker
               /\ snap' \in [Writers -> Snapshot]
               /\ \A v \in Writers : snap'[v] = <<>> \/ snap'[v] = snap[v]
               /\ publishes' \in 0 .. MaxPublishes /\ troubles' \in 0 .. MaxTroubles
    <2>1. snap' = [snap EXCEPT ![w] = <<>>] /\ <<>> \in Snapshot
      BY <1>2 DEF PublishThread, Snapshot
    <2>2. publishes' = publishes + 1 /\ publishes < MaxPublishes
      BY <1>2 DEF PublishThread
    <2>. QED
      BY <1>2, <2>1, <2>2 DEF PublishThread
  <1>3. ASSUME NEW k \in Events \cup PartSet, PublishOnce(k)
        PROVE  /\ chat' = chat /\ refused' = refused /\ worker' = worker /\ snap' = snap
               /\ publishes' \in 0 .. MaxPublishes /\ troubles' \in 0 .. MaxTroubles
    BY <1>3 DEF PublishOnce
  <1>4. ASSUME NEW k \in Threads, Invalidate(k)
        PROVE  /\ chat' = chat /\ refused' = refused /\ worker' = worker /\ snap' = snap
               /\ publishes' \in 0 .. MaxPublishes /\ troubles' \in 0 .. MaxTroubles
    BY <1>4 DEF Invalidate
  <1>5. ASSUME Suppress \/ SettleFails \/ Recover
        PROVE  /\ chat' = chat /\ refused' = refused /\ (worker' = worker \/ worker' = Idle)
               /\ snap' = snap
               /\ publishes' \in 0 .. MaxPublishes /\ troubles' \in 0 .. MaxTroubles
    <2>1. /\ chat' = chat /\ refused' = refused /\ (worker' = worker \/ worker' = Idle)
          /\ snap' = snap /\ publishes' = publishes
          /\ troubles' = troubles \/ (troubles < MaxTroubles /\ troubles' = troubles + 1)
      BY ONLY Suppress \/ SettleFails \/ Recover, Zenon DEF Suppress, SettleFails, Recover, Trouble
    <2>. QED
      BY <2>1
  <1>6. ASSUME Restart
        PROVE  /\ chat' = chat /\ refused' = refused /\ worker' = Idle
               /\ snap' \in [Writers -> Snapshot] /\ \A w \in Writers : snap'[w] = <<>>
               /\ publishes' \in 0 .. MaxPublishes /\ troubles' \in 0 .. MaxTroubles
    <2>1. <<>> \in Snapshot
      BY DEF Snapshot
    <2>. QED
      BY <1>6, <2>1 DEF Restart
  <1>7. ASSUME NEW k \in Keys, LeaseEnds(k) \/ RetryDue(k)
        PROVE  /\ chat' = chat /\ refused' = refused /\ worker' = worker /\ snap' = snap
               /\ publishes' \in 0 .. MaxPublishes /\ troubles' \in 0 .. MaxTroubles
    BY <1>7 DEF LeaseEnds, RetryDue
  <1>8. ASSUME UNCHANGED vars
        PROVE  /\ chat' = chat /\ refused' = refused /\ worker' = worker /\ snap' = snap
               /\ publishes' \in 0 .. MaxPublishes /\ troubles' \in 0 .. MaxTroubles
    BY <1>8 DEF vars
  <1>9. snap \in [Writers -> Snapshot]
    OBVIOUS
  <1>. QED
    BY ONLY Quiet \/ UNCHANGED vars, <1>1, <1>2, <1>3, <1>4, <1>5, <1>6, <1>7, <1>8, <1>9, Zenon DEF Quiet

-----------------------------------------------------------------------------
(* Calls: what an answer tells of what Telegram shows.                     *)

LEMMA Answered ==
  ASSUME worker \in Worker, NEW kind \in {"none", "ok", "rejected", "busy", "unknown"},
         NEW m \in Nat, NEW f \in BOOLEAN, Answer(Got(kind, m, f))
  PROVE  /\ worker' \in Worker /\ worker'.pc = "called"
         /\ worker'.key = worker.key /\ worker'.facts = worker.facts
         /\ worker'.rev = worker.rev /\ worker'.msg = worker.msg /\ worker'.gen = worker.gen
         /\ worker'.got.kind = kind /\ worker'.got.msg = m /\ worker'.got.fallback = f
  <1>1. Got(kind, m, f) \in Result
    BY DEF Got, Result
  <1>2. worker' = [worker EXCEPT !.pc = "called", !.got = Got(kind, m, f)]
    BY DEF Answer
  <1>. QED
    BY <1>1, <1>2 DEF Worker, Got

\* The worker after a call holds what it claimed.
Holds ==
    /\ worker' \in Worker /\ worker'.pc = "called"
    /\ worker'.key = worker.key /\ worker'.facts = worker.facts
    /\ worker'.rev = worker.rev /\ worker'.msg = worker.msg /\ worker'.gen = worker.gen

\* What a call may do to the messages of the row.
Showing ==
    LET k == worker.key IN
    /\ chat' \in [Keys -> Seq(SUBSET Facts)]
    /\ \A q \in Keys \ {k} : chat'[q] = chat[q]
    /\ Len(chat'[k]) >= Len(chat[k])
    /\ worker'.got.msg <= Len(chat'[k])
    /\ worker'.got.kind = "ok" => /\ worker'.got.msg > 0
                                  /\ chat'[k][worker'.got.msg] = worker.facts

\* The one send of a message that was never sent.
Sending ==
    LET k == worker.key IN
    /\ Len(chat'[k]) <= Len(chat[k]) + 1
    /\ worker'.got.kind \notin {"ok", "unknown"} => chat'[k] = chat[k]

LEMMA SentNew ==
  ASSUME Shape, NEW f \in BOOLEAN, SendNew(worker.key, f)
  PROVE  Holds /\ Showing /\ Sending /\ worker'.got.fallback = f
  <1>. DEFINE k == worker.key
              n == Len(chat[k]) + 1
  <1>1. /\ worker \in Worker /\ chat \in [Keys -> Seq(SUBSET Facts)] /\ k \in Keys
        /\ worker.facts \in SUBSET Facts /\ {} \in SUBSET Facts
        /\ chat[k] \in Seq(SUBSET Facts) /\ Len(chat[k]) \in Nat /\ n \in Nat /\ 0 \in Nat
    BY DEF Shape, TypeOK, Worker
  <1>2. ASSUME NEW x \in SUBSET Facts, chat' = [chat EXCEPT ![k] = Append(@, x)]
        PROVE  /\ chat' \in [Keys -> Seq(SUBSET Facts)]
               /\ \A q \in Keys \ {k} : chat'[q] = chat[q]
               /\ Len(chat'[k]) = n /\ chat'[k][n] = x
    <2>1. /\ Append(chat[k], x) \in Seq(SUBSET Facts) /\ Len(Append(chat[k], x)) = n
          /\ Append(chat[k], x)[n] = x
      BY <1>1
    <2>. QED
      BY <1>1, <1>2, <2>1
  <1>3. CASE chat' = [chat EXCEPT ![k] = Append(@, worker.facts)]
             /\ (Answer(Got("ok", Len(chat'[k]), f)) \/ Answer(Got("unknown", 0, f)))
    <2>1. /\ chat' \in [Keys -> Seq(SUBSET Facts)]
          /\ \A q \in Keys \ {k} : chat'[q] = chat[q]
          /\ Len(chat'[k]) = n /\ chat'[k][n] = worker.facts
      BY <1>1, <1>2, <1>3
    <2>2. CASE Answer(Got("ok", Len(chat'[k]), f))
      <3>1. /\ Holds /\ worker'.got.kind = "ok" /\ worker'.got.msg = n
            /\ worker'.got.fallback = f
        BY <1>1, <2>1, <2>2, Answered DEF Holds
      <3>. QED
        BY <1>1, <2>1, <3>1 DEF Showing, Sending
    <2>3. CASE Answer(Got("unknown", 0, f))
      <3>1. /\ Holds /\ worker'.got.kind = "unknown" /\ worker'.got.msg = 0
            /\ worker'.got.fallback = f
        BY <1>1, <2>3, Answered DEF Holds
      <3>. QED
        BY <1>1, <2>1, <3>1 DEF Showing, Sending
    <2>. QED
      BY <1>3, <2>2, <2>3
  <1>4. CASE UNCHANGED chat
             /\ \E kind \in {"rejected", "busy", "unknown"} : Answer(Got(kind, 0, f))
    <2>1. PICK kind \in {"rejected", "busy", "unknown"} : Answer(Got(kind, 0, f))
      BY <1>4
    <2>2. /\ Holds /\ worker'.got.kind # "ok" /\ worker'.got.msg = 0
          /\ worker'.got.fallback = f
      BY <1>1, <2>1, Answered DEF Holds
    <2>. QED
      BY <1>1, <1>4, <2>2 DEF Showing, Sending
  <1>5. CASE /\ chat' = [chat EXCEPT ![k] = Append(@, {})]
             /\ Answer(Got("unknown", Len(chat'[k]), f))
    <2>1. /\ chat' \in [Keys -> Seq(SUBSET Facts)]
          /\ \A q \in Keys \ {k} : chat'[q] = chat[q]
          /\ Len(chat'[k]) = n
      BY <1>1, <1>2, <1>5
    <2>2. /\ Holds /\ worker'.got.kind = "unknown" /\ worker'.got.msg = n
          /\ worker'.got.fallback = f
      BY <1>1, <1>5, <2>1, Answered DEF Holds
    <2>. QED
      BY <1>1, <2>1, <2>2 DEF Showing, Sending
  <1>. QED
    BY <1>3, <1>4, <1>5 DEF SendNew

\* A row whose message can be edited is never sent a second one.
Single ==
    LET k == worker.key IN
    ~refused'[k] =>
        /\ ~refused[k] /\ ~worker'.got.fallback
        /\ worker.msg > 0 => Len(chat'[k]) = Len(chat[k])
        /\ worker.msg = 0 => Sending

LEMMA CallStep ==
  ASSUME Shape, Calls
  PROVE  /\ worker.pc = "claimed" /\ Holds /\ Showing /\ Single
         /\ refused' \in [Keys -> BOOLEAN]
         /\ \A q \in Keys \ {worker.key} : refused'[q] = refused[q]
         /\ row' = row /\ snap' = snap /\ publishes' = publishes /\ troubles' = troubles
  <1>. DEFINE k == worker.key
              m == worker.msg
  <1>1. /\ worker \in Worker /\ chat \in [Keys -> Seq(SUBSET Facts)] /\ k \in Keys
        /\ worker.facts \in SUBSET Facts /\ refused \in [Keys -> BOOLEAN]
        /\ chat[k] \in Seq(SUBSET Facts) /\ Len(chat[k]) \in Nat /\ m \in Nat
        /\ m <= Len(chat[k]) /\ TRUE \in BOOLEAN /\ FALSE \in BOOLEAN
    BY DEF Shape, TypeOK, Worker, WorkerNames
  <1>2. CASE Send
    <2>1. SendNew(k, FALSE) /\ worker.pc = "claimed" /\ m = 0
      BY <1>2 DEF Send
    <2>2. Holds /\ Showing /\ Sending /\ worker'.got.fallback = FALSE
      BY <1>1, <2>1, SentNew
    <2>3. /\ row' = row /\ snap' = snap /\ publishes' = publishes /\ troubles' = troubles
          /\ refused' = refused
      BY <1>2 DEF Send
    <2>. QED
      BY <1>1, <2>1, <2>2, <2>3 DEF Single
  <1>3. CASE Edit
    <2>1. /\ worker.pc = "claimed" /\ m > 0 /\ refused' = refused
          /\ row' = row /\ snap' = snap /\ publishes' = publishes /\ troubles' = troubles
      BY <1>3 DEF Edit
    <2>2. PICK kind \in {"ok", "rejected", "busy", "unknown"} :
            /\ Answer(Got(kind, m, FALSE))
            /\ \/ chat' = [chat EXCEPT ![k][m] = worker.facts]
               \/ chat' = chat /\ kind # "ok"
      BY <1>3 DEF Edit
    <2>3. /\ Holds /\ worker'.got.kind = kind /\ worker'.got.msg = m
          /\ worker'.got.fallback = FALSE
      BY <1>1, <2>2, Answered DEF Holds
    <2>4. CASE chat' = [chat EXCEPT ![k][m] = worker.facts]
      <3>1. m \in 1 .. Len(chat[k])
        BY <1>1, <2>1
      <3>2. /\ [chat[k] EXCEPT ![m] = worker.facts] \in Seq(SUBSET Facts)
            /\ Len([chat[k] EXCEPT ![m] = worker.facts]) = Len(chat[k])
            /\ [chat[k] EXCEPT ![m] = worker.facts][m] = worker.facts
        BY <1>1, <3>1
      <3>3. /\ chat'[k] = [chat[k] EXCEPT ![m] = worker.facts]
            /\ chat' \in [Keys -> Seq(SUBSET Facts)]
            /\ \A q \in Keys \ {k} : chat'[q] = chat[q]
        BY <1>1, <2>4, <3>2
      <3>. QED
        BY <1>1, <2>1, <2>3, <3>2, <3>3 DEF Showing, Single
    <2>5. CASE chat' = chat /\ kind # "ok"
      BY <1>1, <2>1, <2>3, <2>5 DEF Showing, Single
    <2>. QED
      BY <2>2, <2>4, <2>5
  <1>4. CASE EditRefused
    <2>1. SendNew(k, TRUE) /\ worker.pc = "claimed" /\ refused' = [refused EXCEPT ![k] = TRUE]
      BY <1>4 DEF EditRefused
    <2>2. Holds /\ Showing
      BY <1>1, <2>1, SentNew
    <2>3. row' = row /\ snap' = snap /\ publishes' = publishes /\ troubles' = troubles
      BY <1>4 DEF EditRefused
    <2>. QED
      BY <1>1, <2>1, <2>2, <2>3 DEF Single
  <1>5. CASE Refrain
    <2>1. /\ worker.pc = "claimed" /\ refused' = refused /\ chat' = chat
          /\ row' = row /\ snap' = snap /\ publishes' = publishes /\ troubles' = troubles
      BY <1>5 DEF Refrain
    <2>2. PICK kind \in {"rejected", "busy"} : Answer(Got(kind, 0, FALSE))
      BY <1>5 DEF Refrain
    <2>3. /\ Holds /\ worker'.got.kind = kind /\ worker'.got.msg = 0
          /\ worker'.got.fallback = FALSE
      BY <1>1, <2>2, Answered DEF Holds
    <2>. QED
      BY <1>1, <2>1, <2>3 DEF Showing, Single, Sending
  <1>. QED
    BY <1>2, <1>3, <1>4, <1>5 DEF Calls

-----------------------------------------------------------------------------
(* Settlements and purges.                                                 *)

LEMMA SettleStep ==
  ASSUME Shape, Settle
  PROVE  LET k == worker.key IN
         /\ worker.pc = "called" /\ worker' = Idle /\ k \in Keys
         /\ row' \in [Keys -> Row]
         /\ \A q \in Keys \ {k} : row'[q] = row[q]
         /\ row'[k] = row[k] \/ (row'[k] = Settled(row[k]) /\ row[k].status = "sending")
         /\ \A q \in Keys : Kept(q) \/ (q = k /\ row'[q].msg = 0)
                                    \/ (q = k /\ row'[q].msg = worker.got.msg)
         /\ \A q \in Keys : /\ row'[q].rev = row[q].rev /\ row'[q].facts = row[q].facts
                            /\ row'[q].status = "absent" => row'[q] = row[q]
                            /\ row'[q].msg <= Len(chat[q])
         /\ UNCHANGED <<chat, refused, snap, publishes, troubles>>
  <1>. DEFINE k == worker.key
  <1>1. /\ row \in [Keys -> Row] /\ worker \in Worker /\ k \in Keys /\ row[k] \in Row
        /\ \A q \in Keys : row[q].msg <= Len(chat[q])
        /\ \A q \in Keys : row[q].rev \in Nat /\ row[q].msg \in Nat
        /\ \A q \in Keys : Len(chat[q]) \in Nat
        /\ worker.got.msg <= Len(chat[k])
    BY DEF Shape, TypeOK, Worker, WorkerNames, Row
  <1>2. /\ Settled(row[k]) \in Row
        /\ Settled(row[k]).rev = row[k].rev /\ Settled(row[k]).facts = row[k].facts
        /\ Settled(row[k]).msg \in {0, row[k].msg, worker.got.msg}
        /\ Settled(row[k]).status # "absent"
    BY <1>1, SettledRow
  <1>3. /\ worker.pc = "called" /\ worker' = Idle
        /\ UNCHANGED <<chat, refused, snap, publishes, troubles>>
    BY DEF Settle
  <1>4. CASE row' = row
    <2>1. \A q \in Keys : Kept(q)
      BY <1>4, SameIsSteady DEF Steady
    <2>. QED
      BY <1>1, <1>3, <1>4, <2>1
  <1>5. CASE Held(row[k]) /\ row' = [row EXCEPT ![k] = Settled(row[k])]
    <2>1. \A q \in Keys \ {k} : row'[q] = row[q] /\ Kept(q)
      BY <1>1, <1>5, SameIsSteady DEF Steady
    <2>2. row'[k] = Settled(row[k]) /\ row[k].status = "sending"
      BY <1>1, <1>5 DEF Held
    <2>3. /\ row'[k].rev = row[k].rev /\ row'[k].facts = row[k].facts
          /\ row'[k].status # "absent" /\ row'[k].msg \in {0, row[k].msg, worker.got.msg}
          /\ row'[k] \in Row
      BY <1>2, <2>2
    <2>4. row'[k].msg <= Len(chat[k])
      BY <1>1, <2>3
    <2>5. Kept(k)
      BY <1>1, <2>3, <2>4 DEF Kept
    <2>6. row' \in [Keys -> Row]
      BY <1>1, <1>2, <1>5
    <2>. QED
      BY <1>1, <1>3, <2>1, <2>2, <2>3, <2>4, <2>5, <2>6
  <1>6. row' = IF Held(row[k]) THEN [row EXCEPT ![k] = Settled(row[k])] ELSE row
    BY DEF Settle
  <1>. QED
    BY <1>4, <1>5, <1>6

LEMMA PurgeStep ==
  ASSUME Shape, NEW k \in Keys, Purge(k)
  PROVE  /\ worker.pc = "idle" /\ worker' = worker /\ worker = Idle
         /\ row' \in [Keys -> Row] /\ chat' \in [Keys -> Seq(SUBSET Facts)]
         /\ refused' \in [Keys -> BOOLEAN]
         /\ row'[k] = Absent /\ chat'[k] = <<>> /\ ~refused'[k]
         /\ \A q \in Keys \ {k} : row'[q] = row[q] /\ chat'[q] = chat[q] /\ refused'[q] = refused[q]
         /\ \A w \in Writers : snap[w] # <<>> => snap[w].on # k
         /\ snap' = snap /\ publishes' = publishes
         /\ troubles < MaxTroubles /\ troubles' = troubles + 1
  <1>1. <<>> \in Seq(SUBSET Facts) /\ FALSE \in BOOLEAN
    OBVIOUS
  <1>. QED
    BY <1>1, AbsentRow DEF Purge, Trouble, Shape, TypeOK, WorkerNames

-----------------------------------------------------------------------------
(* The types and what is empty.                                            *)

LEMMA IdleWorker ==
  /\ Idle \in Worker /\ Idle.pc = "idle" /\ Idle.msg = 0 /\ Idle.got.msg = 0
  /\ Idle.key \in Keys
  <1>1. PICK k \in Keys : k = (CHOOSE q \in Keys : TRUE)
    BY OutboxAssumption
  <1>2. NoResult \in Result /\ NoResult.msg = 0
    BY DEF NoResult, Result
  <1>. QED
    BY <1>1, <1>2 DEF Idle, Worker

LEMMA ShapeStep ==
  ASSUME Shape, Quiet \/ Claim \/ Calls \/ Settle \/ (\E k \in Keys : Purge(k)) \/ UNCHANGED vars
  PROVE  Shape'
  <1>. USE DEF Shape, TypeOK, AbsentIsEmpty, WorkerNames
  <1>1. /\ \A q \in Keys : Len(chat[q]) \in Nat /\ row[q].msg \in Nat
        /\ worker \in Worker /\ worker.key \in Keys /\ worker.msg \in Nat
    BY DEF Row, Worker
  <1>2. CASE Quiet \/ UNCHANGED vars
    <2>1. row' \in [Keys -> Row] /\ \A q \in Keys : Kept(q)
      BY <1>2, QuietSteady DEF Steady
    <2>2. /\ chat' = chat /\ refused' = refused /\ (worker' = worker \/ worker' = Idle)
          /\ snap' \in [Writers -> Snapshot]
          /\ publishes' \in 0 .. MaxPublishes /\ troubles' \in 0 .. MaxTroubles
      BY <1>2, QuietRest
    <2>3. \A q \in Keys : /\ row'[q].msg <= Len(chat'[q])
                          /\ row'[q].status = "absent" => row'[q] = Absent
      BY <2>1, <2>2 DEF Kept
    <2>4. /\ worker' \in Worker
          /\ worker'.pc = "idle" => worker' = Idle
          /\ worker'.msg <= Len(chat'[worker'.key]) /\ worker'.got.msg <= Len(chat'[worker'.key])
      BY <1>1, <2>2, IdleWorker
    <2>. QED
      BY <2>1, <2>2, <2>3, <2>4
  <1>3. CASE Claim
    <2>1. row' \in [Keys -> Row] /\ \A q \in Keys : Kept(q)
      BY <1>3, QuietSteady DEF Steady
    <2>2. UNCHANGED <<chat, refused, snap, publishes, troubles>>
      BY <1>3 DEF Claim
    <2>3. \A q \in Keys : /\ row'[q].msg <= Len(chat'[q])
                          /\ row'[q].status = "absent" => row'[q] = Absent
      BY <2>1, <2>2 DEF Kept
    <2>4. /\ worker' \in Worker
          /\ worker'.pc = "idle" => worker' = Idle
          /\ worker'.msg <= Len(chat'[worker'.key]) /\ worker'.got.msg <= Len(chat'[worker'.key])
      <3>1. CASE worker' = worker
        BY <2>2, <3>1
      <3>2. ASSUME NEW k \in Keys,
                   worker' = [pc |-> "claimed", key |-> k, facts |-> row[k].facts,
                              rev |-> row[k].rev, msg |-> row[k].msg, gen |-> row[k].gen + 1,
                              got |-> NoResult]
            PROVE  /\ worker' \in Worker /\ worker'.pc # "idle"
                   /\ worker'.msg <= Len(chat'[worker'.key])
                   /\ worker'.got.msg <= Len(chat'[worker'.key])
        <4>1. NoResult \in Result /\ NoResult.msg = 0
          BY DEF NoResult, Result
        <4>0. row[k] \in Row
          BY <3>2
        <4>2. row[k].facts \in SUBSET Facts /\ row[k].rev \in Nat /\ row[k].gen + 1 \in Nat
          BY ONLY <4>0 DEF Row
        <4>. QED
          BY <1>1, <2>2, <3>2, <4>1, <4>2 DEF Worker
      <3>. QED
        BY <1>3, <3>1, <3>2, ClaimedRow
    <2>. QED
      BY <2>1, <2>2, <2>3, <2>4
  <1>4. CASE Calls
    <2>1. /\ worker.pc = "claimed" /\ Holds /\ Showing
          /\ refused' \in [Keys -> BOOLEAN]
          /\ row' = row /\ snap' = snap /\ publishes' = publishes /\ troubles' = troubles
      BY <1>4, CallStep
    <2>2. ASSUME NEW q \in Keys
          PROVE  Len(chat'[q]) >= Len(chat[q]) /\ Len(chat'[q]) \in Nat
      <3>1. chat'[q] \in Seq(SUBSET Facts)
        BY <2>1 DEF Showing
      <3>2. Len(chat'[q]) \in Nat
        BY <3>1
      <3>3. CASE q = worker.key
        BY <2>1, <3>2, <3>3 DEF Showing
      <3>4. CASE q # worker.key
        <4>1. chat'[q] = chat[q]
          BY <2>1, <3>4 DEF Showing
        <4>. QED
          BY <1>1, <4>1
      <3>. QED
        BY <3>3, <3>4
    <2>3. \A q \in Keys : row'[q].msg <= Len(chat'[q])
      BY <1>1, <2>1, <2>2
    <2>4. /\ worker'.pc # "idle" /\ worker'.msg <= Len(chat'[worker'.key])
          /\ worker'.got.msg <= Len(chat'[worker'.key])
      BY <1>1, <2>1, <2>2 DEF Holds, Showing
    <2>. QED
      BY <2>1, <2>3, <2>4 DEF Holds, Showing
  <1>5. CASE Settle
    <2>1. /\ worker' = Idle /\ row' \in [Keys -> Row]
          /\ \A q \in Keys : /\ row'[q].status = "absent" => row'[q] = row[q]
                             /\ row'[q].msg <= Len(chat[q])
          /\ UNCHANGED <<chat, refused, snap, publishes, troubles>>
      BY <1>5, SettleStep
    <2>. QED
      BY <1>1, <2>1, IdleWorker
  <1>6. ASSUME NEW k \in Keys, Purge(k)
        PROVE  Shape'
    <2>1. /\ worker' = worker /\ worker = Idle
          /\ row' \in [Keys -> Row] /\ chat' \in [Keys -> Seq(SUBSET Facts)]
          /\ refused' \in [Keys -> BOOLEAN]
          /\ row'[k] = Absent /\ chat'[k] = <<>>
          /\ \A q \in Keys \ {k} : row'[q] = row[q] /\ chat'[q] = chat[q]
          /\ snap' = snap /\ publishes' = publishes
          /\ troubles < MaxTroubles /\ troubles' = troubles + 1
      BY <1>6, PurgeStep
    <2>2. Absent.msg = 0 /\ Len(<<>>) = 0
      BY DEF Absent
    <2>3. ASSUME NEW q \in Keys
          PROVE  /\ row'[q].msg <= Len(chat'[q]) /\ Len(chat'[q]) \in Nat
                 /\ row'[q].status = "absent" => row'[q] = Absent
      <3>1. CASE q = k
        BY <2>1, <2>2, <3>1
      <3>2. CASE q # k
        <4>1. row'[q] = row[q] /\ chat'[q] = chat[q]
          BY <2>1, <3>2
        <4>. QED
          BY <1>1, <4>1
      <3>. QED
        BY <3>1, <3>2
    <2>4. troubles' \in 0 .. MaxTroubles
      BY <2>1, OutboxAssumption
    <2>. QED
      BY <2>1, <2>3, <2>4, IdleWorker
  <1>. QED
    BY <1>2, <1>3, <1>4, <1>5, <1>6

-----------------------------------------------------------------------------
(* One message.                                                            *)

Step == Quiet \/ Claim \/ Calls \/ Settle \/ (\E k \in Keys : Purge(k)) \/ UNCHANGED vars

\* A sequence without an element has no length.
LEMMA LengthOfChat ==
  ASSUME Shape, NEW q \in Keys
  PROVE  /\ Len(chat[q]) \in Nat
         /\ chat[q] = <<>> <=> Len(chat[q]) = 0
         /\ row[q] \in Row /\ row[q].msg \in Nat /\ row[q].rev \in Nat
         /\ row[q].msg <= Len(chat[q])
  <1>1. chat[q] \in Seq(SUBSET Facts) /\ row[q] \in Row
    BY DEF Shape, TypeOK
  <1>. QED
    BY <1>1 DEF Row, Shape, TypeOK

LEMMA KnownStep ==
  ASSUME Shape, KnownOrInDoubt, WorkerSends, WorkerShows, Step
  PROVE  KnownOrInDoubt'
  <1>. SUFFICES ASSUME NEW q \in Keys, ~refused'[q], chat'[q] # <<>>, row'[q].msg = 0
                PROVE  row'[q].status \in Doubt
    BY DEF KnownOrInDoubt
  <1>0. /\ worker \in Worker /\ worker.key \in Keys /\ worker.msg \in Nat
        /\ row[q].msg \in Nat /\ worker.got.msg \in Nat
    BY LengthOfChat DEF Shape, TypeOK, Worker, Result
  <1>1. CASE Quiet \/ Claim \/ UNCHANGED vars
    <2>1. chat' = chat /\ refused' = refused
      BY <1>1, QuietRest DEF Claim
    <2>2. Steady(q)
      BY <1>1, QuietSteady
    <2>3. row[q].msg = 0 /\ row[q].status \in Doubt
      BY <2>1, <2>2 DEF Steady, KnownOrInDoubt
    <2>4. ~(q = worker.key /\ worker.pc = "claimed")
      <3>. SUFFICES ASSUME q = worker.key, worker.pc = "claimed" PROVE FALSE
        OBVIOUS
      <3>1. worker.msg = 0
        BY <1>0, <2>1, <2>3 DEF WorkerSends
      <3>. QED
        BY <2>1, <3>1 DEF WorkerSends
    <2>. QED
      BY <2>2, <2>3, <2>4 DEF Steady
  <1>2. CASE Calls
    <2>1. /\ worker.pc = "claimed" /\ Showing /\ Single /\ row' = row
          /\ \A p \in Keys \ {worker.key} : refused'[p] = refused[p]
      BY <1>2, CallStep
    <2>2. CASE q # worker.key
      BY <2>1, <2>2 DEF Showing, KnownOrInDoubt
    <2>3. CASE q = worker.key
      <3>1. ~refused[q] /\ row[q].msg = 0
        BY <2>1, <2>3 DEF Single
      <3>2. worker.msg = 0
        BY <1>0, <2>1, <2>3, <3>1 DEF WorkerSends
      <3>. QED
        BY <2>1, <2>3, <3>1, <3>2 DEF WorkerSends
    <2>. QED
      BY <2>2, <2>3
  <1>3. CASE Settle
    <2>. DEFINE k == worker.key
    <2>1. /\ worker.pc = "called" /\ refused' = refused /\ chat' = chat
          /\ \A p \in Keys \ {k} : row'[p] = row[p]
          /\ row'[k] = row[k] \/ (row'[k] = Settled(row[k]) /\ row[k].status = "sending")
      BY <1>3, SettleStep
    <2>2. CASE row'[q] = row[q]
      BY <2>1, <2>2 DEF KnownOrInDoubt
    <2>3. CASE row'[q] # row[q]
      <3>1. q = k /\ row'[q] = Settled(row[q])
        BY <2>1, <2>3
      <3>2. ~worker.got.fallback
        BY <2>1, <3>1 DEF WorkerSends
      <3>3. /\ row[q].msg = 0 /\ (worker.got.kind = "ok" => worker.got.msg = 0)
            /\ worker.got.kind = "unknown" => row'[q].status \in Doubt
        BY <1>0, <3>1, <3>2, SettledRow, LengthOfChat
      <3>4. worker.got.kind # "ok"
        BY <2>1, <3>1, <3>3 DEF WorkerShows
      <3>5. worker.got.kind = "unknown"
        BY <2>1, <3>1, <3>3, <3>4 DEF WorkerSends
      <3>. QED
        BY <3>3, <3>5
    <2>. QED
      BY <2>2, <2>3
  <1>4. ASSUME NEW k \in Keys, Purge(k)
        PROVE  row'[q].status \in Doubt
    <2>1. /\ chat'[k] = <<>>
          /\ \A p \in Keys \ {k} : /\ row'[p] = row[p] /\ chat'[p] = chat[p]
                                   /\ refused'[p] = refused[p]
      BY <1>4, PurgeStep
    <2>. QED
      BY <2>1 DEF KnownOrInDoubt
  <1>. QED
    BY <1>1, <1>2, <1>3, <1>4 DEF Step

LEMMA OneStep ==
  ASSUME Shape, OneMessage, WorkerSends, Step
  PROVE  OneMessage'
  <1>. SUFFICES ASSUME NEW q \in Keys, ~refused'[q]
                PROVE  Len(chat'[q]) <= 1
    BY DEF OneMessage
  <1>1. CASE Quiet \/ Claim \/ Settle \/ UNCHANGED vars
    <2>1. chat' = chat /\ refused' = refused
      BY <1>1, QuietRest DEF Claim, Settle
    <2>. QED
      BY <2>1 DEF OneMessage
  <1>2. CASE Calls
    <2>1. /\ worker.pc = "claimed" /\ Showing /\ Single
          /\ \A p \in Keys \ {worker.key} : refused'[p] = refused[p]
          /\ worker.key \in Keys /\ worker.msg \in Nat
      BY <1>2, CallStep DEF Shape, TypeOK, Worker
    <2>2. CASE q # worker.key
      BY <2>1, <2>2 DEF Showing, OneMessage
    <2>3. CASE q = worker.key /\ worker.msg > 0
      BY <2>1, <2>3 DEF Single, OneMessage
    <2>4. CASE q = worker.key /\ worker.msg = 0
      <3>1. ~refused[q] /\ Sending
        BY <2>1, <2>4 DEF Single
      <3>2. Len(chat[q]) = 0
        BY <2>1, <2>4, <3>1, LengthOfChat DEF WorkerSends
      <3>. QED
        BY <2>4, <3>1, <3>2 DEF Sending
    <2>. QED
      BY <2>1, <2>2, <2>3, <2>4
  <1>3. ASSUME NEW k \in Keys, Purge(k)
        PROVE  Len(chat'[q]) <= 1
    <2>1. /\ chat'[k] = <<>>
          /\ \A p \in Keys \ {k} : chat'[p] = chat[p] /\ refused'[p] = refused[p]
      BY <1>3, PurgeStep
    <2>2. Len(<<>>) = 0
      OBVIOUS
    <2>. QED
      BY <2>1, <2>2 DEF OneMessage
  <1>. QED
    BY <1>1, <1>2, <1>3 DEF Step

LEMMA SendsStep ==
  ASSUME Shape, KnownOrInDoubt, WorkerSends, Step
  PROVE  WorkerSends'
  <1>. SUFFICES ASSUME worker'.pc # "idle", ~refused'[worker'.key]
                PROVE  LET k == worker'.key IN
                       /\ worker'.msg > 0 => row'[k].msg > 0
                       /\ worker'.pc = "claimed" /\ worker'.msg = 0 =>
                            chat'[k] = <<>> /\ row'[k].status \in Doubt
                       /\ worker'.pc = "called" /\ row'[k].msg = 0
                            /\ worker'.got.kind \notin {"ok", "unknown"} => chat'[k] = <<>>
                       /\ worker'.pc = "called" => ~worker'.got.fallback
    BY DEF WorkerSends
  <1>0. worker \in Worker /\ worker.key \in Keys /\ worker.msg \in Nat
    BY DEF Shape, TypeOK, Worker
  <1>1. CASE Quiet \/ UNCHANGED vars
    <2>1. chat' = chat /\ refused' = refused /\ worker' = worker
      BY <1>1, QuietRest, IdleWorker
    <2>. DEFINE k == worker.key
    <2>2. Steady(k)
      BY <1>0, <1>1, QuietSteady
    <2>3. row'[k] \in Row /\ row'[k].msg \in Nat /\ row[k].msg \in Nat
      BY <1>0, <2>2, LengthOfChat DEF Steady, Kept, Row
    <2>4. row'[k].msg = 0 => row[k].msg = 0
      BY <2>2 DEF Steady
    <2>5. worker.pc = "claimed" /\ worker.msg = 0 =>
            chat[k] = <<>> /\ row'[k].status \in Doubt
      <3>. SUFFICES ASSUME worker.pc = "claimed", worker.msg = 0
                    PROVE  chat[k] = <<>> /\ row'[k].status \in Doubt
        OBVIOUS
      <3>1. chat[k] = <<>> /\ row[k].status \in Doubt
        BY <2>1 DEF WorkerSends
      <3>2. row[k].msg = 0 /\ Len(chat[k]) = 0
        BY <1>0, <3>1, LengthOfChat
      <3>3. row'[k].msg = 0
        BY <2>2, <2>3, <3>2 DEF Steady, Kept
      <3>. QED
        BY <2>1, <2>2, <3>1, <3>3 DEF Steady
    <2>. QED
      BY <1>0, <2>1, <2>3, <2>4, <2>5 DEF WorkerSends
  <1>2. CASE Claim
    <2>1. chat' = chat /\ refused' = refused
      BY <1>2 DEF Claim
    <2>2. worker.pc = "idle"
      BY <1>2 DEF Claim
    <2>3. PICK k \in Keys :
            /\ Claimable([q \in Keys |-> Quarantined(row[q])], k)
            /\ Quarantined(row[k]) = row[k]
            /\ row'[k] = [row[k] EXCEPT !.status = "sending", !.gen = @ + 1, !.stale = FALSE]
            /\ worker' = [pc |-> "claimed", key |-> k, facts |-> row[k].facts, rev |-> row[k].rev,
                          msg |-> row[k].msg, gen |-> row[k].gen + 1, got |-> NoResult]
      BY <1>2, <2>2, ClaimedRow
    <2>4. row[k] \in Row /\ row[k].msg \in Nat
      BY LengthOfChat
    <2>5. row'[k].status = "sending" /\ row'[k].msg = row[k].msg
      BY <2>3, <2>4, TakenRow
    <2>6. row[k].msg = 0 => row[k].status \in Queued
      BY <2>3, <2>4 DEF Claimable
    <2>7. row[k].msg = 0 => chat[k] = <<>>
      BY <2>1, <2>3, <2>6 DEF KnownOrInDoubt, Queued, Doubt
    <2>. QED
      BY <2>1, <2>3, <2>4, <2>5, <2>7 DEF Doubt
  <1>3. CASE Calls
    <2>. DEFINE k == worker.key
    <2>1. /\ worker.pc = "claimed" /\ Holds /\ Single /\ row' = row
      BY <1>3, CallStep
    <2>2. /\ ~refused[k] /\ ~worker'.got.fallback /\ worker'.key = k
          /\ worker'.pc = "called" /\ worker'.msg = worker.msg
      BY <2>1 DEF Single, Holds
    <2>3. row[k].msg = 0 => worker.msg = 0
      BY <1>0, <2>1, <2>2 DEF WorkerSends
    <2>4. worker.msg = 0 => chat[k] = <<>> /\ Sending
      BY <2>1, <2>2 DEF WorkerSends, Single
    <2>5. worker.msg > 0 => row[k].msg > 0
      BY <2>1, <2>2 DEF WorkerSends
    <2>. QED
      BY <2>1, <2>2, <2>3, <2>4, <2>5 DEF Sending
  <1>4. CASE Settle
    BY <1>4, SettleStep, IdleWorker
  <1>5. CASE \E k \in Keys : Purge(k)
    BY <1>5, PurgeStep
  <1>. QED
    BY <1>1, <1>2, <1>3, <1>4, <1>5 DEF Step

-----------------------------------------------------------------------------
(* What is shown.                                                          *)

LEMMA ShowsStep ==
  ASSUME Shape, WorkerShows, Step
  PROVE  WorkerShows'
  <1>. SUFFICES ASSUME worker'.pc # "idle"
                PROVE  LET k == worker'.key IN
                       /\ row'[k].status \notin {"absent", "sent"}
                       /\ worker'.rev <= row'[k].rev
                       /\ worker'.rev = row'[k].rev => worker'.facts = row'[k].facts
                       /\ worker'.pc = "called" /\ worker'.got.kind = "ok" =>
                            /\ worker'.got.msg > 0
                            /\ chat'[k][worker'.got.msg] = worker'.facts
    BY DEF WorkerShows
  <1>0. worker \in Worker /\ worker.key \in Keys /\ worker.rev \in Nat
    BY DEF Shape, TypeOK, Worker
  <1>1. CASE Quiet \/ UNCHANGED vars
    <2>. DEFINE k == worker.key
    <2>1. chat' = chat /\ worker' = worker
      BY <1>1, QuietRest, IdleWorker
    <2>2. Steady(k) /\ row'[k] \in Row
      BY <1>0, <1>1, QuietSteady
    <2>3. row'[k].rev \in Nat /\ row[k].rev \in Nat
      BY <1>0, <2>2, LengthOfChat DEF Row
    <2>4. row[k].status \notin {"absent", "sent"}
      BY <2>1 DEF WorkerShows
    <2>5. row'[k].status \notin {"absent", "sent"}
      BY <2>2, <2>4 DEF Steady, Kept
    <2>6. /\ row'[k].rev >= row[k].rev
          /\ row'[k].rev = row[k].rev => row'[k].facts = row[k].facts
      BY <2>2 DEF Steady, Kept
    <2>7. /\ worker.rev <= row[k].rev
          /\ worker.rev = row[k].rev => worker.facts = row[k].facts
          /\ worker.pc = "called" /\ worker.got.kind = "ok" =>
               worker.got.msg > 0 /\ chat[k][worker.got.msg] = worker.facts
      BY <2>1 DEF WorkerShows
    <2>8. /\ worker.rev <= row'[k].rev
          /\ worker.rev = row'[k].rev => worker.facts = row'[k].facts
      BY <1>0, <2>3, <2>6, <2>7
    <2>. QED
      BY <2>1, <2>5, <2>7, <2>8
  <1>2. CASE Claim
    <2>2. worker.pc = "idle"
      BY <1>2 DEF Claim
    <2>3. PICK k \in Keys :
            /\ row'[k] = [row[k] EXCEPT !.status = "sending", !.gen = @ + 1, !.stale = FALSE]
            /\ worker' = [pc |-> "claimed", key |-> k, facts |-> row[k].facts, rev |-> row[k].rev,
                          msg |-> row[k].msg, gen |-> row[k].gen + 1, got |-> NoResult]
      BY <1>2, <2>2, ClaimedRow
    <2>4. row[k] \in Row /\ row[k].rev \in Nat
      BY LengthOfChat
    <2>5. /\ row'[k].status = "sending" /\ row'[k].rev = row[k].rev
          /\ row'[k].facts = row[k].facts
      BY <2>3, <2>4, TakenRow
    <2>6. /\ worker'.key = k /\ worker'.rev = row[k].rev /\ worker'.facts = row[k].facts
          /\ worker'.pc = "claimed"
      BY <2>3
    <2>. HIDE <2>3
    <2>. QED
      BY <2>4, <2>5, <2>6
  <1>3. CASE Calls
    BY <1>3, CallStep DEF Holds, Showing, WorkerShows
  <1>4. CASE Settle
    BY <1>4, SettleStep, IdleWorker
  <1>5. CASE \E k \in Keys : Purge(k)
    BY <1>5, PurgeStep
  <1>. QED
    BY <1>1, <1>2, <1>3, <1>4, <1>5 DEF Step

LEMMA SentStep ==
  ASSUME Shape, WorkerShows, SentIsShown, Step
  PROVE  SentIsShown'
  <1>. SUFFICES ASSUME NEW q \in Keys, row'[q].status = "sent"
                PROVE  row'[q].msg \in 1 .. Len(chat'[q]) /\ chat'[q][row'[q].msg] = row'[q].facts
    BY DEF SentIsShown
  <1>0. /\ worker \in Worker /\ worker.key \in Keys /\ worker.got.msg \in Nat
        /\ Len(chat[q]) \in Nat /\ row[q].msg \in Nat
    BY LengthOfChat DEF Shape, TypeOK, Worker, Result
  <1>1. CASE Quiet \/ Claim \/ UNCHANGED vars
    <2>1. chat' = chat
      BY <1>1, QuietRest DEF Claim
    <2>2. Steady(q)
      BY <1>1, QuietSteady
    <2>3. /\ row[q].status = "sent" /\ row'[q].facts = row[q].facts
          /\ row[q].msg # 0 => row'[q].msg = row[q].msg
      BY <2>2 DEF Steady
    <2>4. row[q].msg \in 1 .. Len(chat[q]) /\ chat[q][row[q].msg] = row[q].facts
      BY <2>3 DEF SentIsShown
    <2>5. row[q].msg # 0
      BY <2>4
    <2>. QED
      BY <2>1, <2>3, <2>4, <2>5
  <1>2. CASE Calls
    <2>1. worker.pc = "claimed" /\ Showing /\ row' = row
      BY <1>2, CallStep
    <2>2. q # worker.key
      BY <2>1 DEF WorkerShows
    <2>. QED
      BY <2>1, <2>2 DEF Showing, SentIsShown
  <1>3. CASE Settle
    <2>. DEFINE k == worker.key
    <2>1. /\ worker.pc = "called" /\ chat' = chat
          /\ \A p \in Keys \ {k} : row'[p] = row[p]
          /\ row'[k] = row[k] \/ row'[k] = Settled(row[k])
      BY <1>3, SettleStep
    <2>2. CASE row'[q] = row[q]
      BY <2>1, <2>2 DEF SentIsShown
    <2>3. CASE row'[q] # row[q]
      <3>1. q = k /\ row'[q] = Settled(row[q]) /\ row[q] \in Row
        BY <2>1, <2>3, LengthOfChat
      <3>2. /\ worker.got.kind = "ok" /\ row[q].rev = worker.rev /\ row'[q].facts = row[q].facts
            /\ worker.got.msg # 0 => row'[q].msg = worker.got.msg
        BY <1>0, <3>1, SettledRow
      <3>3. /\ worker.got.msg > 0 /\ chat[q][worker.got.msg] = worker.facts
            /\ worker.facts = row[q].facts
        BY <2>1, <3>1, <3>2 DEF WorkerShows
      <3>4. worker.got.msg <= Len(chat[q])
        BY <3>1 DEF Shape, WorkerNames
      <3>5. worker.got.msg # 0 /\ worker.got.msg \in 1 .. Len(chat[q])
        BY <1>0, <3>3, <3>4
      <3>. QED
        BY <2>1, <3>2, <3>3, <3>5
    <2>. QED
      BY <2>2, <2>3
  <1>4. ASSUME NEW k \in Keys, Purge(k)
        PROVE  row'[q].msg \in 1 .. Len(chat'[q]) /\ chat'[q][row'[q].msg] = row'[q].facts
    <2>1. /\ row'[k] = Absent
          /\ \A p \in Keys \ {k} : row'[p] = row[p] /\ chat'[p] = chat[p]
      BY <1>4, PurgeStep
    <2>2. q # k
      BY <2>1 DEF Absent
    <2>. QED
      BY <2>1, <2>2 DEF SentIsShown
  <1>. QED
    BY <1>1, <1>2, <1>3, <1>4 DEF Step

LEMMA OrderStep ==
  ASSUME Shape, SentIsShown, InOrder, Step
  PROVE  InOrder'
  <1>. SUFFICES ASSUME worker'.pc # "idle", NEW p \in Earlier(worker'.key)
                PROVE  chat'[p] # <<>>
    BY DEF InOrder
  <1>0. worker \in Worker /\ worker.key \in Keys
    BY DEF Shape, TypeOK, Worker
  <1>1. ASSUME NEW k, NEW q \in Earlier(k)
        PROVE  q \in Keys
    BY <1>1 DEF Earlier, Keys, PartSet
  <1>2. CASE Quiet \/ UNCHANGED vars
    <2>1. chat' = chat /\ worker' = worker
      BY <1>2, QuietRest, IdleWorker
    <2>. QED
      BY <2>1 DEF InOrder
  <1>3. CASE Claim
    <2>1. worker.pc = "idle" /\ chat' = chat
      BY <1>3 DEF Claim
    <2>2. PICK k \in Keys :
            /\ Claimable([q \in Keys |-> Quarantined(row[q])], k)
            /\ worker' = [pc |-> "claimed", key |-> k, facts |-> row[k].facts, rev |-> row[k].rev,
                          msg |-> row[k].msg, gen |-> row[k].gen + 1, got |-> NoResult]
      BY <1>3, <2>1, ClaimedRow
    <2>3. p \in Earlier(k) /\ p \in Keys
      BY <1>1, <2>2
    <2>4. Quarantined(row[p]).status = "sent"
      BY <2>2, <2>3 DEF Claimable, InTurn
    <2>5. row[p].status = "sent"
      BY <2>3, <2>4, LengthOfChat, QuarantinedRow
    <2>6. row[p].msg \in 1 .. Len(chat[p])
      BY <2>3, <2>5 DEF SentIsShown
    <2>7. Len(chat[p]) # 0
      BY <2>3, <2>6, LengthOfChat
    <2>. QED
      BY <2>1, <2>3, <2>7, LengthOfChat
  <1>4. CASE Calls
    <2>1. worker.pc = "claimed" /\ Holds /\ Showing
      BY <1>4, CallStep
    <2>2. p \in Earlier(worker.key) /\ p \in Keys
      BY <1>1, <2>1 DEF Holds
    <2>3. chat[p] # <<>>
      BY <2>1, <2>2 DEF InOrder
    <2>4. CASE p # worker.key
      BY <2>1, <2>2, <2>3, <2>4 DEF Showing
    <2>5. CASE p = worker.key
      <3>1. Len(chat[p]) # 0 /\ Len(chat[p]) \in Nat
        BY <2>2, <2>3, LengthOfChat
      <3>2. Len(chat'[p]) >= Len(chat[p])
        BY <2>1, <2>5 DEF Showing
      <3>3. Len(<<>>) = 0
        OBVIOUS
      <3>. QED
        BY <3>1, <3>2, <3>3
    <2>. QED
      BY <2>4, <2>5
  <1>5. CASE Settle
    BY <1>5, SettleStep, IdleWorker
  <1>6. CASE \E k \in Keys : Purge(k)
    BY <1>6, PurgeStep
  <1>. QED
    BY <1>2, <1>3, <1>4, <1>5, <1>6 DEF Step

-----------------------------------------------------------------------------
(* What the writers read.                                                  *)

LEMMA SnapsStep ==
  ASSUME Shape, SnapsTrue, Step
  PROVE  SnapsTrue'
  <1>. SUFFICES ASSUME NEW w \in Writers, snap'[w] # <<>>
                PROVE  /\ snap'[w].rev <= row'[snap'[w].on].rev
                       /\ snap'[w].rev = row'[snap'[w].on].rev =>
                            snap'[w].facts = row'[snap'[w].on].facts
    BY DEF SnapsTrue
  <1>1. ASSUME snap'[w] = snap[w],
               \A q \in Keys : /\ row'[q].rev \in Nat /\ row'[q].rev >= row[q].rev
                               /\ row'[q].rev = row[q].rev => row'[q].facts = row[q].facts
        PROVE  /\ snap'[w].rev <= row'[snap'[w].on].rev
               /\ snap'[w].rev = row'[snap'[w].on].rev =>
                    snap'[w].facts = row'[snap'[w].on].facts
    <2>1. snap[w] \in Snapshot /\ snap[w] # <<>>
      BY <1>1 DEF Shape, TypeOK
    <2>2. snap[w].on \in Keys /\ snap[w].rev \in Nat
      BY <2>1 DEF Snapshot, Keys
    <2>3. /\ snap[w].rev <= row[snap[w].on].rev
          /\ snap[w].rev = row[snap[w].on].rev => snap[w].facts = row[snap[w].on].facts
      BY <2>1 DEF SnapsTrue
    <2>4. row[snap[w].on].rev \in Nat
      BY <2>2, LengthOfChat
    <2>. QED
      BY <1>1, <2>2, <2>3, <2>4
  <1>2. ASSUME Quiet \/ Claim \/ UNCHANGED vars
        PROVE  \A q \in Keys : /\ row'[q].rev \in Nat /\ row'[q].rev >= row[q].rev
                               /\ row'[q].rev = row[q].rev => row'[q].facts = row[q].facts
    <2>1. row' \in [Keys -> Row] /\ \A q \in Keys : Steady(q)
      BY <1>2, QuietSteady
    <2>. QED
      BY <2>1 DEF Steady, Kept, Row
  <1>3. CASE Quiet \/ UNCHANGED vars
    <2>1. CASE snap'[w] = snap[w]
      BY <1>1, <1>2, <1>3, <2>1
    <2>2. ASSUME NEW k \in Threads, row' = row,
                 snap'[w] = [on |-> k, rev |-> row[k].rev, facts |-> row[k].facts]
          PROVE  /\ snap'[w].rev <= row'[snap'[w].on].rev
                 /\ snap'[w].rev = row'[snap'[w].on].rev =>
                      snap'[w].facts = row'[snap'[w].on].facts
      <3>1. row[k].rev \in Nat
        BY LengthOfChat DEF Keys
      <3>. QED
        BY <2>2, <3>1
    <2>. QED
      BY <1>3, <2>1, <2>2, QuietRest
  <1>4. CASE Claim
    BY <1>1, <1>2, <1>4 DEF Claim
  <1>5. CASE Calls
    <2>1. row' = row /\ snap' = snap
      BY <1>5, CallStep
    <2>2. \A q \in Keys : row[q].rev \in Nat
      BY LengthOfChat
    <2>. QED
      BY <1>1, <2>1, <2>2
  <1>6. CASE Settle
    <2>1. /\ \A q \in Keys : row'[q].rev = row[q].rev /\ row'[q].facts = row[q].facts
          /\ snap' = snap
      BY <1>6, SettleStep
    <2>2. \A q \in Keys : row[q].rev \in Nat
      BY LengthOfChat
    <2>. QED
      BY <1>1, <2>1, <2>2
  <1>7. ASSUME NEW k \in Keys, Purge(k)
        PROVE  /\ snap'[w].rev <= row'[snap'[w].on].rev
               /\ snap'[w].rev = row'[snap'[w].on].rev =>
                    snap'[w].facts = row'[snap'[w].on].facts
    <2>1. /\ snap' = snap /\ \A q \in Keys \ {k} : row'[q] = row[q]
          /\ snap[w] # <<>> => snap[w].on # k
      BY <1>7, PurgeStep
    <2>2. snap[w] \in Snapshot /\ snap[w] # <<>>
      BY <2>1 DEF Shape, TypeOK
    <2>3. snap[w].on \in Keys \ {k}
      BY <2>1, <2>2 DEF Snapshot, Keys
    <2>. QED
      BY <2>1, <2>2, <2>3 DEF SnapsTrue
  <1>. QED
    BY <1>3, <1>4, <1>5, <1>6, <1>7 DEF Step

-----------------------------------------------------------------------------
(* The inductive invariant.                                                *)

LEMMA InvInit ==
  ASSUME Init
  PROVE  IInv
  <1>. USE OutboxAssumption DEF Init
  <1>1. /\ \A k \in Keys : row[k] = Absent /\ chat[k] = <<>>
        /\ worker = Idle /\ \A w \in Writers : snap[w] = <<>>
    OBVIOUS
  <1>2. /\ Absent.status = "absent" /\ Absent.msg = 0
        /\ Len(<<>>) = 0 /\ <<>> \in Seq(SUBSET Facts) /\ <<>> \in Snapshot
    BY DEF Absent, Snapshot
  <1>3. TypeOK
    BY <1>1, <1>2, AbsentRow, IdleWorker DEF TypeOK
  <1>4. Shape
    BY <1>1, <1>2, <1>3, IdleWorker DEF Shape, AbsentIsEmpty, WorkerNames
  <1>5. KnownOrInDoubt /\ OneMessage /\ SentIsShown /\ SnapsTrue
    BY <1>1, <1>2 DEF KnownOrInDoubt, OneMessage, SentIsShown, SnapsTrue
  <1>6. WorkerSends /\ WorkerShows /\ InOrder
    BY <1>1, IdleWorker DEF WorkerSends, WorkerShows, InOrder
  <1>. QED
    BY <1>4, <1>5, <1>6 DEF IInv

LEMMA NextIsStep ==
  ASSUME [Next]_vars
  PROVE  Step
  <1>1. CASE UNCHANGED vars
    BY <1>1 DEF Step
  <1>2. CASE \E k \in Keys : LeaseEnds(k) \/ RetryDue(k) \/ Purge(k)
    BY <1>2 DEF Step, Quiet
  <1>3. CASE Dispatch
    BY <1>3 DEF Dispatch, Step, Quiet, Calls
  <1>. QED
    BY <1>1, <1>2, <1>3 DEF Next, Step, Quiet

LEMMA InvNext ==
  ASSUME IInv, [Next]_vars
  PROVE  IInv'
  <1>1. Step
    BY NextIsStep
  <1>2. Shape'
    BY <1>1, ShapeStep DEF IInv, Step
  <1>3. KnownOrInDoubt' /\ OneMessage' /\ WorkerSends'
    BY <1>1, KnownStep, OneStep, SendsStep DEF IInv
  <1>4. WorkerShows' /\ SentIsShown' /\ InOrder' /\ SnapsTrue'
    BY <1>1, ShowsStep, SentStep, OrderStep, SnapsStep DEF IInv
  <1>. QED
    BY <1>2, <1>3, <1>4 DEF IInv

LEMMA Invariance == Spec => []IInv
  <1>1. Init => IInv
    BY InvInit
  <1>2. IInv /\ [Next]_vars => IInv'
    BY InvNext
  <1>. QED
    BY <1>1, <1>2, PTL DEF Spec

-----------------------------------------------------------------------------
(* The results.                                                            *)

\* Every row, message, lease and snapshot has its shape, and a row names only
\* messages that were sent (telegram_notification_outbox).
THEOREM TypeCorrect == Spec => []TypeOK
  <1>1. IInv => TypeOK
    BY DEF IInv, Shape
  <1>. QED
    BY <1>1, Invariance, PTL

\* As long as Telegram never refuses an edit, a row is one message, whatever is
\* lost, repeated, restarted or recovered (claim_due_notifications, _recover_deliveries).
THEOREM OneMessageAlways == Spec => []OneMessage
  <1>1. IInv => OneMessage
    BY DEF IInv
  <1>. QED
    BY <1>1, Invariance, PTL

\* A row is recorded as sent only when its newest content is what its message shows
\* (complete_notification).
THEOREM SentAlwaysShown == Spec => []SentIsShown
  <1>1. IInv => SentIsShown
    BY DEF IInv
  <1>. QED
    BY <1>1, Invariance, PTL

\* A part of an answer is claimed only when the parts before it arrived
\* (claim_due_notifications).
THEOREM PartsInOrder == Spec => []InOrder
  <1>1. IInv => InOrder
    BY DEF IInv
  <1>. QED
    BY <1>1, Invariance, PTL

\* A step adds facts to a thread or leaves them, unless the row is purged.
LEMMA FactsKeptStep ==
  ASSUME IInv, [Next]_vars
  PROVE  \A k \in Threads : row'[k].status # "absent" => row[k].facts \subseteq row'[k].facts
  <1>. SUFFICES ASSUME NEW k \in Threads, row'[k].status # "absent"
                PROVE  row[k].facts \subseteq row'[k].facts
    OBVIOUS
  <1>0. Shape /\ SnapsTrue /\ Step /\ k \in Keys /\ row[k] \in Row
    BY NextIsStep, LengthOfChat DEF IInv, Keys
  <1>1. ASSUME NEW w \in Writers, PublishThread(w)
        PROVE  row[k].facts \subseteq row'[k].facts
    <2>1. ASSUME NEW q \in Threads, NEW p \in Nat, snap[w] # <<>>, q = snap[w].on,
                 row[q].rev = snap[w].rev,
                 row' = [row EXCEPT ![q] = Upserted(row[q], snap[w].facts \cup {w}, p)],
                 snap[w].facts \cup {w} \in SUBSET Facts
          PROVE  row[k].facts \subseteq row'[k].facts
      <3>1. /\ row[q].facts = snap[w].facts /\ row[q] \in Row
            /\ row[q].status = "absent" => row[q] = Absent
            /\ row \in [Keys -> Row] /\ q \in Keys
        BY <1>0, <2>1, LengthOfChat DEF SnapsTrue, Keys, Shape, AbsentIsEmpty, TypeOK
      <3>2. Upserted(row[q], snap[w].facts \cup {w}, p).facts = snap[w].facts \cup {w}
        BY <2>1, <3>1, UpsertedRow
      <3>3. CASE k = q
        <4>1. row'[k].facts = snap[w].facts \cup {w}
          BY <2>1, <3>1, <3>2, <3>3
        <4>. QED
          BY <3>1, <3>3, <4>1
      <3>4. CASE k # q
        BY <1>0, <2>1, <3>1, <3>4
      <3>. QED
        BY <3>3, <3>4
    <2>. QED
      BY <1>0, <1>1, <2>1, PublishedRow
  <1>2. ASSUME NEW q \in Events \cup PartSet, PublishOnce(q)
        PROVE  row[k].facts \subseteq row'[k].facts
    <2>1. k # q /\ row \in [Keys -> Row]
      BY <1>0, OutboxAssumption DEF Shape, TypeOK
    <2>. QED
      BY <1>0, <1>2, <2>1 DEF PublishOnce
  <1>3. ASSUME NEW q \in Threads, Invalidate(q)
        PROVE  row'[k].facts = row[k].facts
    <2>1. row \in [Keys -> Row]
      BY <1>0 DEF Shape, TypeOK
    <2>2. row' = [row EXCEPT ![q] = [row[q] EXCEPT !.status = "suppressed"]]
      BY <1>3 DEF Invalidate
    <2>3. CASE k = q
      <3>1. row'[k] = [row[k] EXCEPT !.status = "suppressed"]
        BY <1>0, <2>1, <2>2, <2>3
      <3>. QED
        BY <1>0, <3>1 DEF Row
    <2>4. CASE k # q
      BY <1>0, <2>1, <2>2, <2>4
    <2>. QED
      BY <2>3, <2>4
  <1>4. CASE Suppress
    BY <1>0, <1>4, SuppressedRow
  <1>5. CASE Restart \/ Recover
    BY <1>0, <1>5, RecoveredRow DEF Restart, Recover
  <1>6. ASSUME NEW q \in Keys, LeaseEnds(q) \/ RetryDue(q)
        PROVE  row'[k].facts = row[k].facts
    <2>1. row \in [Keys -> Row]
      BY <1>0 DEF Shape, TypeOK
    <2>2. \/ row' = [row EXCEPT ![q] = [row[q] EXCEPT !.stale = TRUE]]
          \/ row' = [row EXCEPT ![q] = [row[q] EXCEPT !.due = TRUE]]
      BY <1>6 DEF LeaseEnds, RetryDue
    <2>3. CASE k = q
      <3>1. \/ row'[k] = [row[k] EXCEPT !.stale = TRUE]
            \/ row'[k] = [row[k] EXCEPT !.due = TRUE]
        BY <1>0, <2>1, <2>2, <2>3
      <3>. QED
        BY <1>0, <3>1 DEF Row
    <2>4. CASE k # q
      BY <1>0, <2>1, <2>2, <2>4
    <2>. QED
      BY <2>3, <2>4
  <1>7. CASE Claim
    <2>1. CASE row'[k] = Quarantined(row[k])
      BY <1>0, <2>1, QuarantinedRow
    <2>2. CASE row'[k] = [row[k] EXCEPT !.status = "sending", !.gen = @ + 1, !.stale = FALSE]
      BY <1>0, <2>2, TakenRow
    <2>3. \/ row'[k] = Quarantined(row[k])
          \/ row'[k] = [row[k] EXCEPT !.status = "sending", !.gen = @ + 1, !.stale = FALSE]
      <3>1. CASE row' = [q \in Keys |-> Quarantined(row[q])]
        BY <1>0, <3>1
      <3>2. ASSUME NEW q \in Keys,
                   row'[q] = [row[q] EXCEPT !.status = "sending", !.gen = @ + 1, !.stale = FALSE],
                   \A p \in Keys \ {q} : row'[p] = Quarantined(row[p])
            PROVE  \/ row'[k] = Quarantined(row[k])
                   \/ row'[k] = [row[k] EXCEPT !.status = "sending", !.gen = @ + 1, !.stale = FALSE]
        BY <1>0, <3>2, Zenon
      <3>. QED
        BY <1>0, <1>7, <3>1, <3>2, ClaimedRow
    <2>. QED
      BY <2>1, <2>2, <2>3
  <1>8. CASE Settle
    BY <1>0, <1>8, SettleStep
  <1>9. ASSUME NEW q \in Keys, Purge(q)
        PROVE  row[k].facts \subseteq row'[k].facts
    <2>1. row'[q] = Absent /\ \A p \in Keys \ {q} : row'[p] = row[p]
      BY <1>0, <1>9, PurgeStep
    <2>2. Absent.status = "absent"
      BY DEF Absent
    <2>. QED
      BY <1>0, <2>1, <2>2
  <1>10. ASSUME row' = row
         PROVE  row[k].facts \subseteq row'[k].facts
    BY <1>10
  <1>11. Calls => row' = row
    BY <1>0, CallStep
  <1>12. SettleFails \/ UNCHANGED vars => row' = row
    BY DEF SettleFails, vars
  <1>13. (\E w \in Writers : ReadThread(w)) => row' = row
    BY <1>0, ReadSteady
  <1>14. Step
    BY <1>0
  <1>. QED
    BY ONLY <1>1, <1>2, <1>3, <1>4, <1>5, <1>6, <1>7, <1>8, <1>9, <1>10, <1>11, <1>12, <1>13, <1>14
       DEF Step, Quiet

\* No writer's fact is lost to another writer's older view of the thread
\* (publish_notification_thread, expected_revision).
THEOREM FactsAlwaysKept == Spec => FactsKept
  <1>1. IInv /\ [Next]_vars =>
          [\A k \in Threads : row'[k].status # "absent" => row[k].facts \subseteq row'[k].facts]_vars
    BY FactsKeptStep
  <1>. QED
    BY <1>1, Invariance, PTL DEF Spec, FactsKept

-----------------------------------------------------------------------------
(* One-shot rows: events whose text is one message, and the parts of an    *)
(* answer.  Their message is never edited: a row that knows its message    *)
(* has been sent, and nothing claims it again.                             *)

OneShots == (Events \cup PartSet) \ Long

OnceInv ==
    \A k \in OneShots :
        /\ ~refused[k]
        /\ row[k].msg > 0 => row[k].status = "sent"
        /\ worker.pc # "idle" /\ worker.key = k =>
             /\ worker.msg = 0 /\ worker.rev = row[k].rev
             /\ worker.pc = "called" /\ worker.got.msg > 0 => worker.got.kind = "ok"

ShownAtMostOnce == \A k \in OneShots : Len(chat[k]) <= 1

\* A one-shot row learns of no message but by its own delivery.
Unadopted(q) ==
    /\ row'[q].msg \in {0, row[q].msg}
    /\ row[q].status = "sent" => row'[q].status = "sent"
    /\ row[q].status # "absent" => row'[q].rev = row[q].rev

LEMMA OneShotIsKey ==
  ASSUME NEW q \in OneShots
  PROVE  q \in Keys /\ q \notin Threads /\ q \notin Long /\ q \in Events \cup PartSet
  BY OutboxAssumption DEF OneShots, Keys

\* What a claim does to a row.
LEMMA ClaimedOnce ==
  ASSUME Shape, Claim, NEW q \in OneShots
  PROVE  Unadopted(q)
  <1>1. q \in Keys /\ row[q] \in Row
    BY OneShotIsKey DEF Shape, TypeOK
  <1>2. row'[q] = Quarantined(row[q]) => Unadopted(q)
    BY <1>1, QuarantinedRow DEF Unadopted
  <1>3. CASE row' = [k \in Keys |-> Quarantined(row[k])]
    BY <1>1, <1>2, <1>3
  <1>4. ASSUME NEW k \in Keys,
               Claimable([p \in Keys |-> Quarantined(row[p])], k), Quarantined(row[k]) = row[k],
               row'[k] = [row[k] EXCEPT !.status = "sending", !.gen = @ + 1, !.stale = FALSE],
               \A p \in Keys \ {k} : row'[p] = Quarantined(row[p])
        PROVE  Unadopted(q)
    <2>1. CASE q # k
      BY <1>1, <1>2, <1>4, <2>1
    <2>2. CASE q = k
      <3>1. row[q].status # "sent"
        BY <1>4, <2>2 DEF Claimable, Queued
      <3>2. row'[q].msg = row[q].msg /\ row'[q].rev = row[q].rev
        BY <1>1, <1>4, <2>2, TakenRow
      <3>. QED
        BY <3>1, <3>2 DEF Unadopted
    <2>. QED
      BY <2>1, <2>2
  <1>. QED
    BY <1>3, <1>4, ClaimedRow

LEMMA QuietOnce ==
  ASSUME Shape, Quiet \/ Claim \/ UNCHANGED vars, NEW q \in OneShots
  PROVE  Unadopted(q)
  <1>1. q \in Keys /\ q \notin Threads /\ row[q] \in Row /\ row \in [Keys -> Row]
    BY OneShotIsKey DEF Shape, TypeOK
  <1>2. row'[q] = row[q] => Unadopted(q)
    BY DEF Unadopted
  <1>3. ASSUME NEW w \in Writers, PublishThread(w) PROVE row'[q] = row[q]
    <2>1. CASE row' = row
      BY <2>1
    <2>2. ASSUME NEW k \in Threads, NEW new, row' = [row EXCEPT ![k] = new]
          PROVE  row'[q] = row[q]
      BY <1>1, <2>2
    <2>. QED
      BY <1>3, <2>1, <2>2, PublishedRow
  <1>4. ASSUME NEW k \in Events \cup PartSet, PublishOnce(k) PROVE Unadopted(q)
    <2>1. row' = [row EXCEPT ![k] = Inserted({"body"}, 0)] /\ row[k].status = "absent"
      BY <1>4 DEF PublishOnce
    <2>2. Inserted({"body"}, 0).msg = 0
      BY DEF Inserted, Absent
    <2>3. CASE k # q
      BY <1>1, <1>2, <2>1, <2>3
    <2>4. CASE k = q
      BY <1>1, <2>1, <2>2, <2>4 DEF Unadopted
    <2>. QED
      BY <2>3, <2>4
  <1>5. ASSUME NEW k \in Threads, Invalidate(k) PROVE row'[q] = row[q]
    BY <1>1, <1>5 DEF Invalidate
  <1>6. CASE Suppress
    BY <1>1, <1>2, <1>6, SuppressedRow DEF Unadopted, Queued
  <1>7. CASE Restart \/ Recover
    <2>1. row'[q] = Recovered(row[q])
      BY <1>1, <1>7 DEF Restart, Recover
    <2>. QED
      BY <1>1, <2>1, RecoveredRow DEF Unadopted, Doubt
  <1>8. ASSUME NEW k \in Keys, LeaseEnds(k) \/ RetryDue(k) PROVE Unadopted(q)
    <2>1. \/ row' = [row EXCEPT ![k] = [row[k] EXCEPT !.stale = TRUE]]
          \/ row' = [row EXCEPT ![k] = [row[k] EXCEPT !.due = TRUE]]
      BY <1>8 DEF LeaseEnds, RetryDue
    <2>2. CASE k # q
      BY <1>1, <1>2, <2>1, <2>2
    <2>3. CASE k = q
      <3>1. \/ row'[q] = [row[q] EXCEPT !.stale = TRUE]
            \/ row'[q] = [row[q] EXCEPT !.due = TRUE]
        BY <1>1, <2>1, <2>3
      <3>. QED
        BY <1>1, <3>1 DEF Unadopted, Row
    <2>. QED
      BY <2>2, <2>3
  <1>9. ASSUME SettleFails \/ UNCHANGED vars \/ \E w \in Writers : ReadThread(w)
        PROVE  Unadopted(q)
    BY <1>2, <1>9 DEF SettleFails, ReadThread, vars
  <1>. QED
    BY ONLY Quiet \/ Claim \/ UNCHANGED vars, Shape, q \in OneShots,
       <1>2, <1>3, <1>4, <1>5, <1>6, <1>7, <1>8, <1>9, ClaimedOnce DEF Quiet

\* The answer to a first message that is not a long text.
LEMMA SentOnce ==
  ASSUME Shape, Calls, worker.key \notin Long, worker.msg = 0
  PROVE  refused' = refused /\ (worker'.got.msg > 0 => worker'.got.kind = "ok")
  <1>1. worker \in Worker /\ worker.key \in Keys /\ Len(chat'[worker.key]) \in Nat
    <2>1. worker.key \in Keys
      BY DEF Shape, TypeOK, Worker
    <2>2. chat' \in [Keys -> Seq(SUBSET Facts)]
      BY CallStep DEF Showing
    <2>. QED
      BY <2>1, <2>2 DEF Shape, TypeOK
  <1>2. ASSUME NEW kind \in {"rejected", "busy", "unknown"}, Answer(Got(kind, 0, FALSE))
        PROVE  worker'.got.msg = 0
    <2>1. /\ kind \in {"none", "ok", "rejected", "busy", "unknown"}
          /\ FALSE \in BOOLEAN /\ 0 \in Nat
      OBVIOUS
    <2>. QED
      BY <1>1, <1>2, <2>1, Answered
  <1>3. ASSUME NEW m \in Nat, Answer(Got("ok", m, FALSE)) PROVE worker'.got.kind = "ok"
    <2>1. "ok" \in {"none", "ok", "rejected", "busy", "unknown"} /\ FALSE \in BOOLEAN
      OBVIOUS
    <2>. QED
      BY <1>1, <1>3, <2>1, Answered
  <1>4. CASE Send
    <2>1. SendNew(worker.key, FALSE) /\ refused' = refused
      BY <1>4 DEF Send
    <2>2. \/ Answer(Got("ok", Len(chat'[worker.key]), FALSE))
          \/ \E kind \in {"rejected", "busy", "unknown"} : Answer(Got(kind, 0, FALSE))
      BY <2>1 DEF SendNew
    <2>3. CASE Answer(Got("ok", Len(chat'[worker.key]), FALSE))
      <3>1. PICK m \in Nat : m = Len(chat'[worker.key])
        BY <1>1
      <3>2. Answer(Got("ok", m, FALSE))
        BY <2>3, <3>1
      <3>. QED
        BY <1>3, <2>1, <3>2
    <2>4. CASE \E kind \in {"rejected", "busy", "unknown"} : Answer(Got(kind, 0, FALSE))
      <3>1. worker'.got.msg = 0
        BY <1>2, <2>4
      <3>. QED
        BY <2>1, <3>1
    <2>. QED
      BY <2>2, <2>3, <2>4
  <1>5. CASE Refrain
    <2>1. refused' = refused /\ \E kind \in {"rejected", "busy"} : Answer(Got(kind, 0, FALSE))
      BY <1>5 DEF Refrain
    <2>2. worker'.got.msg = 0
      BY <1>2, <2>1
    <2>. QED
      BY <2>1, <2>2
  <1>. QED
    BY <1>4, <1>5 DEF Calls, Edit, EditRefused

LEMMA OnceStep ==
  ASSUME IInv, OnceInv, [Next]_vars
  PROVE  OnceInv'
  <1>. SUFFICES ASSUME NEW q \in OneShots
                PROVE  /\ ~refused'[q]
                       /\ row'[q].msg > 0 => row'[q].status = "sent"
                       /\ worker'.pc # "idle" /\ worker'.key = q =>
                            /\ worker'.msg = 0 /\ worker'.rev = row'[q].rev
                            /\ worker'.pc = "called" /\ worker'.got.msg > 0 => worker'.got.kind = "ok"
    BY DEF OnceInv, OneShots, PartSet
  <1>0. /\ Shape /\ Step /\ q \in Keys /\ q \notin Long /\ row[q] \in Row /\ row[q].msg \in Nat
        /\ worker \in Worker /\ worker.key \in Keys /\ worker.got.msg \in Nat
    BY NextIsStep, OneShotIsKey DEF IInv, Shape, TypeOK, Row, Worker, Result
  <1>1. /\ ~refused[q] /\ (row[q].msg > 0 => row[q].status = "sent")
        /\ worker.pc # "idle" /\ worker.key = q =>
             /\ worker.msg = 0 /\ worker.rev = row[q].rev
             /\ row[q].status # "absent"
             /\ worker.pc = "called" /\ worker.got.msg > 0 => worker.got.kind = "ok"
    BY DEF OnceInv, IInv, WorkerShows
  <1>2. CASE Quiet \/ UNCHANGED vars
    <2>1. refused' = refused /\ (worker' = worker \/ worker' = Idle)
      BY <1>0, <1>2, QuietRest
    <2>2. Unadopted(q)
      BY <1>0, <1>2, QuietOnce
    <2>. QED
      BY <1>0, <1>1, <2>1, <2>2, IdleWorker DEF Unadopted
  <1>3. CASE Claim
    <2>1. refused' = refused
      BY <1>3 DEF Claim
    <2>2. Unadopted(q)
      BY <1>0, <1>3, ClaimedOnce
    <2>3. ASSUME worker' # worker, worker'.key = q
          PROVE  /\ worker'.msg = 0 /\ worker'.rev = row'[q].rev /\ worker'.pc = "claimed"
      <3>1. PICK k \in Keys :
              /\ Claimable([p \in Keys |-> Quarantined(row[p])], k)
              /\ Quarantined(row[k]) = row[k]
              /\ worker' = [pc |-> "claimed", key |-> k, facts |-> row[k].facts, rev |-> row[k].rev,
                            msg |-> row[k].msg, gen |-> row[k].gen + 1, got |-> NoResult]
        BY <1>0, <1>3, <2>3, ClaimedRow
      <3>2. k = q /\ worker'.msg = row[q].msg /\ worker'.rev = row[q].rev /\ worker'.pc = "claimed"
        BY <2>3, <3>1
      <3>3. row[q].status \in {"pending", "retry_wait", "sending"}
        BY <1>0, <3>1, <3>2 DEF Claimable, Queued
      <3>. QED
        BY <1>0, <1>1, <2>2, <3>2, <3>3 DEF Unadopted
    <2>. QED
      BY <1>0, <1>1, <2>1, <2>2, <2>3 DEF Unadopted
  <1>4. CASE Calls
    <2>1. /\ Holds /\ row' = row
          /\ \A p \in Keys \ {worker.key} : refused'[p] = refused[p]
          /\ worker.pc = "claimed"
      BY <1>0, <1>4, CallStep
    <2>2. CASE worker.key # q
      BY <1>0, <1>1, <2>1, <2>2 DEF Holds
    <2>3. CASE worker.key = q
      BY <1>0, <1>1, <1>4, <2>1, <2>3, SentOnce DEF Holds
    <2>. QED
      BY <2>2, <2>3
  <1>5. CASE Settle
    <2>. DEFINE k == worker.key
    <2>1. /\ worker.pc = "called" /\ worker'.pc = "idle" /\ refused' = refused
          /\ \A p \in Keys \ {k} : row'[p] = row[p]
          /\ row'[k] = row[k] \/ (row'[k] = Settled(row[k]) /\ row[k].status = "sending")
      BY <1>0, <1>5, SettleStep, IdleWorker
    <2>2. CASE row'[q] = row[q]
      BY <1>1, <2>1, <2>2
    <2>3. CASE row'[q] # row[q]
      <3>1. k = q /\ row'[q] = Settled(row[q]) /\ row[q].msg = 0
        BY <1>0, <1>1, <2>1, <2>3
      <3>2. ~Newer(row[q])
        BY <1>1, <2>1, <3>1 DEF Newer
      <3>3. CASE worker.got.kind = "ok"
        <4>1. row'[q] = Completed(row[q])
          BY <3>1, <3>3 DEF Settled
        <4>2. Completed(row[q]).status = "sent"
          BY <1>0, <3>2, CompletedRow
        <4>. QED
          BY <1>1, <2>1, <4>1, <4>2
      <3>4. CASE worker.got.kind # "ok"
        <4>1. worker.got.msg = 0
          BY <1>0, <1>1, <2>1, <3>1, <3>4
        <4>2. row'[q].msg = 0
          BY <1>0, <3>1, <4>1, SettledRow
        <4>. QED
          BY <1>1, <2>1, <4>2
      <3>. QED
        BY <1>1, <2>1, <3>3, <3>4
    <2>. QED
      BY <2>2, <2>3
  <1>6. ASSUME NEW k \in Keys, Purge(k)
        PROVE  /\ ~refused'[q]
               /\ row'[q].msg > 0 => row'[q].status = "sent"
               /\ worker'.pc = "idle"
    <2>1. /\ worker'.pc = "idle" /\ row'[k] = Absent /\ ~refused'[k]
          /\ \A p \in Keys \ {k} : row'[p] = row[p] /\ refused'[p] = refused[p]
      BY <1>0, <1>6, PurgeStep
    <2>2. Absent.msg = 0
      BY DEF Absent
    <2>. QED
      BY <1>0, <1>1, <2>1, <2>2
  <1>. QED
    BY <1>0, <1>2, <1>3, <1>4, <1>5, <1>6 DEF Step

\* An event, unless its text is longer than a message, and a part of an answer are
\* shown at most once, whatever is lost, refused, restarted or recovered: only a long
\* text that was delivered in part can be repeated (retry_notification).
THEOREM ShownAtMostOnceAlways == Spec => []ShownAtMostOnce
  <1>1. ASSUME Init PROVE OnceInv
    <2>1. \A k \in OneShots : row[k] = Absent /\ ~refused[k]
      BY <1>1, OneShotIsKey DEF Init
    <2>2. worker.pc = "idle"
      BY <1>1, IdleWorker DEF Init
    <2>. QED
      BY <2>1, <2>2 DEF OnceInv, Absent
  <1>2. IInv /\ OnceInv /\ [Next]_vars => OnceInv'
    BY OnceStep
  <1>3. IInv /\ OnceInv => ShownAtMostOnce
    BY OneShotIsKey DEF IInv, OneMessage, OnceInv, ShownAtMostOnce
  <1>4. Init => OnceInv
    BY <1>1
  <1>. QED
    BY <1>2, <1>3, <1>4, Invariance, PTL DEF Spec
=============================================================================
