------------------------- MODULE NotificationOutbox -------------------------
(***************************************************************************)
(* The Telegram notification outbox                                        *)
(* (src/app/repositories/telegram_notifications.py) and its dispatcher     *)
(* (src/app/modules/telegram_notification_center.py).  Every publication   *)
(* is a row; one thread at a time (_delivery_lock) claims a row, calls     *)
(* Telegram and settles the row by its lease generation.  A row of a       *)
(* thread is updated by several writers and shown by one edited message;   *)
(* a one-shot event is sent once; the parts of an Agent answer are sent    *)
(* in order.  The content of a row is the set of facts published so far.   *)
(***************************************************************************)
EXTENDS Naturals, Sequences

CONSTANTS
    Threads,       \* rows that writers update (replace=True)
    Events,        \* one-shot rows (replace=False)
    Long,          \* the events whose text is longer than one message
    Parts,         \* the rows of one Agent answer, in order
    Writers,       \* publishers of a thread, each with a fact of its own
    MaxAttempts,   \* _MAX_ATTEMPTS
    MaxPublishes,  \* bound: publications
    MaxTroubles    \* bound: restarts, lost settlements, recoveries, invalidations, purges

PartSet == {Parts[i] : i \in 1 .. Len(Parts)}
Keys == Threads \cup Events \cup PartSet

ASSUME OutboxAssumption ==
    /\ Long \subseteq Events
    /\ Threads \cap (Events \cup PartSet) = {} /\ Events \cap PartSet = {}
    /\ Parts \in Seq(PartSet) /\ Keys # {}
    /\ MaxAttempts \in Nat \ {0} /\ MaxPublishes \in Nat /\ MaxTroubles \in Nat
    /\ "body" \notin Writers

VARIABLES
    row,        \* telegram_notification_outbox
    chat,       \* external: the messages Telegram shows for a row, oldest first
    refused,    \* whether an edit of the row's message was ever refused
    worker,     \* the thread inside drain_telegram_notifications, if any
    snap,       \* what a writer read of the thread it updates
    publishes, troubles

vars == <<row, chat, refused, worker, snap, publishes, troubles>>

Facts == Writers \cup {"body"}
Queued == {"pending", "retry_wait"}
Finished == {"sent", "failed", "suppressed", "outcome_unknown"}
Statuses == {"absent", "sending"} \cup Queued \cup Finished

Row == [status : Statuses, facts : SUBSET Facts, rev : Nat, msg : Nat,
        attempts : Nat, gen : Nat, due : BOOLEAN, stale : BOOLEAN]
Absent == [status |-> "absent", facts |-> {}, rev |-> 0, msg |-> 0,
           attempts |-> 0, gen |-> 0, due |-> FALSE, stale |-> FALSE]

Result == [kind : {"none", "ok", "rejected", "busy", "unknown"}, msg : Nat, fallback : BOOLEAN]
NoResult == [kind |-> "none", msg |-> 0, fallback |-> FALSE]

\* The thread that holds the delivery lock keeps what it read when it claimed.
Worker == [pc : {"idle", "claimed", "called"}, key : Keys, facts : SUBSET Facts,
           rev : Nat, msg : Nat, gen : Nat, got : Result]
Idle == [pc |-> "idle", key |-> CHOOSE k \in Keys : TRUE, facts |-> {},
         rev |-> 0, msg |-> 0, gen |-> 0, got |-> NoResult]

Snapshot == [on : Threads, rev : Nat, facts : SUBSET Facts] \cup {<<>>}

Trouble == troubles < MaxTroubles /\ troubles' = troubles + 1

-----------------------------------------------------------------------------
(* Publishing: upsert_notification.                                        *)

Inserted(facts, preferred) ==
    [Absent EXCEPT !.status = "pending", !.facts = facts, !.rev = 1,
                   !.msg = preferred, !.due = TRUE]

\* Mutant: a preferred message is taken for one more than is known.
AdoptedBoth(r, preferred) == r.msg + preferred

\* The message a row is known by once a caller tells what it was shown as.
Adopted(r, preferred) == IF r.msg # 0 THEN r.msg ELSE preferred

\* The same content again only wakes a row that gave up without being in doubt.
Repeated(r, preferred) ==
    LET msg == Adopted(r, preferred)
        revive == \/ r.status \in {"failed", "suppressed"}
                  \/ r.status = "outcome_unknown" /\ msg > 0
    IN  IF revive
        THEN [r EXCEPT !.msg = msg, !.status = "pending", !.attempts = 0,
                       !.due = TRUE, !.stale = FALSE]
        ELSE [r EXCEPT !.msg = msg, !.stale = FALSE]

\* New content is a new revision.  A delivery under way is left to settle, and a
\* first send of unknown outcome stays isolated until its message is known.
Replaced(r, facts, preferred) ==
    LET msg == Adopted(r, preferred)
        keep == r.status = "outcome_unknown" /\ msg = 0
    IN  [r EXCEPT !.facts = facts, !.msg = msg, !.rev = @ + 1,
                  !.status = CASE r.status = "sending" -> "sending"
                               [] keep -> "outcome_unknown"
                               [] OTHER -> "pending",
                  !.attempts = IF r.status = "sending" \/ keep THEN @ ELSE 0,
                  !.due = TRUE, !.stale = FALSE]

Upserted(r, facts, preferred) ==
    IF r.status = "absent" THEN Inserted(facts, preferred)
    ELSE IF facts = r.facts THEN Repeated(r, preferred)
    ELSE Replaced(r, facts, preferred)

\* Mutant: a writer replaces whatever revision it finds.
AnyRevision(r, s) == TRUE

\* Only the revision that the writer read may be replaced (expected_revision).
Unchanged(r, s) == r.rev = s.rev

\* get_notification_thread_snapshot
ReadThread(w) ==
    /\ snap[w] = <<>> /\ publishes < MaxPublishes
    /\ \E k \in Threads :
         snap' = [snap EXCEPT ![w] = [on |-> k, rev |-> row[k].rev, facts |-> row[k].facts]]
    /\ UNCHANGED <<row, chat, refused, worker, publishes, troubles>>

\* publish_notification_thread: the writer adds its fact to what it read.  A
\* callback may name the message on which the user pressed a button.
PublishThread(w) ==
    LET s == snap[w] IN
    /\ s # <<>> /\ publishes < MaxPublishes
    /\ \/ /\ Unchanged(row[s.on], s)
          /\ \E preferred \in 0 .. Len(chat[s.on]) :
               row' = [row EXCEPT ![s.on] = Upserted(@, s.facts \cup {w}, preferred)]
       \/ ~Unchanged(row[s.on], s) /\ UNCHANGED row
    /\ snap' = [snap EXCEPT ![w] = <<>>]
    /\ publishes' = publishes + 1
    /\ UNCHANGED <<chat, refused, worker, troubles>>

Earlier(k) == {Parts[i] : i \in {i \in 1 .. Len(Parts) :
                 \E j \in i + 1 .. Len(Parts) : Parts[j] = k}}

\* A one-shot event or a part; a part is published after the parts before it, and
\* an existing key is left alone.
PublishOnce(k) ==
    /\ publishes < MaxPublishes /\ row[k].status = "absent"
    /\ \A p \in Earlier(k) : row[p].status # "absent"
    /\ row' = [row EXCEPT ![k] = Inserted({"body"}, 0)]
    /\ publishes' = publishes + 1
    /\ UNCHANGED <<chat, refused, worker, snap, troubles>>

\* A cancelled download silences the snapshot that waits to be sent.
Invalidate(k) ==
    /\ Trouble /\ row[k].status \in Queued
    /\ row' = [row EXCEPT ![k].status = "suppressed"]
    /\ UNCHANGED <<chat, refused, worker, snap, publishes>>

-----------------------------------------------------------------------------
(* Claiming: claim_due_notifications under the delivery lock.              *)

\* Mutant: a first send without an answer keeps its lease for ever.
NeverInDoubt(r) == FALSE

\* A first send whose lease is over may have arrived: it is set aside.
InDoubt(r) == r.status = "sending" /\ r.stale /\ r.msg = 0

Quarantined(r) ==
    IF InDoubt(r)
    THEN [r EXCEPT !.status = "outcome_unknown", !.gen = @ + 1, !.stale = FALSE]
    ELSE r

\* Mutant: a part is sent whether or not the parts before it arrived.
AnyOrder(rows, k) == TRUE

\* A part waits until every part before it has been delivered.
InTurn(rows, k) == \A p \in Earlier(k) : rows[p].status = "sent"

Claimable(rows, k) ==
    /\ \/ rows[k].status \in Queued /\ rows[k].due
       \/ rows[k].status = "sending" /\ rows[k].stale /\ rows[k].msg > 0
    /\ InTurn(rows, k)

Claim ==
    LET rows == [k \in Keys |-> Quarantined(row[k])] IN
    /\ worker.pc = "idle"
    /\ \/ \E k \in Keys :
            /\ Claimable(rows, k)
            /\ row' = [rows EXCEPT ![k].status = "sending", ![k].gen = @ + 1, ![k].stale = FALSE]
            /\ worker' = [pc |-> "claimed", key |-> k, facts |-> row[k].facts, rev |-> row[k].rev,
                          msg |-> row[k].msg, gen |-> row[k].gen + 1, got |-> NoResult]
       \/ /\ \A k \in Keys : ~Claimable(rows, k)
          /\ row' = rows /\ rows # row
          /\ UNCHANGED worker
    /\ UNCHANGED <<chat, refused, snap, publishes, troubles>>

-----------------------------------------------------------------------------
(* Calling Telegram: _dispatch_item, send_event_result, edit_event_result. *)

Got(kind, msg, fallback) == [kind |-> kind, msg |-> msg, fallback |-> fallback]

Answer(result) == worker' = [worker EXCEPT !.pc = "called", !.got = result]

\* A new message: delivered, refused (4xx), put off (429, 5xx), or without an
\* answer, which tells nothing of whether it arrived.  A long text may stop after
\* its first message, whose identity is then known.
SendNew(k, fallback) ==
    \/ /\ chat' = [chat EXCEPT ![k] = Append(@, worker.facts)]
       /\ \/ Answer(Got("ok", Len(chat'[k]), fallback))
          \/ Answer(Got("unknown", 0, fallback))
    \/ /\ \E kind \in {"rejected", "busy", "unknown"} : Answer(Got(kind, 0, fallback))
       /\ UNCHANGED chat
    \/ /\ k \in Long
       /\ chat' = [chat EXCEPT ![k] = Append(@, {})]
       /\ Answer(Got("unknown", Len(chat'[k]), fallback))

Send ==
    /\ worker.pc = "claimed" /\ worker.msg = 0
    /\ SendNew(worker.key, FALSE)
    /\ UNCHANGED <<row, refused, snap, publishes, troubles>>

\* An edit of the known message.  A text longer than one message is never edited.
Edit ==
    LET k == worker.key  m == worker.msg IN
    /\ worker.pc = "claimed" /\ m > 0 /\ k \notin Long
    /\ \/ /\ chat' = [chat EXCEPT ![k][m] = worker.facts]
          /\ \E kind \in {"ok", "unknown"} : Answer(Got(kind, m, FALSE))
       \/ /\ \E kind \in {"rejected", "busy", "unknown"} : Answer(Got(kind, m, FALSE))
          /\ UNCHANGED chat
    /\ UNCHANGED <<row, refused, snap, publishes, troubles>>

\* The message cannot be edited any more: a new one takes its place.
EditRefused ==
    /\ worker.pc = "claimed" /\ worker.msg > 0
    /\ refused' = [refused EXCEPT ![worker.key] = TRUE]
    /\ SendNew(worker.key, TRUE)
    /\ UNCHANGED <<row, snap, publishes, troubles>>

\* Nothing is sent: the policy changed, the payload or the route is invalid, the
\* download moved on, or the Agent session cannot be read.
Refrain ==
    /\ worker.pc = "claimed"
    /\ \E kind \in {"rejected", "busy"} : Answer(Got(kind, 0, FALSE))
    /\ UNCHANGED <<row, chat, refused, snap, publishes, troubles>>

-----------------------------------------------------------------------------
(* Settling: only the holder of the lease writes.                          *)

Held(r) == r.status = "sending" /\ r.gen = worker.gen

Newer(r) == r.rev # worker.rev

Requeued(r) == [r EXCEPT !.status = "pending", !.attempts = 0, !.due = TRUE, !.stale = FALSE]

\* Mutant: a delivery of an old revision settles the newer one.
CompletedBlindly(r) ==
    [r EXCEPT !.status = "sent", !.attempts = 0, !.due = TRUE,
              !.msg = IF worker.got.msg # 0 THEN worker.got.msg ELSE @, !.stale = FALSE]

\* complete_notification
Completed(r) ==
    [r EXCEPT !.status = IF Newer(r) THEN "pending" ELSE "sent", !.attempts = 0, !.due = TRUE,
              !.msg = IF worker.got.msg # 0 THEN worker.got.msg ELSE @, !.stale = FALSE]

\* The message identity a failed attempt leaves behind.
Cleared(r) == IF worker.got.fallback THEN [r EXCEPT !.msg = 0] ELSE r

\* fail_notification
Failed(r) ==
    IF Newer(r) THEN Requeued(Cleared(r))
    ELSE [Cleared(r) EXCEPT !.status = "failed", !.attempts = @ + 1, !.stale = FALSE]

\* retry_notification
Retried(r) ==
    LET known == IF worker.got.fallback THEN 0
                 ELSE IF r.msg # 0 THEN r.msg ELSE worker.got.msg
        s == [r EXCEPT !.msg = known, !.stale = FALSE]
    IN  IF worker.got.kind = "unknown" /\ known = 0
          THEN [s EXCEPT !.status = "outcome_unknown", !.due = TRUE]
        ELSE IF Newer(r) THEN Requeued(s)
        ELSE IF r.attempts + 1 >= MaxAttempts
          THEN [s EXCEPT !.status = "failed", !.attempts = @ + 1, !.due = TRUE]
        ELSE [s EXCEPT !.status = "retry_wait", !.attempts = @ + 1, !.due = FALSE]

Settled(r) ==
    CASE worker.got.kind = "ok" -> Completed(r)
      [] worker.got.kind = "rejected" -> Failed(r)
      [] OTHER -> Retried(r)

Settle ==
    LET k == worker.key IN
    /\ worker.pc = "called"
    /\ row' = IF Held(row[k]) THEN [row EXCEPT ![k] = Settled(@)] ELSE row
    /\ worker' = Idle
    /\ UNCHANGED <<chat, refused, snap, publishes, troubles>>

\* suppress_notification, and suppress_agent_continuation_group for a part: with
\* it, the parts that wait are given up too.
Suppress ==
    LET k == worker.key IN
    /\ worker.pc = "claimed"
    /\ row' = IF ~Held(row[k]) THEN row
              ELSE IF k \in PartSet
              THEN [q \in Keys |->
                      IF \/ q = k /\ ~Newer(row[k])
                         \/ q \in PartSet /\ row[q].status \in Queued /\ ~Newer(row[k])
                      THEN [row[q] EXCEPT !.status = "suppressed", !.stale = FALSE]
                      ELSE row[q]]
              ELSE [row EXCEPT ![k] = IF Newer(@) THEN Requeued(@)
                                      ELSE [@ EXCEPT !.status = "suppressed", !.stale = FALSE]]
    /\ worker' = Idle
    /\ UNCHANGED <<chat, refused, snap, publishes, troubles>>

\* The settlement raises: the lock is released and the row keeps its lease.
SettleFails ==
    /\ worker.pc # "idle" /\ Trouble
    /\ worker' = Idle
    /\ UNCHANGED <<row, chat, refused, snap, publishes>>

-----------------------------------------------------------------------------
(* Time, restarts and housekeeping.                                        *)

\* Mutant: after a restart a first send is repeated.
RecoveredBlindly(r) ==
    IF r.status = "sending"
    THEN [r EXCEPT !.status = "retry_wait", !.gen = @ + 1, !.due = TRUE, !.stale = FALSE]
    ELSE r

\* _recover_deliveries
Recovered(r) ==
    IF r.status = "sending" \/ (r.status = "outcome_unknown" /\ r.msg > 0)
    THEN [r EXCEPT !.status = CASE r.msg = 0 -> "outcome_unknown"
                                [] r.msg > 0 /\ r.attempts >= MaxAttempts -> "failed"
                                [] OTHER -> "retry_wait",
                   !.gen = @ + 1, !.due = TRUE, !.stale = FALSE]
    ELSE r

\* start_telegram_notification_dispatcher after a crash: what was in memory is gone.
Restart ==
    /\ Trouble
    /\ row' = [k \in Keys |-> Recovered(row[k])]
    /\ worker' = Idle
    /\ snap' = [w \in Writers |-> <<>>]
    /\ UNCHANGED <<chat, refused, publishes>>

\* The dispatcher is started while a publisher's own drain is under way.
Recover ==
    /\ Trouble
    /\ row' = [k \in Keys |-> Recovered(row[k])]
    /\ UNCHANGED <<chat, refused, worker, snap, publishes>>

\* The 120 seconds of a lease are over.  Only a claim looks at it, and a claim
\* needs the delivery lock, so nothing is lost by leaving time to the idle lock.
LeaseEnds(k) ==
    /\ row[k].status = "sending" /\ ~row[k].stale /\ worker.pc = "idle"
    /\ row' = [row EXCEPT ![k].stale = TRUE]
    /\ UNCHANGED <<chat, refused, worker, snap, publishes, troubles>>

\* The back-off of a retry is over.
RetryDue(k) ==
    /\ row[k].status = "retry_wait" /\ ~row[k].due /\ worker.pc = "idle"
    /\ row' = [row EXCEPT ![k].due = TRUE]
    /\ UNCHANGED <<chat, refused, worker, snap, publishes, troubles>>

\* purge_notifications: a finished row of 30 or 90 days ago goes, unless parts of
\* its answer still wait.  No delivery and no writer's snapshot is that old.
Purge(k) ==
    /\ Trouble /\ row[k].status \in Finished /\ worker.pc = "idle"
    /\ \A w \in Writers : snap[w] # <<>> => snap[w].on # k
    /\ k \in PartSet => \A p \in PartSet : row[p].status \notin Queued \cup {"sending"}
    /\ row' = [row EXCEPT ![k] = Absent]
    /\ chat' = [chat EXCEPT ![k] = <<>>]
    /\ refused' = [refused EXCEPT ![k] = FALSE]
    /\ UNCHANGED <<worker, snap, publishes>>

-----------------------------------------------------------------------------
Init ==
    /\ row = [k \in Keys |-> Absent]
    /\ chat = [k \in Keys |-> <<>>]
    /\ refused = [k \in Keys |-> FALSE]
    /\ worker = Idle
    /\ snap = [w \in Writers |-> <<>>]
    /\ publishes = 0 /\ troubles = 0

Dispatch == Claim \/ Send \/ Edit \/ EditRefused \/ Refrain \/ Settle \/ Suppress

Next ==
    \/ \E w \in Writers : ReadThread(w) \/ PublishThread(w)
    \/ \E k \in Events \cup PartSet : PublishOnce(k)
    \/ \E k \in Threads : Invalidate(k)
    \/ Dispatch \/ SettleFails \/ Restart \/ Recover
    \/ \E k \in Keys : LeaseEnds(k) \/ RetryDue(k) \/ Purge(k)

Spec == Init /\ [][Next]_vars

\* The dispatcher's thread goes on and the clock with it.
FairSpec ==
    /\ Spec
    /\ WF_vars(Dispatch)
    /\ \A k \in Keys : WF_vars(LeaseEnds(k)) /\ WF_vars(RetryDue(k))

-----------------------------------------------------------------------------
(* Properties.                                                             *)

TypeOK ==
    /\ row \in [Keys -> Row]
    /\ chat \in [Keys -> Seq(SUBSET Facts)]
    /\ \A k \in Keys : row[k].msg <= Len(chat[k])
    /\ refused \in [Keys -> BOOLEAN]
    /\ worker \in Worker
    /\ snap \in [Writers -> Snapshot]
    /\ publishes \in 0 .. MaxPublishes /\ troubles \in 0 .. MaxTroubles

\* A row whose message could always be edited is shown by one message: whatever
\* fails, is lost, restarted or recovered, no second one is sent.
OneMessage == \A k \in Keys : ~refused[k] => Len(chat[k]) <= 1

\* A row is not recorded as sent before Telegram shows its newest content, in the
\* message that the next update will edit.
SentIsShown ==
    \A k \in Keys :
        row[k].status = "sent" =>
            row[k].msg \in 1 .. Len(chat[k]) /\ chat[k][row[k].msg] = row[k].facts

\* A part of an answer is only ever on its way when the parts before it arrived.
InOrder ==
    worker.pc # "idle" => \A p \in Earlier(worker.key) : chat[p] # <<>>

\* A fact that a writer published is not overwritten by another writer's older
\* view of the thread.
FactsKept ==
    [][\A k \in Threads : row'[k].status # "absent" => row[k].facts \subseteq row'[k].facts]_vars

\* A row does not wait for ever: it is sent, or it is visible that it was not.
RowsSettle ==
    \A k \in Threads \cup Events : row[k].status \in Queued \cup {"sending"}
                                     ~> row[k].status \in Finished \cup {"absent"}

\* An event that is published once is shown once (notifier.py: what was delivered
\* in part is never replayed).
ShownOnce == \A k \in Events : Len(chat[k]) <= 1
=============================================================================
