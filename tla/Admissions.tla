------------------------------ MODULE Admissions ------------------------------
(***************************************************************************)
(* The download admissions of a media subscription                         *)
(* (src/app/repositories/media_subscriptions.py): an active admission      *)
(* keeps its media key for one download.  Callers submit the candidates    *)
(* of the subscription (src/app/modules/media_subscriptions.py), the       *)
(* requests they start live on without them, the user cancels, removes and *)
(* retries, the subscription is changed meanwhile and the service          *)
(* restarts.                                                               *)
(*                                                                         *)
(* A transaction of the repository is one step.  The requests are seen     *)
(* with one target and without their downloaders: module DownloadRequest   *)
(* has both.                                                               *)
(***************************************************************************)
EXTENDS Naturals, Sequences, FiniteSets

CONSTANTS
    Candidates,      \* the resources that were found
    KeyOf,           \* the media key of each candidate
    ResourceOf,      \* what each one downloads
    Callers,         \* threads that submit candidates
    MaxAdmissions,   \* bound: admissions and submissions
    MaxRequests,     \* bound: requests
    MaxEvents        \* bound: changes of the subscription, media that turn up,
                     \* actions of the user, restarts and failures

Keys      == {KeyOf[c] : c \in Candidates}
Resources == {ResourceOf[c] : c \in Candidates}

ASSUME AdmissionsAssumption ==
    /\ Candidates # {} /\ DOMAIN KeyOf = Candidates /\ DOMAIN ResourceOf = Candidates
    /\ {MaxAdmissions, MaxRequests, MaxEvents} \subseteq Nat

VARIABLES
    sub,        \* media_subscriptions: the row, deleted counts as paused
    cands,      \* media_subscription_candidates
    adms,       \* media_download_admissions, in the order of their ids
    reqs,       \* download_requests, in the order of their ids
    callers,    \* download_candidate and the submitting thread it waits for
    library,    \* external: the media keys that the media server shows
    booting,    \* the admissions were not reconciled since the start
    unrecovered,\* a reconciliation after a start failed
    events

admVars == <<sub, cands, adms, reqs, callers, library, booting, unrecovered, events>>

\* "submitted" stands for downloading too: nothing distinguishes them here.
ActiveAdmission == {"claimed", "dispatching", "submitted", "processing"}
AdmissionStatuses == ActiveAdmission \cup {"completed", "failed", "cancelled", "released"}

\* A request that was cancelled before a backend took it may be submitted again by a
\* caller; one that the user removed from the backend may not.
Retryable == {"failed", "cancelled"}
Over == Retryable \cup {"completed", "removed"}
RequestStatuses == Over \cup {"pending", "submitting", "submitted", "manual_review", "resubmitted"}
UnderWay == {"submitting", "submitted", "manual_review"}

Admission == [status : AdmissionStatuses, cand : Candidates, rev : Nat, request : Nat]

\* postFailed: a stage after the download failed.  current: the row that owns the
\* identity of its resource.  own: started for the subscription.  mark: the retried
\* request that is to be marked.
Request == [status : RequestStatuses, res : Resources, postFailed : BOOLEAN, current : BOOLEAN,
            own : BOOLEAN, mark : Nat]

Caller == [pc : {"idle", "claim", "begin", "submit", "bind", "dispatch", "send",
                 "settle", "sync"},
           cand : Candidates, rev : Nat, adm : Nat, request : Nat, seen : RequestStatuses \cup {"none"},
           accepted : BOOLEAN, left : BOOLEAN]

IdleCaller == [pc |-> "idle", cand |-> CHOOSE c \in Candidates : TRUE, rev |-> 0, adm |-> 0,
               request |-> 0, seen |-> "none", accepted |-> FALSE, left |-> FALSE]

Event == events < MaxEvents /\ events' = events + 1

\* Room for what the callers under way may still create.
Coming(pcs) == Cardinality({p \in Callers : callers[p].pc \in pcs})
RequestRoom == Len(reqs) + Coming({"claim", "begin", "submit", "bind"}) < MaxRequests
Room == Len(adms) + Coming({"claim"}) < MaxAdmissions /\ RequestRoom

Active(a) == a.status \in ActiveAdmission
Holders(as, k) == {i \in DOMAIN as : Active(as[i]) /\ KeyOf[as[i].cand] = k}

-----------------------------------------------------------------------------
(* What a request tells its admissions.                                    *)

\* Mutant: an admission takes over the status of its request.
PlainProjection(q) == IF q.status = "completed" THEN "processing" ELSE q.status

\* _download_request_admission_projection
Projection(q) ==
    CASE q.status = "submitted" -> "submitted"
      [] q.status \in {"cancelled", "removed"} -> "cancelled"
      [] q.status = "failed" \/ (q.status = "completed" /\ q.postFailed) -> "failed"
      [] q.status = "manual_review" \/ (q.status = "completed" /\ ~q.postFailed) -> "processing"
      [] OTHER -> "as it was"

Projected(a, rs) ==
    IF Active(a) /\ a.request # 0 /\ Projection(rs[a.request]) # "as it was"
    THEN [a EXCEPT !.status = Projection(rs[a.request])] ELSE a

\* _sync_media_download_admissions_conn, for the requests R
Synced(as, rs, R) == [i \in DOMAIN as |-> IF as[i].request \in R THEN Projected(as[i], rs) ELSE as[i]]

\* A request changes and its admissions follow in the same transaction.
Becomes(r, q) ==
    /\ reqs' = [reqs EXCEPT ![r] = q]
    /\ adms' = Synced(adms, [reqs EXCEPT ![r] = q], {r})

\* fail_unbound_media_download_admission
GivenUp(a) ==
    IF a.status \in {"claimed", "dispatching"} /\ a.request = 0
    THEN [a EXCEPT !.status = "failed"] ELSE a

-----------------------------------------------------------------------------
(* The subscription and its candidates.                                    *)

\* A pause, a deletion or a change withdraws what was not dispatched yet; plain
\* resuming withdraws nothing.
ChangeSubscription ==
    /\ Event
    /\ \E enabled \in BOOLEAN :
       /\ sub' = [enabled |-> enabled, rev |-> sub.rev + 1]
       /\ \/ /\ cands' = [c \in Candidates |-> IF cands[c].status = "available"
                                               THEN [cands[c] EXCEPT !.status = "expired"]
                                               ELSE cands[c]]
             /\ adms' = [i \in DOMAIN adms |-> IF adms[i].status = "claimed"
                                               THEN [adms[i] EXCEPT !.status = "cancelled"]
                                               ELSE adms[i]]
          \/ enabled /\ UNCHANGED <<cands, adms>>
    /\ UNCHANGED <<reqs, callers, library, booting, unrecovered>>

\* replace_media_subscription_candidates: a check found S; what it did not find
\* expires.
OfferCandidates(k) ==
    /\ Event
    /\ \E S \in SUBSET {c \in Candidates : KeyOf[c] = k} :
         cands' = [c \in Candidates |->
                     IF KeyOf[c] # k \/ cands[c].status = "submitted" THEN cands[c]
                     ELSE [cands[c] EXCEPT !.status = IF c \in S THEN "available" ELSE "expired"]]
    /\ UNCHANGED <<sub, adms, reqs, callers, library, booting, unrecovered>>

\* The local keys of a check, as its reconciliation sees them.
Reconciled(a) ==
    IF Active(a) /\ KeyOf[a.cand] \in library THEN [a EXCEPT !.status = "completed"]
    ELSE Projected(a, reqs)

\* reconcile_media_download_admissions, in a check of the enabled subscription
Reconcile ==
    /\ sub.enabled
    /\ adms' = [i \in DOMAIN adms |-> Reconciled(adms[i])]
    /\ UNCHANGED <<sub, cands, reqs, callers, library, booting, unrecovered, events>>

LibraryGains(k) ==
    /\ k \notin library /\ Event /\ library' = library \cup {k}
    /\ UNCHANGED <<sub, cands, adms, reqs, callers, booting, unrecovered>>

-----------------------------------------------------------------------------
(* download_candidate, and the submission it waits for.                    *)

Step(p, from, to) == callers[p].pc = from /\ callers' = [callers EXCEPT ![p].pc = to]

Leave(p) == callers' = [callers EXCEPT ![p] = IdleCaller]

AdmissionBecomes(p, status) == adms' = [adms EXCEPT ![callers[p].adm].status = status]

\* The candidate, the subscription and the inventory are read: _candidate_still_missing.
Begin(p) ==
    /\ callers[p].pc = "idle" /\ sub.enabled /\ Room
    /\ \E c \in Candidates :
         /\ cands[c].status = "available"
         /\ \/ /\ KeyOf[c] \notin library /\ UNCHANGED cands
               /\ callers' = [callers EXCEPT ![p] = [IdleCaller EXCEPT !.pc = "claim", !.cand = c,
                                                                       !.rev = sub.rev]]
            \/ /\ KeyOf[c] \in library /\ UNCHANGED callers
               /\ cands' = [cands EXCEPT ![c].status = "expired"]
    /\ UNCHANGED <<sub, adms, reqs, library, booting, unrecovered, events>>

\* claim_media_download_admission
Claim(p) ==
    LET c == callers[p].cand
        free == /\ sub.enabled /\ sub.rev = callers[p].rev /\ cands[c].status = "available"
                /\ Holders(adms, KeyOf[c]) = {}
    IN  /\ callers[p].pc = "claim"
        /\ \/ /\ free
              /\ adms' = Append(adms, [status |-> "claimed", cand |-> c, rev |-> sub.rev,
                                       request |-> 0])
              /\ callers' = [callers EXCEPT ![p].pc = "begin", ![p].adm = Len(adms) + 1]
           \/ ~free /\ Leave(p) /\ UNCHANGED adms
        /\ UNCHANGED <<sub, cands, reqs, library, booting, unrecovered, events>>

\* begin_media_download_dispatch
BeginDispatch(p) ==
    LET status == adms[callers[p].adm].status
        valid == sub.enabled /\ sub.rev = callers[p].rev
    IN  /\ callers[p].pc = "begin"
        /\ IF valid /\ status = "claimed"
           THEN AdmissionBecomes(p, "dispatching") /\ Step(p, "begin", "submit")
           ELSE /\ AdmissionBecomes(p, IF status = "claimed" THEN "cancelled" ELSE status)
                /\ Leave(p)
        /\ UNCHANGED <<sub, cands, reqs, library, booting, unrecovered, events>>

\* The service is stopping: cancel_event is seen after the claim or the dispatch.
StopCaller(p) ==
    LET status == adms[callers[p].adm].status IN
    /\ callers[p].pc \in {"begin", "submit"}
    /\ AdmissionBecomes(p, IF status = (IF callers[p].pc = "begin" THEN "claimed" ELSE "dispatching")
                           THEN "cancelled" ELSE status)
    /\ Leave(p)
    /\ UNCHANGED <<sub, cands, reqs, library, booting, unrecovered, events>>

\* The wait for the submission is cancelled, its thread is not.
Abandon(p) ==
    /\ callers[p].pc \in {"submit", "bind", "dispatch", "send"} /\ ~callers[p].left
    /\ adms' = [adms EXCEPT ![callers[p].adm] = GivenUp(@)]
    /\ IF callers[p].pc = "submit" THEN Leave(p) ELSE callers' = [callers EXCEPT ![p].left = TRUE]
    /\ UNCHANGED <<sub, cands, reqs, library, booting, unrecovered, events>>

\* An exception before anything was bound.
Fail(p) ==
    /\ adms' = [adms EXCEPT ![callers[p].adm] = GivenUp(@)]
    /\ Leave(p)

Owner(res) == IF \E r \in DOMAIN reqs : reqs[r].current /\ reqs[r].res = res
              THEN CHOOSE r \in DOMAIN reqs : reqs[r].current /\ reqs[r].res = res
              ELSE 0

\* The resource is resolved and the request that owns it is read.
Lookup(p) ==
    LET r == Owner(ResourceOf[callers[p].cand]) IN
    /\ callers[p].pc = "submit"
    /\ \/ /\ callers' = [callers EXCEPT ![p].pc = "bind", ![p].request = r,
                                        ![p].seen = IF r = 0 THEN "none" ELSE reqs[r].status]
          /\ UNCHANGED adms
       \/ Fail(p)
    /\ UNCHANGED <<sub, cands, reqs, library, booting, unrecovered, events>>

\* _bind_media_download_admission_conn
Bindable(a, r) ==
    \/ a.status = "dispatching" /\ a.request = 0
    \/ a.request = r /\ a.status \in ActiveAdmission \ {"claimed"}

\* A request that is not to be submitted again keeps the admission.
BindExisting(p) ==
    LET r == callers[p].request IN
    /\ callers[p].pc = "bind" /\ callers[p].seen \notin {"none"} \cup Retryable
    /\ \/ /\ Bindable(adms[callers[p].adm], r)
          /\ adms' = [adms EXCEPT ![callers[p].adm].request = r]
          /\ callers' = [callers EXCEPT ![p].pc = IF callers[p].seen = "pending" THEN "dispatch" ELSE "settle",
                                        ![p].accepted = TRUE]
       \/ ~Bindable(adms[callers[p].adm], r) /\ Fail(p)
    /\ UNCHANGED <<sub, cands, reqs, library, booting, unrecovered, events>>

NewRequest(res, status, own, mark) ==
    [status |-> status, res |-> res, postFailed |-> FALSE, current |-> TRUE, own |-> own,
     mark |-> mark]

\* The rows with a successor: it takes over the identity.
Succeeded(rs, q) ==
    Append([r \in DOMAIN rs |-> IF rs[r].res = q.res THEN [rs[r] EXCEPT !.current = FALSE] ELSE rs[r]],
           q)

\* create_download_request, which looks at the owner again
CreateRequest(p) ==
    LET a == callers[p].adm
        res == ResourceOf[callers[p].cand]
        owner == Owner(res)
        reused == owner # 0 /\ reqs[owner].status \notin Over
        r == IF reused THEN owner ELSE Len(reqs) + 1
    IN  /\ callers[p].pc = "bind" /\ callers[p].seen \in {"none"} \cup Retryable
        /\ \/ /\ Bindable(adms[a], r)
              /\ adms' = [adms EXCEPT ![a].request = r]
              /\ reqs' = IF reused THEN reqs ELSE Succeeded(reqs, NewRequest(res, "pending", FALSE, 0))
              /\ callers' = [callers EXCEPT ![p].pc = "dispatch", ![p].request = r]
           \/ ~Bindable(adms[a], r) /\ Fail(p) /\ UNCHANGED reqs
        /\ UNCHANGED <<sub, cands, library, booting, unrecovered, events>>

\* dispatch_request: only a pending request is taken.
Dispatch(p) ==
    LET r == callers[p].request IN
    /\ callers[p].pc = "dispatch"
    /\ IF reqs[r].status = "pending"
       THEN /\ reqs' = [reqs EXCEPT ![r].status = "submitting", ![r].own = TRUE]
            /\ Step(p, "dispatch", "send")
       ELSE /\ callers' = [callers EXCEPT ![p].pc = "settle", ![p].accepted = TRUE]
            /\ UNCHANGED reqs
    /\ UNCHANGED <<sub, cands, adms, library, booting, unrecovered, events>>

Answers == {"submitted", "failed", "manual_review"}

\* The answer of the backend is recorded unless the request was recovered meanwhile.
Send(p) ==
    LET r == callers[p].request IN
    /\ callers[p].pc = "send"
    /\ \/ /\ reqs[r].status = "submitting"
          /\ \E answer \in Answers :
               /\ Becomes(r, [reqs[r] EXCEPT !.status = answer])
               /\ callers' = [callers EXCEPT ![p].pc = "settle", ![p].accepted = answer # "failed"]
       \/ /\ reqs[r].status # "submitting"
          /\ callers' = [callers EXCEPT ![p].pc = "settle", ![p].accepted = TRUE]
          /\ UNCHANGED <<adms, reqs>>
    /\ UNCHANGED <<sub, cands, library, booting, unrecovered, events>>

\* What is made of the result: nothing when nobody waits for it.
Settle(p) ==
    LET r == callers[p].request
        c == callers[p].cand
        stopped == reqs[r].status \in {"cancelled", "removed"}
    IN  /\ callers[p].pc = "settle"
        /\ \/ callers[p].left /\ Leave(p) /\ UNCHANGED <<cands, adms>>
           \/ /\ ~callers[p].left /\ stopped
              /\ adms' = Synced(adms, reqs, {r}) /\ Leave(p) /\ UNCHANGED cands
           \/ /\ ~callers[p].left /\ ~stopped
              /\ cands' = IF callers[p].accepted
                          THEN [cands EXCEPT ![c] = [status |-> "submitted", request |-> r]]
                          ELSE cands
              /\ Step(p, "settle", "sync") /\ UNCHANGED adms
        /\ UNCHANGED <<sub, reqs, library, booting, unrecovered, events>>

SyncResult(p) ==
    /\ callers[p].pc = "sync"
    /\ adms' = Synced(adms, reqs, {callers[p].request}) /\ Leave(p)
    /\ UNCHANGED <<sub, cands, reqs, library, booting, unrecovered, events>>

-----------------------------------------------------------------------------
(* The requests: the tracker, the stages after the download, the user.     *)

\* The tracker, or the user in the downloader's own list.
Track(r) ==
    /\ reqs[r].status = "submitted"
    /\ \/ /\ \E status \in {"completed", "failed", "manual_review"} :
               Becomes(r, [reqs[r] EXCEPT !.status = status])
          /\ UNCHANGED events
       \/ Event /\ Becomes(r, [reqs[r] EXCEPT !.status = "removed"])
    /\ UNCHANGED <<sub, cands, callers, library, booting, unrecovered>>

\* Organizing, STRM or the import fails.
PostprocessFails(r) ==
    /\ reqs[r].status = "completed" /\ ~reqs[r].postFailed
    /\ Becomes(r, [reqs[r] EXCEPT !.postFailed = TRUE])
    /\ UNCHANGED <<sub, cands, callers, library, booting, unrecovered, events>>

\* Mutant: the admission comes back whoever has the key by now.
ReviveAnyway(r, k) == {i \in DOMAIN adms : adms[i].request = r /\ adms[i].status = "failed"
                                           /\ KeyOf[adms[i].cand] = k}

Revivable(r, k) == {i \in DOMAIN adms : /\ adms[i].request = r /\ adms[i].status = "failed"
                                        /\ KeyOf[adms[i].cand] = k /\ Holders(adms, k) = {}}

\* The STRM work goes on: an admission of each key that has no other comes back.
PostprocessResumes(r) ==
    LET rs == [reqs EXCEPT ![r].postFailed = FALSE] IN
    /\ reqs[r].status = "completed" /\ reqs[r].postFailed
    /\ \E S \in SUBSET DOMAIN adms :
         /\ \A k \in Keys : IF Revivable(r, k) = {} THEN S \cap Revivable(r, k) = {}
                            ELSE Cardinality(S \cap Revivable(r, k)) = 1
         /\ S \subseteq UNION {Revivable(r, k) : k \in Keys}
         /\ adms' = Synced([i \in DOMAIN adms |-> IF i \in S THEN [adms[i] EXCEPT !.status = "processing"]
                                                  ELSE adms[i]], rs, {r})
    /\ reqs' = rs
    /\ UNCHANGED <<sub, cands, callers, library, booting, unrecovered, events>>

\* cancel_pending_download_request
CancelPending(r) ==
    /\ reqs[r].status = "pending" /\ Event
    /\ Becomes(r, [reqs[r] EXCEPT !.status = "cancelled"])
    /\ UNCHANGED <<sub, cands, callers, library, booting, unrecovered>>

\* recover_stale_submitting_download_requests does not look at admissions.
RecoverStale(r) ==
    /\ reqs[r].status = "submitting" /\ Event
    /\ reqs' = [reqs EXCEPT ![r].status = "manual_review"]
    /\ UNCHANGED <<sub, cands, adms, callers, library, booting, unrecovered>>

\* The user downloads a resource, or the pending request of it, without the
\* subscription.
UserDownloads(res) ==
    LET owner == Owner(res) IN
    /\ Event /\ RequestRoom
    /\ \/ /\ owner # 0 /\ reqs[owner].status = "pending"
          /\ reqs' = [reqs EXCEPT ![owner].status = "submitting"]
       \/ /\ owner # 0 => reqs[owner].status \in Retryable
          /\ reqs' = Succeeded(reqs, NewRequest(res, "submitting", FALSE, 0))
    /\ UNCHANGED <<sub, cands, adms, callers, library, booting, unrecovered>>

\* Mutant: a retry leaves its admission behind.
NoHandover(as, n, F) == as

\* _transfer_failed_media_download_admissions_conn hands the failed admissions over.
HandedOver(as, n, F) ==
    [i \in DOMAIN as |-> IF i \in F THEN [as[i] EXCEPT !.status = "dispatching", !.request = n]
                         ELSE as[i]]

\* The fences: the subscription is as it was, the candidate belongs to the request,
\* and the key is free.
MayHandOver(F) ==
    \A i \in F :
        /\ sub.enabled /\ adms[i].rev = sub.rev
        /\ cands[adms[i].cand].request \in {0, adms[i].request}
        /\ \A j \in F \cup Holders(adms, KeyOf[adms[i].cand]) :
             KeyOf[adms[j].cand] = KeyOf[adms[i].cand] => j = i

\* resubmit_download_request: the successor is created, claimed and given the
\* admissions in one transaction.
Retry(r) ==
    LET owner == Owner(reqs[r].res)
        n == Len(reqs) + 1
        sources == {r} \cup {s \in {owner} : reqs[s].status \in {"failed", "manual_review"}}
        F == {i \in DOMAIN adms : adms[i].request \in sources /\ adms[i].status = "failed"}
    IN  /\ Event /\ RequestRoom
        /\ \/ reqs[r].status \in Over /\ reqs[owner].status \in Over
           \/ reqs[r].status = "manual_review" /\ owner = r
        /\ MayHandOver(F)
        /\ reqs' = Succeeded(reqs, NewRequest(reqs[r].res, "submitting", F # {}, r))
        /\ adms' = HandedOver(adms, n, F)
        /\ cands' = [c \in Candidates |-> IF \E i \in F : adms[i].cand = c
                                          THEN [cands[c] EXCEPT !.request = n] ELSE cands[c]]
        /\ UNCHANGED <<sub, callers, library, booting, unrecovered>>

\* The backend answers the user's own submission.
UserSubmitted(r) ==
    /\ reqs[r].status = "submitting"
    /\ ~ \E p \in Callers : callers[p].pc = "send" /\ callers[p].request = r
    /\ \E answer \in Answers :
         Becomes(r, [reqs[r] EXCEPT !.status = answer, !.mark = IF answer = "submitted" THEN @ ELSE 0])
    /\ UNCHANGED <<sub, cands, callers, library, booting, unrecovered, events>>

\* mark_download_request_resubmitted, after an accepted retry: what failed, the download
\* or a stage after it, is the successor's now.
MarkResubmitted(r) ==
    LET source == reqs[r].mark IN
    /\ source # 0 /\ reqs[r].status # "submitting"
    /\ reqs' = [reqs EXCEPT ![r].mark = 0, ![source].postFailed = FALSE,
                            ![source].status = IF @ \in {"failed", "manual_review"} THEN "resubmitted" ELSE @]
    /\ UNCHANGED <<sub, cands, adms, callers, library, booting, unrecovered, events>>

-----------------------------------------------------------------------------
(* Restarts.                                                               *)

\* The threads die; the database start-up takes unconfirmed submissions as unknown.
Restart ==
    /\ Event
    /\ callers' = [p \in Callers |-> IdleCaller]
    /\ reqs' = [r \in DOMAIN reqs |->
                  [reqs[r] EXCEPT !.status = IF @ = "submitting" THEN "manual_review" ELSE @,
                                  !.mark = 0]]
    /\ booting' = TRUE
    /\ UNCHANGED <<sub, cands, adms, library, unrecovered>>

\* Mutant: only what was dispatched is released.
ReleasableDispatched(a) ==
    a.status = "dispatching" /\ (a.request # 0 => reqs[a.request].status = "pending")

Releasable(a) ==
    /\ a.status \in {"claimed", "dispatching"}
    /\ a.request # 0 => reqs[a.request].status = "pending"

\* reconcile_startup_media_download_admissions runs while the first checks may
\* already have started.
ReconcileStartup ==
    /\ booting /\ booting' = FALSE
    /\ \/ /\ adms' = LET synced == Synced(adms, reqs, DOMAIN reqs)
                     IN  [i \in DOMAIN adms |-> IF Releasable(synced[i])
                                                THEN [synced[i] EXCEPT !.status = "released"]
                                                ELSE synced[i]]
          /\ UNCHANGED <<unrecovered, events>>
       \/ Event /\ unrecovered' = TRUE /\ UNCHANGED adms
    /\ UNCHANGED <<sub, cands, reqs, callers, library>>

-----------------------------------------------------------------------------
AdmInit ==
    /\ sub = [enabled |-> TRUE, rev |-> 1]
    /\ cands = [c \in Candidates |-> [status |-> "available", request |-> 0]]
    /\ adms = <<>> /\ reqs = <<>>
    /\ callers = [p \in Callers |-> IdleCaller]
    /\ library = {} /\ booting = FALSE /\ unrecovered = FALSE
    /\ events = 0

CallerStep(p) ==
    \/ Claim(p) \/ BeginDispatch(p) \/ Lookup(p) \/ BindExisting(p)
    \/ CreateRequest(p) \/ Dispatch(p) \/ Send(p) \/ Settle(p) \/ SyncResult(p)

AdmNext ==
    \/ ChangeSubscription \/ Reconcile \/ Restart \/ ReconcileStartup
    \/ \E k \in Keys : OfferCandidates(k) \/ LibraryGains(k)
    \/ \E p \in Callers : Begin(p) \/ CallerStep(p) \/ StopCaller(p) \/ Abandon(p)
    \/ \E r \in DOMAIN reqs :
         \/ Track(r) \/ PostprocessFails(r) \/ PostprocessResumes(r) \/ CancelPending(r)
         \/ RecoverStale(r) \/ Retry(r) \/ UserSubmitted(r) \/ MarkResubmitted(r)
    \/ \E res \in Resources : UserDownloads(res)

AdmSpec == AdmInit /\ [][AdmNext]_admVars

-----------------------------------------------------------------------------
(* Properties.                                                             *)

AdmTypeOK ==
    /\ sub \in [enabled : BOOLEAN, rev : Nat]
    /\ cands \in [Candidates -> [status : {"available", "expired", "submitted"}, request : Nat]]
    /\ adms \in Seq(Admission) /\ reqs \in Seq(Request)
    /\ callers \in [Callers -> Caller]
    /\ library \subseteq Keys /\ booting \in BOOLEAN /\ unrecovered \in BOOLEAN
    /\ events \in 0 .. MaxEvents

\* Two admissions never keep the same media key.
OneHolder == \A k \in Keys : Cardinality(Holders(adms, k)) <= 1

\* A download that was started for the subscription keeps its media key until it is
\* over, through retries, restarts and answers that nobody waited for; only the
\* recovery at start-up may have let it go.
DownloadHoldsKey ==
    \A r \in DOMAIN reqs : reqs[r].own /\ reqs[r].status \in UnderWay =>
        \E i \in DOMAIN adms : /\ adms[i].request = r
                               /\ adms[i].status \in ActiveAdmission \cup {"completed", "released"}

\* A media key is not kept for a submission that no longer exists: a caller is at
\* work on it, or the recovery at start-up is still to come or has failed.
ClaimIsWorkedOn ==
    \A i \in DOMAIN adms : Active(adms[i]) /\ adms[i].request = 0 =>
        \/ booting \/ unrecovered
        \/ \E p \in Callers : callers[p].adm = i /\ callers[p].pc \in {"begin", "submit", "bind"}
=============================================================================
