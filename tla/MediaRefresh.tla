---------------------------- MODULE MediaRefresh ----------------------------
(***************************************************************************)
(* The persistent media-library refresh queue and its coordinator thread.  *)
(*                                                                         *)
(* Producers (organize, STRM, local media) add changed paths to a group of *)
(* the queue, one SQLite transaction each.  One consumer at a time, the    *)
(* coordinator that holds the cross-process lock, claims the groups that   *)
(* are due, asks the media server to refresh the items the paths resolve   *)
(* to, and settles each group: completed, deferred or failed.              *)
(*                                                                         *)
(* Wall-clock instants are kept as the time that is left until them        *)
(* (0 means "now or past"), so that Tick moves every instant at once.      *)
(***************************************************************************)
EXTENDS Integers, FiniteSets

CONSTANTS
    Workers,      \* MediaFlux processes, each with one coordinator thread
    Groups,       \* (provider, allowed libraries, binding) combinations
    Paths,        \* changed media paths
    Targets,      \* provider-qualified ids of media-server items
    TargetOf,     \* [Groups -> [Paths -> Targets]], resolved by the server
    None,         \* no worker, no group
    Debounce,     \* quiet window after an enqueue
    RecentTTL,    \* how long a refreshed item is not refreshed again
    RetryBase,    \* first delay after a failure
    BackoffCap,   \* failures after which the delay stops growing
    LeaseTime,    \* how long a claim lasts
    ClaimLimit,   \* groups claimed by one poll
    GenWrap,      \* bound: lease generations are counted modulo this
    MaxEnqueues,  \* bound: how often producers enqueue
    MaxFaults     \* bound: server, database and process faults

ASSUME MediaRefreshAssumption ==
    /\ None \notin Workers \cup Groups
    /\ TargetOf \in [Groups -> [Paths -> Targets]]
    /\ Debounce \in Nat
    /\ RecentTTL \in Nat \ {0}
    /\ RetryBase \in Nat \ {0}
    /\ BackoffCap \in Nat
    /\ LeaseTime \in Nat \ {0}
    /\ ClaimLimit \in Nat \ {0}
    /\ GenWrap \in Nat \ {0}
    /\ MaxEnqueues \in Nat
    /\ MaxFaults \in Nat

\* A fact of arithmetic that the provers do not know.
ASSUME PowersAssumption == \A n \in 0 .. BackoffCap : 2^n \in Nat

VARIABLES
    \* The JSON row of settings_kv: state["groups"] and state["recent"].
    status,     \* "absent" when the group has no entry
    pending,    \* pending_paths
    inflight,   \* inflight_paths
    due,        \* time left until due_at
    attempts,   \* saturates at BackoffCap
    owner,      \* lease_owner
    lease,      \* time left until lease_until
    gen,        \* lease_generation
    recent,     \* time left until an item may be refreshed again
    \* The coordinators.
    lock,       \* holder of the "media-refresh-coordinator" process lock
    pc,         \* where each coordinator's loop is
    stopping,   \* the stop event
    batch,      \* claimed groups still to be processed
    claimGen,   \* lease_generation of each claimed group
    cur,        \* the group being processed
    skip,       \* recent ids read before the server is called
    outcome,    \* what the server's answer makes of the claim
    succeeded,  \* items the server accepted
    \* What producers are owed, and the bounds.
    fresh,      \* <<g, p>> enqueued and not refreshed since
    enqueues,
    faults

queueVars == <<status, pending, inflight, due, attempts, owner, lease, gen>>
workVars  == <<batch, claimGen, cur, skip, outcome, succeeded>>
vars == <<queueVars, recent, lock, pc, stopping, workVars, fresh, enqueues, faults>>

-----------------------------------------------------------------------------
Statuses == {"absent", "queued", "running", "retry_wait"}
Outcomes == {"completed", "deferred", "failed"}
Places   == {"off", "locking", "first", "recover", "top", "poll", "fetch",
             "call", "settle"}

MinOf(a, b) == IF a < b THEN a ELSE b

TargetsOf(g, P) == {TargetOf[g][p] : p \in P}

\* _retry_seconds: the delay doubles with every failure up to a cap.
RetryDelay(a) == RetryBase * 2^MinOf(a, BackoffCap)

\* The paths the queue holds, by group.
Held(g) == pending[g] \cup inflight[g]
Todo == {x \in Groups \X Paths : x[2] \in Held(x[1])}

\* Changes that a refresh of the items S makes visible to the server.
Served(S) == {x \in Groups \X Paths : TargetOf[x[1]][x[2]] \in S}

-----------------------------------------------------------------------------
Init ==
    /\ status = [g \in Groups |-> "absent"]
    /\ pending = [g \in Groups |-> {}]
    /\ inflight = [g \in Groups |-> {}]
    /\ due = [g \in Groups |-> 0]
    /\ attempts = [g \in Groups |-> 0]
    /\ owner = [g \in Groups |-> None]
    /\ lease = [g \in Groups |-> 0]
    /\ gen = [g \in Groups |-> 0]
    /\ recent = [t \in Targets |-> 0]
    /\ lock = None
    /\ pc = [w \in Workers |-> "off"]
    /\ stopping = [w \in Workers |-> FALSE]
    /\ batch = [w \in Workers |-> {}]
    /\ claimGen = [w \in Workers |-> [g \in Groups |-> 0]]
    /\ cur = [w \in Workers |-> None]
    /\ skip = [w \in Workers |-> {}]
    /\ outcome = [w \in Workers |-> "failed"]
    /\ succeeded = [w \in Workers |-> {}]
    /\ fresh = {}
    /\ enqueues = 0
    /\ faults = 0

\* Mutant: the producer reclaims a lease that ran out.
EnqueueReclaims(g, P) ==
    /\ P # {}
    /\ enqueues < MaxEnqueues
    /\ enqueues' = enqueues + 1
    /\ pending' = [pending EXCEPT ![g] = @ \cup P]
    /\ status' = [status EXCEPT ![g] =
                    IF @ = "running" /\ lease[g] > 0 THEN @ ELSE "queued"]
    /\ due' = [due EXCEPT ![g] = Debounce]
    /\ fresh' = fresh \cup ({g} \X P)
    /\ UNCHANGED <<inflight, attempts, owner, lease, gen, recent, lock, pc,
                   stopping, workVars, faults>>

\* enqueue_media_refresh: new paths only ever go to pending; a running claim
\* keeps its status and its inflight paths.
Enqueue(g, P) ==
    /\ P # {}
    /\ enqueues < MaxEnqueues
    /\ enqueues' = enqueues + 1
    /\ pending' = [pending EXCEPT ![g] = @ \cup P]
    /\ status' = [status EXCEPT ![g] = IF @ = "running" THEN @ ELSE "queued"]
    /\ due' = [due EXCEPT ![g] = Debounce]
    /\ fresh' = fresh \cup ({g} \X P)
    /\ UNCHANGED <<inflight, attempts, owner, lease, gen, recent, lock, pc,
                   stopping, workVars, faults>>

-----------------------------------------------------------------------------
\* The coordinator's life cycle.

Start(w) ==
    /\ pc[w] = "off"
    /\ pc' = [pc EXCEPT ![w] = "locking"]
    /\ stopping' = [stopping EXCEPT ![w] = FALSE]
    /\ UNCHANGED <<queueVars, recent, lock, workVars, fresh, enqueues, faults>>

Stop(w) ==
    /\ pc[w] # "off"
    /\ ~stopping[w]
    /\ faults < MaxFaults
    /\ faults' = faults + 1
    /\ stopping' = [stopping EXCEPT ![w] = TRUE]
    /\ UNCHANGED <<queueVars, recent, lock, pc, workVars, fresh, enqueues>>

AcquireLock(w) ==
    /\ pc[w] = "locking"
    /\ ~stopping[w]
    /\ lock = None
    /\ lock' = w
    /\ pc' = [pc EXCEPT ![w] = "first"]
    /\ UNCHANGED <<queueVars, recent, stopping, workVars, fresh, enqueues, faults>>

\* The test at the head of _loop.  A stop that comes later in the round is
\* noticed only after the claim, and after the first claimed group.
CheckStop(w) ==
    /\ pc[w] \in {"first", "top"}
    /\ ~stopping[w]
    /\ pc' = [pc EXCEPT ![w] = IF @ = "first" THEN "recover" ELSE "poll"]
    /\ UNCHANGED <<queueVars, recent, lock, stopping, workVars, fresh, enqueues,
                   faults>>

\* The loop's exit: the thread ends and, if it holds the lock, releases it.
Exit(w) ==
    /\ pc[w] \in {"locking", "first", "top"}
    /\ stopping[w]
    /\ pc' = [pc EXCEPT ![w] = "off"]
    /\ lock' = IF lock = w THEN None ELSE lock
    /\ UNCHANGED <<queueVars, recent, stopping, workVars, fresh, enqueues, faults>>

\* The process dies: the operating system drops its file lock, and what it
\* had claimed stays "running" in the database.
Crash(w) ==
    /\ pc[w] # "off"
    /\ faults < MaxFaults
    /\ faults' = faults + 1
    /\ pc' = [pc EXCEPT ![w] = "off"]
    /\ lock' = IF lock = w THEN None ELSE lock
    /\ batch' = [batch EXCEPT ![w] = {}]
    /\ cur' = [cur EXCEPT ![w] = None]
    /\ UNCHANGED <<queueVars, recent, stopping, claimGen, skip, outcome,
                   succeeded, fresh, enqueues>>

-----------------------------------------------------------------------------
\* _recover_running_groups on the groups R: inflight paths go back in front
\* of the pending ones and the lease is cleared.
Recovered(R) ==
    [st  |-> [g \in Groups |-> IF g \in R THEN "retry_wait" ELSE status[g]],
     pn  |-> [g \in Groups |-> IF g \in R THEN Held(g) ELSE pending[g]],
     inf |-> [g \in Groups |-> IF g \in R THEN {} ELSE inflight[g]],
     due |-> [g \in Groups |-> IF g \in R THEN 0 ELSE due[g]],
     own |-> [g \in Groups |-> IF g \in R THEN None ELSE owner[g]],
     ls  |-> [g \in Groups |-> IF g \in R THEN 0 ELSE lease[g]]]

\* recover_media_refresh_leases, once per lock ownership, whatever the lease.
Recover(w) ==
    LET q == Recovered({g \in Groups : status[g] = "running"}) IN
    /\ pc[w] = "recover"
    /\ status' = q.st
    /\ pending' = q.pn
    /\ inflight' = q.inf
    /\ due' = q.due
    /\ owner' = q.own
    /\ lease' = q.ls
    /\ pc' = [pc EXCEPT ![w] = "poll"]
    /\ UNCHANGED <<attempts, gen, recent, lock, stopping, workVars, fresh,
                   enqueues, faults>>

\* Mutant: a running group is never reclaimed by its own consumer.
NoneExpired == {}

\* claim_due_media_refreshes: recover expired leases, then claim C.
Expired == {g \in Groups : status[g] = "running" /\ lease[g] = 0}

\* Mutant: groups waiting for a retry are forgotten.
DueQueuedOnly(q) == {g \in Groups : /\ q.st[g] = "queued"
                                    /\ q.pn[g] # {}
                                    /\ q.due[g] = 0}

Due(q) == {g \in Groups : /\ q.st[g] \in {"queued", "retry_wait"}
                          /\ q.pn[g] # {}
                          /\ q.due[g] = 0}

Claim(w, C) ==
    LET q == Recovered(Expired) IN
    /\ pc[w] = "poll"
    /\ C \subseteq Due(q)
    /\ Cardinality(C) = MinOf(ClaimLimit, Cardinality(Due(q)))
    /\ C # {}
    /\ status' = [g \in Groups |-> IF g \in C THEN "running" ELSE q.st[g]]
    /\ inflight' = [g \in Groups |-> IF g \in C THEN q.pn[g] ELSE q.inf[g]]
    /\ pending' = [g \in Groups |-> IF g \in C THEN {} ELSE q.pn[g]]
    /\ owner' = [g \in Groups |-> IF g \in C THEN w ELSE q.own[g]]
    /\ lease' = [g \in Groups |-> IF g \in C THEN LeaseTime ELSE q.ls[g]]
    /\ gen' = [g \in Groups |-> IF g \in C THEN (gen[g] + 1) % GenWrap ELSE gen[g]]
    /\ due' = q.due
    /\ claimGen' = [claimGen EXCEPT ![w] =
                        [g \in Groups |-> IF g \in C THEN gen'[g] ELSE @[g]]]
    /\ \E g \in C :
        /\ cur' = [cur EXCEPT ![w] = g]
        /\ batch' = [batch EXCEPT ![w] = C \ {g}]
    /\ pc' = [pc EXCEPT ![w] = "fetch"]
    /\ UNCHANGED <<attempts, recent, lock, stopping, skip, outcome, succeeded,
                   fresh, enqueues, faults>>

\* A poll that claims nothing.
Idle(w) ==
    /\ pc[w] = "poll"
    /\ Due(Recovered(Expired)) = {}
    /\ pc' = [pc EXCEPT ![w] = "top"]
    /\ UNCHANGED <<queueVars, recent, lock, stopping, workVars, fresh, enqueues,
                   faults>>

-----------------------------------------------------------------------------
\* _process_group.

\* The client exists and the binding resolves: read what to skip.
ReadRecent(w) ==
    /\ pc[w] = "fetch"
    /\ skip' = [skip EXCEPT ![w] = {t \in Targets : recent[t] > 0}]
    /\ pc' = [pc EXCEPT ![w] = "call"]
    /\ UNCHANGED <<queueVars, recent, lock, stopping, batch, claimGen, cur,
                   outcome, succeeded, fresh, enqueues, faults>>

\* No client, or the binding is no longer valid: nothing is refreshed.
NoClient(w) ==
    /\ pc[w] = "fetch"
    /\ faults < MaxFaults
    /\ faults' = faults + 1
    /\ outcome' = [outcome EXCEPT ![w] = "failed"]
    /\ succeeded' = [succeeded EXCEPT ![w] = {}]
    /\ pc' = [pc EXCEPT ![w] = "settle"]
    /\ UNCHANGED <<queueVars, recent, lock, stopping, batch, claimGen, cur,
                   skip, fresh, enqueues>>

Wanted(w) == TargetsOf(cur[w], inflight[cur[w]])

\* Mutant: skipped items count as refreshed.
AlwaysCompleted(w) == "completed"

\* Items inside the recent window were not requested: the claim is deferred.
CallOutcome(w) == IF Wanted(w) \cap skip[w] # {} THEN "deferred" ELSE "completed"

\* refresh_for_paths with every request accepted.
CallOK(w) ==
    /\ pc[w] = "call"
    /\ LET done == Wanted(w) \ skip[w] IN
        /\ fresh' = fresh \ Served(done)
        /\ succeeded' = [succeeded EXCEPT ![w] = done]
    /\ outcome' = [outcome EXCEPT ![w] = CallOutcome(w)]
    /\ pc' = [pc EXCEPT ![w] = "settle"]
    /\ UNCHANGED <<queueVars, recent, lock, stopping, batch, claimGen, cur,
                   skip, enqueues, faults>>

\* refresh_for_paths after which some path is still unresolved or some request
\* was refused; or an exception, in the call or in the settling after it, that
\* loses the list of the accepted items (known = {}).
CallFailed(w, done, known) ==
    /\ pc[w] = "call"
    /\ faults < MaxFaults
    /\ faults' = faults + 1
    /\ done \subseteq Wanted(w) \ skip[w]
    /\ known \in {done, {}}
    /\ fresh' = fresh \ Served(done)
    /\ succeeded' = [succeeded EXCEPT ![w] = known]
    /\ outcome' = [outcome EXCEPT ![w] = "failed"]
    /\ pc' = [pc EXCEPT ![w] = "settle"]
    /\ UNCHANGED <<queueVars, recent, lock, stopping, batch, claimGen, cur,
                   skip, enqueues>>

\* The rest of the batch, or back to polling; a stop breaks out of the batch
\* and leaves the unprocessed claims "running".
NextOfBatch(w) ==
    \/ /\ batch[w] # {}
       /\ ~stopping[w]
       /\ \E g \in batch[w] :
            /\ cur' = [cur EXCEPT ![w] = g]
            /\ batch' = [batch EXCEPT ![w] = @ \ {g}]
       /\ pc' = [pc EXCEPT ![w] = "fetch"]
    \/ /\ batch[w] = {} \/ stopping[w]
       /\ cur' = [cur EXCEPT ![w] = None]
       /\ batch' = [batch EXCEPT ![w] = {}]
       /\ pc' = [pc EXCEPT ![w] = "top"]

\* The lease check of settle_media_refresh.
LeaseHolds(w, g) ==
    /\ status[g] = "running"
    /\ owner[g] = w
    /\ gen[g] = claimGen[w][g]

\* Mutant: a deferred or failed claim gives up its inflight paths.
PendingKept(g, out) == pending[g]

\* A completed claim consumes its inflight paths only; others keep every path.
Kept(g, out) == IF out = "completed" THEN pending[g] ELSE Held(g)

\* settle_media_refresh of group g: a completed group without new paths is
\* removed.
Settled(g, out) ==
    LET gone == out = "completed" /\ pending[g] = {} IN
    /\ status' = [status EXCEPT ![g] =
                    IF gone THEN "absent"
                    ELSE IF out = "completed" THEN "queued" ELSE "retry_wait"]
    /\ pending' = [pending EXCEPT ![g] = Kept(g, out)]
    /\ inflight' = [inflight EXCEPT ![g] = {}]
    /\ due' = [due EXCEPT ![g] =
                    CASE gone -> 0
                      [] out = "deferred" -> RecentTTL
                      [] out = "failed" -> RetryDelay(attempts[g])
                      [] OTHER -> @]
    /\ attempts' = [attempts EXCEPT ![g] =
                    CASE out = "completed" -> 0
                      [] out = "failed" -> MinOf(@ + 1, BackoffCap)
                      [] OTHER -> @]
    /\ owner' = [owner EXCEPT ![g] = None]
    /\ lease' = [lease EXCEPT ![g] = 0]
    /\ gen' = [gen EXCEPT ![g] = IF gone THEN 0 ELSE @]

Settle(w) ==
    /\ pc[w] = "settle"
    /\ LET g == cur[w] IN
        \/ /\ LeaseHolds(w, g)
           /\ Settled(g, outcome[w])
           /\ recent' = [t \in Targets |->
                            IF t \in succeeded[w] THEN RecentTTL ELSE recent[t]]
        \/ /\ ~LeaseHolds(w, g)
           /\ UNCHANGED <<queueVars, recent>>
    /\ NextOfBatch(w)
    /\ UNCHANGED <<lock, stopping, claimGen, skip, outcome, succeeded, fresh,
                   enqueues, faults>>

\* The settling transaction fails: the group stays "running" until its lease
\* runs out.
SettleFailed(w) ==
    /\ pc[w] = "settle"
    /\ faults < MaxFaults
    /\ faults' = faults + 1
    /\ NextOfBatch(w)
    /\ UNCHANGED <<queueVars, recent, lock, stopping, claimGen, skip, outcome,
                   succeeded, fresh, enqueues>>

-----------------------------------------------------------------------------
\* Mutant: the time left goes below zero.
LessUnclamped(n) == n - 1

Less(n) == IF n = 0 THEN 0 ELSE n - 1

\* One unit of time passes.
Tick ==
    /\ \/ \E g \in Groups : due[g] > 0 \/ lease[g] > 0
       \/ \E t \in Targets : recent[t] > 0
    /\ due' = [g \in Groups |-> Less(due[g])]
    /\ lease' = [g \in Groups |-> Less(lease[g])]
    /\ recent' = [t \in Targets |-> Less(recent[t])]
    /\ UNCHANGED <<status, pending, inflight, attempts, owner, gen, lock, pc,
                   stopping, workVars, fresh, enqueues, faults>>

\* What the coordinator thread does on its own.
Work(w) ==
    \/ AcquireLock(w)
    \/ CheckStop(w)
    \/ Exit(w)
    \/ Recover(w)
    \/ \E C \in SUBSET Groups : Claim(w, C)
    \/ Idle(w)
    \/ ReadRecent(w)
    \/ CallOK(w)
    \/ Settle(w)

Fault(w) ==
    \/ Stop(w)
    \/ Crash(w)
    \/ NoClient(w)
    \/ \E done, known \in SUBSET Targets : CallFailed(w, done, known)
    \/ SettleFailed(w)

Next ==
    \/ \E g \in Groups, P \in SUBSET Paths : Enqueue(g, P)
    \/ \E w \in Workers : Start(w) \/ Work(w) \/ Fault(w)
    \/ Tick

Spec == Init /\ [][Next]_vars

\* Time passes, the service manager restarts the process, and the thread runs.
Fairness ==
    /\ WF_vars(Tick)
    /\ \A w \in Workers : WF_vars(Start(w)) /\ WF_vars(Work(w))

FairSpec == Spec /\ Fairness

-----------------------------------------------------------------------------
TypeOK ==
    /\ status \in [Groups -> Statuses]
    /\ pending \in [Groups -> SUBSET Paths]
    /\ inflight \in [Groups -> SUBSET Paths]
    /\ due \in [Groups -> Nat]
    /\ attempts \in [Groups -> 0 .. BackoffCap]
    /\ owner \in [Groups -> Workers \cup {None}]
    /\ lease \in [Groups -> Nat]
    /\ gen \in [Groups -> 0 .. GenWrap]
    /\ recent \in [Targets -> Nat]
    /\ lock \in Workers \cup {None}
    /\ pc \in [Workers -> Places]
    /\ stopping \in [Workers -> BOOLEAN]
    /\ batch \in [Workers -> SUBSET Groups]
    /\ claimGen \in [Workers -> [Groups -> 0 .. GenWrap]]
    /\ cur \in [Workers -> Groups \cup {None}]
    /\ skip \in [Workers -> SUBSET Targets]
    /\ outcome \in [Workers -> Outcomes]
    /\ succeeded \in [Workers -> SUBSET Targets]
    /\ fresh \in SUBSET (Groups \X Paths)
    /\ enqueues \in 0 .. MaxEnqueues
    /\ faults \in 0 .. MaxFaults

-----------------------------------------------------------------------------
Claims(w) == batch[w] \cup ({cur[w]} \ {None})

\* "Completing consumes only the inflight paths" (settle_media_refresh): a
\* change that was enqueued and not refreshed since is still in the queue,
\* whatever producers, failures, deferrals, crashes and recoveries interleave.
NoLostChange == fresh \subseteq Todo

\* Recovery is left to the holder of the consumer lock, so nobody takes a claim
\* away from a coordinator that is still working on it, even when its lease has
\* run out: settle_media_refresh never finds the claim in other hands.
ClaimsStayValid ==
    \A w \in Workers : \A g \in Claims(w) : LeaseHolds(w, g)

\* The queue keeps the promise of a durable work queue: an item leaves it only
\* after it was carried out since it was last asked for.
DI == INSTANCE DurableIntent WITH Items <- Groups \X Paths, todo <- Todo
KeepsIntent == DI!Spec

\* Once producers and faults stop, every enqueued path is confirmed and its
\* group leaves the queue.
QueueDrains == <>[](\A g \in Groups : status[g] = "absent")

\* "Calibrate once more after the window" (_process_group): a group that was
\* deferred because an item was refreshed recently is confirmed in the end.
DeferralEnds ==
    \A g \in Groups : status[g] = "retry_wait" ~> status[g] = "absent"

\* Every change is made visible to the media server, by some refresh issued
\* after the change was enqueued.
EveryChangeServed ==
    \A g \in Groups, p \in Paths : <<g, p>> \in fresh ~> <<g, p>> \notin fresh

=============================================================================
