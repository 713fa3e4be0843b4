------------------------- MODULE OrganizeJobsProofs -------------------------
(***************************************************************************)
(* Nothing is sent to the cloud twice, and the queue tells the truth of    *)
(* what was cancelled and what was completed, for any jobs, plans, faults  *)
(* and bounds.                                                             *)
(***************************************************************************)
EXTENDS OrganizeJobs, TLAPS, SequenceTheorems, WellFoundedInduction, FiniteSetTheorems

\* The outcomes that are known.
Ended == {"completed", "failed", "blocked"}

\* Where the worker has its plan in hand, and where it has an operation in hand.
Inside == Places \ {"idle", "load", "finish"}
Placed == {"clear", "intended", "send", "receipt", "verify", "lost", "settle"}

CloudStates == {"none", "running", "done", "failed"}

PlanOf(j) == [status : PlanStatuses, items : [Ops(j) -> Items], logged : BOOLEAN,
              torn : BOOLEAN, finalizing : BOOLEAN]

\* The types, and that the tables are functions.
Shape ==
    /\ JobsTypeOK
    /\ plan = [j \in Jobs |-> plan[j]] /\ cloud = [j \in Jobs |-> cloud[j]]
    /\ sent = [j \in Jobs |-> sent[j]]

Done(j) == \A i \in Ops(j) : cloud[j][i] = "done"
Still(j) == \A i \in Ops(j) : cloud[j][i] # "running"

\* Outcomes that do not contradict the cloud.
Truthful(j, items) ==
    \A i \in Ops(j) :
        /\ sent[j][i] > 0 => items[i] # "not_started"
        /\ cloud[j][i] = "running" => items[i] \in InFlight
        /\ items[i] = "completed" => cloud[j][i] = "done"

\* A job's plan p: it tells what was sent, and what it announces is there.
PlanFine(j, p) ==
    /\ Truthful(j, p.items)
    /\ p.status = "completed" => Done(j)
    /\ p.status = "queued" => \A i \in Ops(j) : p.items[i] = "not_started"
    /\ triggered[j] > 0 => p.finalizing

\* A job's row r: what it says of its copies and operations holds.
RowFine(j, r) ==
    /\ \A i \in Ops(j) : cloud[j][i] = "running" => Plans[j][i] = "copy" /\ r.started
    /\ r.status = "completed" => Done(j)
    /\ r.status = "cancelled" \/ (r.cancel /\ ~r.purged) => Still(j)

\* A job that was not accepted has a plan that was not executed.
AbsentFine(j, r, p) ==
    r.status = "absent" => \A i \in Ops(j) : p.items[i] = "not_started"

\* The worker has its plan in hand, and the operations that are not in its hands are
\* known unless it knows that something is not.
InHand(w, p) ==
    /\ p.status = "running" /\ w.finalizing = p.finalizing
    /\ w.items \in [Ops(w.job) -> Items]
    /\ Truthful(w.job, w.items)
    /\ w.pc \in Placed => w.at \in Ops(w.job)
    /\ w.pc = "look" => Todo(w.items) # {}
    /\ w.pc \in Placed \cup {"look"} /\ ~w.uncertain =>
         \A i \in Ops(w.job) : w.pc = "look" \/ i # w.at =>
             w.items[i] \in Ended \cup {"not_started"}
    /\ w.pc = "settle" /\ ~w.uncertain => w.items[w.at] \in Ended
    /\ w.pc \in {"final", "trigger", "close"} /\ ~w.uncertain =>
         \A i \in Ops(w.job) : w.items[i] \in Ended

\* What is about to leave was announced before and never left.
Announced(w, r, p) ==
    /\ w.pc = "clear" => w.items[w.at] = "not_started"
    /\ w.pc \in {"intended", "send"} =>
         /\ w.items[w.at] = "unknown" /\ p.items[w.at] = "unknown"
         /\ sent[w.job][w.at] = 0
    /\ w.pc = "send" /\ Plans[w.job][w.at] = "copy" /\ r.cancel => r.purged
    /\ w.pc = "trigger" => w.finalizing /\ triggered[w.job] = 0

\* The worker w holds the lease of its row, and reports what is true.
WorkerFine(w, r, p) ==
    /\ r.status = "running" /\ r.gen = w.gen /\ r.started
    /\ w.pc \in Inside => InHand(w, p)
    /\ Announced(w, r, p)
    /\ w.pc = "finish" /\ w.result = "completed" => Done(w.job)
    /\ w.pc = "finish" /\ w.result = "cancelled" => r.cancel

IInv ==
    /\ Shape /\ SentOnce
    /\ \A j \in Jobs : /\ PlanFine(j, plan[j]) /\ RowFine(j, job[j])
                       /\ AbsentFine(j, job[j], plan[j])
    /\ worker.pc # "idle" => WorkerFine(worker, job[mine], plan[mine])

-----------------------------------------------------------------------------
(* Outcomes as sequences, and the first operation that was not started.    *)

LEMMA ItemsAreSeq ==
  ASSUME NEW j \in Jobs, NEW items \in [Ops(j) -> Items]
  PROVE  items \in Seq(Items)
<1>1. Len(Plans[j]) \in Nat
  BY OrganizeAssumption
<1> QED  BY <1>1, SeqDef DEF Ops

LEMMA OpsAreNumbers ==
  ASSUME NEW j \in Jobs
  PROVE  Ops(j) \subseteq Nat
<1>1. Len(Plans[j]) \in Nat
  BY OrganizeAssumption
<1> QED  BY <1>1 DEF Ops

LEMMA FirstTodo ==
  ASSUME NEW j \in Jobs, NEW items \in [Ops(j) -> Items], Todo(items) # {}
  PROVE  /\ Min(Todo(items)) \in Ops(j) /\ Min(Todo(items)) \in Nat
         /\ items[Min(Todo(items))] = "not_started"
<1> DEFINE T == Todo(items)
<1>1. T \subseteq Ops(j) /\ \A i \in T : items[i] = "not_started"
  BY DEF Todo
<1>2. T \subseteq Nat
  BY <1>1, OpsAreNumbers
<1>3. PICK x \in T : \A y \in T : ~ (<<y, x>> \in OpToRel(<, Nat))
  <2>1. T # {} OBVIOUS
  <2> HIDE DEF T
  <2> QED  BY <1>2, <2>1, NatLessThanWellFounded, WFMin, Zenon
<1>4. \A y \in T : x =< y
  <2> TAKE y \in T
  <2>1. x \in Nat /\ y \in Nat
    BY <1>2
  <2>2. ~(y < x)
    <3> HIDE DEF T
    <3> QED  BY <1>3, <2>1 DEF OpToRel
  <2> QED  BY <2>1, <2>2
<1>5. Min(T) \in T
  BY <1>4, Zenon DEF Min
<1> QED  BY <1>1, <1>2, <1>5

-----------------------------------------------------------------------------
(* Steps that leave the cloud alone.                                       *)

CloudIsLeft == UNCHANGED <<cloud, sent, triggered>>

LEMMA ShapeParts ==
  ASSUME Shape
  PROVE  /\ job \in [Jobs -> Job] /\ \A j \in Jobs : plan[j] \in PlanOf(j)
         /\ plan = [j \in Jobs |-> plan[j]] /\ worker \in {NoJob} \cup Working
         /\ jobTroubles \in 0 .. MaxTroubles
  BY DEF Shape, JobsTypeOK, PlanOf

LEMMA ShapeKept ==
  ASSUME Shape, CloudIsLeft,
         job' \in [Jobs -> Job], plan' = [j \in Jobs |-> plan'[j]],
         \A j \in Jobs : plan'[j] \in PlanOf(j),
         worker' \in {NoJob} \cup Working, jobTroubles' \in 0 .. MaxTroubles
  PROVE  Shape'
  BY DEF Shape, JobsTypeOK, PlanOf, CloudIsLeft

\* The cloud does not move, so it is enough to look at the rows, the plans and the
\* worker.
LEMMA LocalStep ==
  ASSUME IInv, CloudIsLeft, Shape',
         \A j \in Jobs : /\ PlanFine(j, plan'[j]) /\ RowFine(j, job'[j])
                         /\ AbsentFine(j, job'[j], plan'[j]),
         worker'.pc # "idle" => WorkerFine(worker', job'[worker'.job], plan'[worker'.job])
  PROVE  IInv'
<1>1. SentOnce'
  BY DEF IInv, SentOnce, CloudIsLeft
<1>2. \A j \in Jobs : PlanFine(j, plan[j])' /\ RowFine(j, job[j])' /\ AbsentFine(j, job[j], plan[j])'
  BY DEF CloudIsLeft, PlanFine, RowFine, AbsentFine, Truthful, Done, Still
<1>3. (worker.pc # "idle" => WorkerFine(worker, job[mine], plan[mine]))'
  BY DEF CloudIsLeft, WorkerFine, InHand, Announced, Truthful, Done, mine
<1> QED  BY <1>1, <1>2, <1>3, Zenon DEF IInv

\* Nobody but k's worker moves.
PlanGoes(k, status, items, finalizing) ==
    /\ plan' = [j \in Jobs |-> plan'[j]]
    /\ \A j \in Jobs : j # k => plan'[j] = plan[j]
    /\ plan'[k] \in PlanOf(k)
    /\ plan'[k].status = status /\ plan'[k].items = items
    /\ plan'[k].finalizing = finalizing

LEMMA AtWork ==
  ASSUME IInv, worker.pc # "idle"
  PROVE  /\ worker \in Working /\ mine \in Jobs /\ job[mine] \in Job /\ plan[mine] \in PlanOf(mine)
         /\ WorkerFine(worker, job[mine], plan[mine])
         /\ PlanFine(mine, plan[mine]) /\ RowFine(mine, job[mine])
         /\ jobTroubles \in 0 .. MaxTroubles
<1>1. worker \in Working
  BY DEF IInv, Shape, JobsTypeOK, NoJob
<1>2. mine \in Jobs
  BY <1>1 DEF Working, mine
<1> QED  BY <1>1, <1>2, ShapeParts DEF IInv

\* A step of the worker that stays with its row.
LEMMA WorkerStep ==
  ASSUME IInv, worker.pc # "idle", CloudIsLeft, job' = job,
         NEW status, NEW items, NEW finalizing, PlanGoes(mine, status, items, finalizing),
         jobTroubles' \in 0 .. MaxTroubles,
         worker' \in Working, worker'.job = mine,
         PlanFine(mine, plan'[mine]), WorkerFine(worker', job[mine], plan'[mine])
  PROVE  IInv'
<1>1. mine \in Jobs /\ job[mine].status = "running"
  BY AtWork DEF WorkerFine
<1>2. Shape'
  <2>1. \A j \in Jobs : plan'[j] \in PlanOf(j)
    BY ShapeParts DEF IInv, PlanGoes
  <2> QED  BY <2>1, ShapeParts, ShapeKept DEF IInv, PlanGoes
<1>3. \A j \in Jobs : /\ PlanFine(j, plan'[j]) /\ RowFine(j, job'[j])
                      /\ AbsentFine(j, job'[j], plan'[j])
  BY <1>1 DEF IInv, PlanGoes, AbsentFine
<1> QED  BY <1>2, <1>3, LocalStep

\* The worker lets go of its row, which stays as it is.
LEMMA WorkerGone ==
  ASSUME IInv, worker.pc # "idle", CloudIsLeft, job' = job,
         NEW status, NEW items, NEW finalizing, PlanGoes(mine, status, items, finalizing),
         jobTroubles' \in 0 .. MaxTroubles, worker' = NoJob, PlanFine(mine, plan'[mine])
  PROVE  IInv'
<1>1. mine \in Jobs /\ job[mine].status = "running"
  BY AtWork DEF WorkerFine
<1>2. Shape'
  <2>1. \A j \in Jobs : plan'[j] \in PlanOf(j)
    BY ShapeParts DEF IInv, PlanGoes
  <2> QED  BY <2>1, ShapeParts, ShapeKept DEF IInv, PlanGoes
<1>3. \A j \in Jobs : /\ PlanFine(j, plan'[j]) /\ RowFine(j, job'[j])
                      /\ AbsentFine(j, job'[j], plan'[j])
  BY <1>1 DEF IInv, PlanGoes, AbsentFine
<1> QED  BY <1>2, <1>3, LocalStep DEF NoJob

-----------------------------------------------------------------------------
(* What the writes of the plan file do.                                    *)

LEMMA SamePlan ==
  ASSUME IInv, worker.pc # "idle", plan' = plan
  PROVE  PlanGoes(mine, plan[mine].status, plan[mine].items, plan[mine].finalizing)
  BY ShapeParts, AtWork DEF IInv, PlanGoes

LEMMA CheckpointPlan ==
  ASSUME IInv, worker.pc # "idle", NEW items \in [Ops(mine) -> Items], Checkpoint(items)
  PROVE  PlanGoes(mine, plan[mine].status, items, plan[mine].finalizing)
<1>1. plan = [j \in Jobs |-> plan[j]] /\ mine \in Jobs /\ plan[mine] \in PlanOf(mine)
  BY ShapeParts, AtWork DEF IInv
<1> QED  BY <1>1 DEF Checkpoint, PlanGoes, PlanOf

LEMMA TornPlan ==
  ASSUME IInv, worker.pc # "idle", CheckpointFails
  PROVE  /\ PlanGoes(mine, plan[mine].status, plan[mine].items, plan[mine].finalizing)
         /\ jobTroubles' \in 0 .. MaxTroubles
<1>1. /\ plan = [j \in Jobs |-> plan[j]] /\ mine \in Jobs /\ plan[mine] \in PlanOf(mine)
      /\ jobTroubles \in 0 .. MaxTroubles
  BY ShapeParts, AtWork DEF IInv
<1>2. jobTroubles' \in 0 .. MaxTroubles
  BY <1>1, OrganizeAssumption DEF CheckpointFails, JobTrouble
<1>3. PICK torn \in BOOLEAN : plan' = [plan EXCEPT ![mine].torn = torn]
  BY DEF CheckpointFails
<1> QED  BY <1>1, <1>2, <1>3 DEF PlanGoes, PlanOf

LEMMA RewrittenPlan ==
  ASSUME IInv, worker.pc # "idle", NEW status \in PlanStatuses, NEW items \in [Ops(mine) -> Items],
         Rewritten(status, items)
  PROVE  PlanGoes(mine, status, items, plan[mine].finalizing)
<1>1. plan = [j \in Jobs |-> plan[j]] /\ mine \in Jobs /\ plan[mine] \in PlanOf(mine)
  BY ShapeParts, AtWork DEF IInv
<1> QED  BY <1>1 DEF Rewritten, PlanGoes, PlanOf

LEMMA TroubleCount ==
  ASSUME IInv, NEW j, JobTrouble(j)
  PROVE  jobTroubles' \in 0 .. MaxTroubles
  BY ShapeParts, OrganizeAssumption DEF IInv, JobTrouble

-----------------------------------------------------------------------------
(* The worker's record.                                                    *)

LEMMA GoesWorker ==
  ASSUME worker \in Working, NEW pc \in Places \ {"idle"}, Goes(pc)
  PROVE  /\ worker' \in Working /\ worker'.pc = pc
         /\ worker'.job = worker.job /\ worker'.gen = worker.gen /\ worker'.items = worker.items
         /\ worker'.at = worker.at /\ worker'.uncertain = worker.uncertain
         /\ worker'.finalizing = worker.finalizing
  BY DEF Goes, Working

LEMMA EndsWorker ==
  ASSUME worker \in Working, NEW result \in Terminal, Ends(result)
  PROVE  /\ worker' \in Working /\ worker'.pc = "finish" /\ worker'.result = result
         /\ worker'.job = worker.job /\ worker'.gen = worker.gen
  BY DEF Ends, Working, Places

LEMMA GivesUpWorker ==
  ASSUME worker \in Working, NEW items \in Seq(Items), GivesUp(items)
  PROVE  /\ worker' \in Working /\ worker'.pc = "final" /\ worker'.items = items
         /\ worker'.job = worker.job /\ worker'.gen = worker.gen
         /\ worker'.uncertain /\ worker'.finalizing = worker.finalizing
  BY DEF GivesUp, Working, Places

LEMMA OnwardWorker ==
  ASSUME worker \in Working, NEW items \in Seq(Items), Onward(items)
  PROVE  /\ worker' \in Working /\ worker'.items = items
         /\ worker'.pc = IF Todo(items) = {} THEN "final" ELSE "look"
         /\ worker'.job = worker.job /\ worker'.gen = worker.gen
         /\ worker'.uncertain = worker.uncertain /\ worker'.finalizing = worker.finalizing
  BY DEF Onward, Working, Places

\* A worker that ends needs no plan in hand.
LEMMA EndStep ==
  ASSUME IInv, worker.pc # "idle", CloudIsLeft, job' = job,
         NEW status, NEW items, NEW finalizing, PlanGoes(mine, status, items, finalizing),
         jobTroubles' \in 0 .. MaxTroubles, PlanFine(mine, plan'[mine]),
         NEW result \in Terminal, Ends(result),
         result = "completed" => Done(mine), result = "cancelled" => job[mine].cancel
  PROVE  IInv'
<1>1. /\ worker' \in Working /\ worker'.pc = "finish" /\ worker'.result = result
      /\ worker'.job = worker.job /\ worker'.gen = worker.gen
  BY AtWork, EndsWorker
<1>2. WorkerFine(worker', job[mine], plan'[mine])
  BY <1>1, AtWork DEF WorkerFine, Announced, Inside, mine
<1> QED  BY <1>1, <1>2, WorkerStep DEF mine

\* A worker in hand, with an operation that is not about to leave.
LEMMA HandStep ==
  ASSUME IInv, worker.pc # "idle", CloudIsLeft, job' = job,
         NEW status, NEW items, NEW finalizing, PlanGoes(mine, status, items, finalizing),
         jobTroubles' \in 0 .. MaxTroubles, PlanFine(mine, plan'[mine]),
         worker' \in Working, worker'.job = worker.job, worker'.gen = worker.gen,
         worker'.pc \in Inside \ {"clear", "intended", "send", "trigger"},
         InHand(worker', plan'[mine])
  PROVE  IInv'
<1>1. WorkerFine(worker', job[mine], plan'[mine])
  BY AtWork DEF WorkerFine, Announced, Inside, mine
<1> QED  BY <1>1, WorkerStep DEF mine

\* What is known of a worker that has its plan in hand.
LEMMA Inner ==
  ASSUME IInv, worker.pc \in Inside
  PROVE  /\ worker.pc # "idle" /\ worker \in Working /\ mine \in Jobs
         /\ plan[mine] \in PlanOf(mine) /\ plan[mine].status = "running"
         /\ worker.finalizing = plan[mine].finalizing
         /\ worker.items \in [Ops(mine) -> Items] /\ worker.items \in Seq(Items)
         /\ Truthful(mine, worker.items) /\ InHand(worker, plan[mine])
         /\ PlanFine(mine, plan[mine]) /\ jobTroubles \in 0 .. MaxTroubles
         /\ worker.pc \in Placed => worker.at \in Ops(mine)
<1>1. worker.pc # "idle"
  BY DEF Inside
<1>2. worker \in Working /\ mine \in Jobs /\ plan[mine] \in PlanOf(mine) /\ InHand(worker, plan[mine])
      /\ PlanFine(mine, plan[mine]) /\ jobTroubles \in 0 .. MaxTroubles
  BY <1>1, AtWork DEF WorkerFine
<1>3. /\ worker.items \in [Ops(mine) -> Items] /\ Truthful(mine, worker.items)
      /\ plan[mine].status = "running" /\ worker.finalizing = plan[mine].finalizing
      /\ worker.pc \in Placed => worker.at \in Ops(mine)
  BY <1>2 DEF InHand, mine
<1> QED  BY <1>1, <1>2, <1>3, ItemsAreSeq

\* Truthful outcomes make a fine running plan.
LEMMA RunningPlan ==
  ASSUME IInv, worker.pc # "idle", NEW items, NEW finalizing,
         PlanGoes(mine, "running", items, finalizing),
         Truthful(mine, items), plan[mine].finalizing => finalizing
  PROVE  PlanFine(mine, plan'[mine])
  BY AtWork DEF PlanGoes, PlanFine

\* The outcome of the operation in hand is replaced.
LEMMA Replaced ==
  ASSUME IInv, worker.pc \in Placed, NEW item \in Items
  PROVE  /\ With(item) \in [Ops(mine) -> Items] /\ With(item) \in Seq(Items)
         /\ With(item)[worker.at] = item
         /\ \A i \in Ops(mine) : i # worker.at => With(item)[i] = worker.items[i]
<1>1. worker.pc \in Inside
  BY DEF Placed, Inside, Places
<1>2. worker.items \in [Ops(mine) -> Items] /\ worker.at \in Ops(mine) /\ mine \in Jobs
  BY <1>1, Inner
<1> QED  BY <1>2, ItemsAreSeq DEF With

-----------------------------------------------------------------------------
(* The steps of the worker that leave the cloud alone.                     *)

LEMMA StopStep ==
  ASSUME IInv, Stop
  PROVE  IInv'
<1>1. worker.pc # "idle" /\ CloudIsLeft /\ job' = job /\ plan' = plan /\ jobTroubles' = jobTroubles
  BY DEF Stop, Checking, CloudIsLeft
<1>2. PlanGoes(mine, plan[mine].status, plan[mine].items, plan[mine].finalizing)
  BY <1>1, SamePlan
<1>3. PlanFine(mine, plan'[mine]) /\ jobTroubles' \in 0 .. MaxTroubles
  BY <1>1, AtWork
<1>4. CASE CancelSeen
  <2>1. job[mine].cancel
    BY <1>1, <1>4, AtWork DEF CancelSeen, WorkerFine
  <2>2. Ends("cancelled")
    BY <1>4 DEF Stop
  <2> QED  BY <1>1, <1>2, <1>3, <2>1, <2>2, EndStep DEF Terminal
<1>5. CASE ~CancelSeen
  <2>1. Ends("manual_review")
    BY <1>5 DEF Stop
  <2> QED  BY <1>1, <1>2, <1>3, <2>1, EndStep DEF Terminal
<1> QED  BY <1>4, <1>5

LEMMA CheckFailsStep ==
  ASSUME IInv, CheckFails
  PROVE  IInv'
<1>1. worker.pc # "idle" /\ CloudIsLeft /\ job' = job /\ plan' = plan
  BY DEF CheckFails, Checking, CloudIsLeft
<1>2. PlanGoes(mine, plan[mine].status, plan[mine].items, plan[mine].finalizing)
  BY <1>1, SamePlan
<1>3. PlanFine(mine, plan'[mine]) /\ jobTroubles' \in 0 .. MaxTroubles
  BY <1>1, AtWork, TroubleCount DEF CheckFails
<1>4. CASE worker.pc \in {"intended", "verify"}
  <2>1. worker.pc \in Inside
    BY <1>4 DEF Inside, Places
  <2>2. /\ worker' \in Working /\ worker'.pc = "lost"
        /\ worker'.job = worker.job /\ worker'.gen = worker.gen /\ worker'.items = worker.items
        /\ worker'.at = worker.at /\ worker'.uncertain = worker.uncertain
        /\ worker'.finalizing = worker.finalizing
    BY <1>4, <2>1, Inner, GoesWorker DEF CheckFails, Places
  <2>3. InHand(worker', plan'[mine])
    BY <1>1, <1>4, <2>1, <2>2, Inner DEF InHand, Placed
  <2> QED  BY <1>1, <1>2, <1>3, <2>2, <2>3, HandStep DEF Inside, Places
<1>5. CASE worker.pc \notin {"intended", "verify"}
  <2>1. Ends("failed")
    BY <1>5 DEF CheckFails
  <2> QED  BY <1>1, <1>2, <1>3, <2>1, EndStep DEF Terminal
<1> QED  BY <1>4, <1>5

LEMMA LoadPlanStep ==
  ASSUME IInv, LoadPlan
  PROVE  IInv'
<1> DEFINE p == plan[mine]
<1>1. worker.pc = "load" /\ CloudIsLeft /\ job' = job /\ jobTroubles' = jobTroubles
  BY DEF LoadPlan, CloudIsLeft
<1>2. jobTroubles' \in 0 .. MaxTroubles /\ worker \in Working /\ mine \in Jobs /\ p \in PlanOf(mine)
      /\ PlanFine(mine, p)
  BY <1>1, AtWork
<1>3. ASSUME p.status \in {"queued", "running"}, Rewritten("running", p.items),
             worker' = [worker EXCEPT !.items = p.items, !.finalizing = p.finalizing,
                          !.pc = IF p.status = "running" THEN "reconcile"
                                 ELSE IF Todo(p.items) = {} THEN "final" ELSE "look"]
      PROVE  IInv'
  <2> DEFINE pc == IF p.status = "running" THEN "reconcile"
                   ELSE IF Todo(p.items) = {} THEN "final" ELSE "look"
  <2>1. p.items \in [Ops(mine) -> Items] /\ p.items \in Seq(Items) /\ p.finalizing \in BOOLEAN
    BY <1>2, ItemsAreSeq DEF PlanOf
  <2>2. PlanGoes(mine, "running", p.items, p.finalizing)
    BY <1>1, <1>3, <2>1, RewrittenPlan DEF PlanStatuses
  <2>3. PlanFine(mine, plan'[mine])
    BY <1>1, <1>2, <2>2, RunningPlan DEF PlanFine
  <2>4. pc \in {"reconcile", "final", "look"}
    OBVIOUS
  <2>5. /\ worker' \in Working /\ worker'.pc = pc
        /\ worker'.job = worker.job /\ worker'.gen = worker.gen /\ worker'.items = p.items
        /\ worker'.finalizing = p.finalizing
    <3> HIDE DEF pc
    <3> QED  BY <1>2, <1>3, <2>1, <2>4 DEF Working, Places, pc
  <2>6. p.status = "queued" => \A i \in Ops(mine) : p.items[i] = "not_started"
    BY <1>2 DEF PlanFine
  <2>7. pc = "look" => Todo(p.items) # {} /\ p.status = "queued"
    BY <1>3
  <2>8. ASSUME pc = "final", NEW i \in Ops(mine)
        PROVE  p.items[i] \in Ended
    <3>1. p.status # "running" /\ Todo(p.items) = {}
      BY <2>8
    <3>2. i \in Todo(p.items)
      BY <1>3, <2>1, <2>6, <3>1 DEF Todo
    <3> QED  BY <3>1, <3>2
  <2>9. InHand(worker', plan'[mine])
    <3> HIDE DEF pc
    <3> QED  BY <1>2, <2>1, <2>2, <2>4, <2>5, <2>6, <2>7, <2>8
             DEF InHand, Placed, PlanGoes, PlanFine, mine
  <2> QED
    <3> HIDE DEF pc
    <3> QED  BY <1>1, <1>2, <2>2, <2>3, <2>4, <2>5, <2>9, HandStep DEF Inside, Places
<1>4. ASSUME plan' = plan, NEW result \in {p.status, "failed"}, Ends(result),
             p.status \in {"completed", "partial"} \/ result = "failed"
      PROVE  IInv'
  <2>1. PlanGoes(mine, p.status, p.items, p.finalizing)
    BY <1>1, <1>4, SamePlan
  <2>2. result \in Terminal /\ (result = "completed" => Done(mine)) /\ result # "cancelled"
    BY <1>2, <1>4 DEF PlanFine, Terminal
  <2> QED  BY <1>1, <1>2, <1>4, <2>1, <2>2, EndStep
<1> QED  BY <1>3, <1>4 DEF LoadPlan

LEMMA ReconcileStep ==
  ASSUME IInv, Reconcile
  PROVE  IInv'
<1>1. worker.pc = "reconcile" /\ worker.pc \in Inside /\ CloudIsLeft /\ job' = job
  BY DEF Reconcile, CloudIsLeft, Inside, Places
<1>2. /\ worker.pc # "idle" /\ worker \in Working /\ mine \in Jobs
      /\ plan[mine].status = "running" /\ worker.finalizing = plan[mine].finalizing
      /\ worker.items \in [Ops(mine) -> Items] /\ Truthful(mine, worker.items)
      /\ PlanFine(mine, plan[mine])
  BY <1>1, Inner
<1>3. PICK items \in [Ops(mine) -> Items] :
         /\ \A i \in Ops(mine) : items[i] \in Reread(i)
         /\ \/ /\ Rewritten("running", items)
               /\ worker' = [worker EXCEPT !.items = items,
                    !.uncertain = \E i \in Ops(mine) : items[i] = "unknown",
                    !.at = IF Todo(items) = {} THEN @ ELSE Min(Todo(items)),
                    !.pc = IF (\E i \in Ops(mine) : items[i] = "unknown") THEN "final"
                           ELSE IF (\E i \in Ops(mine) : items[i] = "tracked") THEN "pending"
                           ELSE IF Todo(items) = {} THEN "final" ELSE "look"]
               /\ UNCHANGED jobTroubles
            \/ JobTrouble(mine) /\ Ends("failed") /\ UNCHANGED plan
  BY DEF Reconcile
<1>4. CASE JobTrouble(mine) /\ Ends("failed") /\ UNCHANGED plan
  BY <1>1, <1>2, <1>4, SamePlan, TroubleCount, EndStep DEF Terminal
<1>5. ASSUME Rewritten("running", items), UNCHANGED jobTroubles,
             worker' = [worker EXCEPT !.items = items,
                    !.uncertain = \E i \in Ops(mine) : items[i] = "unknown",
                    !.at = IF Todo(items) = {} THEN @ ELSE Min(Todo(items)),
                    !.pc = IF (\E i \in Ops(mine) : items[i] = "unknown") THEN "final"
                           ELSE IF (\E i \in Ops(mine) : items[i] = "tracked") THEN "pending"
                           ELSE IF Todo(items) = {} THEN "final" ELSE "look"]
      PROVE  IInv'
  <2> DEFINE unsure == \E i \in Ops(mine) : items[i] = "unknown"
             waits == \E i \in Ops(mine) : items[i] = "tracked"
             at == IF Todo(items) = {} THEN worker.at ELSE Min(Todo(items))
             pc == IF unsure THEN "final" ELSE IF waits THEN "pending"
                   ELSE IF Todo(items) = {} THEN "final" ELSE "look"
  <2>1. Truthful(mine, items)
    <3> SUFFICES ASSUME NEW i \in Ops(mine)
                 PROVE  /\ sent[mine][i] > 0 => items[i] # "not_started"
                        /\ cloud[mine][i] = "running" => items[i] \in InFlight
                        /\ items[i] = "completed" => cloud[mine][i] = "done"
      BY DEF Truthful
    <3>1. /\ sent[mine][i] > 0 => worker.items[i] # "not_started"
          /\ cloud[mine][i] = "running" => worker.items[i] \in InFlight
          /\ worker.items[i] = "completed" => cloud[mine][i] = "done"
      BY <1>2 DEF Truthful
    <3>2. items[i] \in Reread(i)
      BY <1>3
    <3> QED  BY <3>1, <3>2 DEF Reread, InFlight
  <2>2. PlanGoes(mine, "running", items, worker.finalizing)
    BY <1>2, <1>5, RewrittenPlan DEF PlanStatuses
  <2>3. PlanFine(mine, plan'[mine])
    BY <1>2, <2>1, <2>2, RunningPlan
  <2>4. at \in Nat
    BY <1>2, FirstTodo DEF Working
  <2>5. pc \in {"final", "pending", "look"} /\ unsure \in BOOLEAN
    OBVIOUS
  <2>6. /\ worker' \in Working /\ worker'.pc = pc /\ worker'.uncertain = unsure
        /\ worker'.job = worker.job /\ worker'.gen = worker.gen /\ worker'.items = items
        /\ worker'.finalizing = worker.finalizing
    <3>1. items \in Seq(Items)
      BY <1>2, ItemsAreSeq
    <3>2. worker' = [worker EXCEPT !.items = items, !.uncertain = unsure, !.at = at, !.pc = pc]
      BY <1>5
    <3> HIDE DEF pc, at, unsure
    <3> QED  BY <1>2, <2>4, <2>5, <3>1, <3>2 DEF Working, Places
  <2>7. pc = "look" => Todo(items) # {}
    OBVIOUS
  <2>8. ASSUME ~unsure, pc # "pending", NEW i \in Ops(mine)
        PROVE  items[i] \in Ended \cup {"not_started"} /\ (pc = "final" => items[i] \in Ended)
    <3>1. items[i] \in Items /\ items[i] # "unknown" /\ items[i] # "tracked"
      BY <2>8
    <3>2. pc = "final" => items[i] # "not_started"
      BY <2>8 DEF Todo
    <3> QED  BY <3>1, <3>2 DEF Items, Ended
  <2>9. InHand(worker', plan'[mine])
    <3> HIDE DEF pc, unsure
    <3> QED  BY <2>1, <2>2, <2>5, <2>6, <2>7, <2>8 DEF InHand, Placed, PlanGoes, mine
  <2>10. jobTroubles' \in 0 .. MaxTroubles
    BY <1>2, <1>5, AtWork
  <2> QED
    <3> HIDE DEF pc, unsure
    <3> QED  BY <1>1, <1>2, <2>2, <2>3, <2>5, <2>6, <2>9, <2>10, HandStep DEF Inside, Places
<1> QED  BY <1>3, <1>4, <1>5

LEMMA LookStep ==
  ASSUME IInv, Look
  PROVE  IInv'
<1> DEFINE k == Min(Todo(worker.items))
<1>1. worker.pc = "look" /\ worker.pc \in Inside /\ CloudIsLeft /\ job' = job /\ plan' = plan
      /\ jobTroubles' = jobTroubles
  BY DEF Look, CloudIsLeft, Inside, Places
<1>2. /\ worker.pc # "idle" /\ worker \in Working /\ mine \in Jobs
      /\ plan[mine] \in PlanOf(mine) /\ plan[mine].status = "running"
      /\ worker.items \in [Ops(mine) -> Items] /\ worker.items \in Seq(Items)
      /\ Truthful(mine, worker.items) /\ InHand(worker, plan[mine])
      /\ PlanFine(mine, plan[mine]) /\ jobTroubles' \in 0 .. MaxTroubles
  BY <1>1, Inner
<1>3. PlanGoes(mine, "running", plan[mine].items, plan[mine].finalizing)
  BY <1>1, <1>2, SamePlan
<1>4. k \in Ops(mine) /\ k \in Nat /\ worker.items[k] = "not_started"
  BY <1>1, <1>2, FirstTodo DEF InHand
<1>5. ~worker.uncertain => \A i \in Ops(mine) : worker.items[i] \in Ended \cup {"not_started"}
  BY <1>1, <1>2 DEF InHand, mine
<1>6. ASSUME worker' = [worker EXCEPT !.pc = "clear", !.at = k]
      PROVE  IInv'
  <2> HIDE DEF k
  <2>1. /\ worker' \in Working /\ worker'.pc = "clear" /\ worker'.at = k
        /\ worker'.job = worker.job /\ worker'.gen = worker.gen /\ worker'.items = worker.items
        /\ worker'.uncertain = worker.uncertain /\ worker'.finalizing = worker.finalizing
    BY <1>2, <1>4, <1>6 DEF Working, Places
  <2>2. InHand(worker', plan'[mine])
    BY <1>1, <1>2, <1>4, <1>5, <2>1 DEF InHand, Placed, mine
  <2>3. WorkerFine(worker', job[mine], plan'[mine])
    BY <1>2, <1>4, <2>1, <2>2, AtWork DEF WorkerFine, Announced, mine
  <2> QED  BY <1>1, <1>2, <1>3, <2>1, <2>3, WorkerStep DEF mine
<1>7. ASSUME NEW item \in {"blocked", "failed"},
             worker' = [worker EXCEPT !.pc = "settle", !.at = k, !.items[k] = item]
      PROVE  IInv'
  <2> DEFINE items == [worker.items EXCEPT ![k] = item]
  <2> HIDE DEF k
  <2>1. items \in [Ops(mine) -> Items]
    BY <1>2, <1>7 DEF Items
  <2>2. items \in Seq(Items)
    BY <1>2, <2>1, ItemsAreSeq
  <2>3. items[k] = item /\ \A i \in Ops(mine) : i # k => items[i] = worker.items[i]
    BY <1>2, <1>4
  <2>4. Truthful(mine, items)
    BY <1>2, <1>4, <1>7, <2>3 DEF Truthful, InFlight
  <2>5. /\ worker' \in Working /\ worker'.pc = "settle" /\ worker'.at = k
        /\ worker'.job = worker.job /\ worker'.gen = worker.gen /\ worker'.items = items
        /\ worker'.uncertain = worker.uncertain /\ worker'.finalizing = worker.finalizing
    BY <1>2, <1>4, <1>7, <2>2 DEF Working, Places
  <2>6. InHand(worker', plan'[mine])
    <3> HIDE DEF items
    <3> QED  BY <1>1, <1>2, <1>4, <1>5, <1>7, <2>1, <2>3, <2>4, <2>5 DEF InHand, Placed, Ended, mine
  <2> QED  BY <1>1, <1>2, <1>3, <2>5, <2>6, HandStep DEF Inside, Places
<1> QED  BY <1>6, <1>7 DEF Look

\* A worker whose record cannot be written gives up, and knows that it does not know.
LEMMA GaveUp ==
  ASSUME IInv, worker.pc \in Inside, CloudIsLeft, job' = job, CheckpointFails,
         NEW items \in [Ops(mine) -> Items], Truthful(mine, items), GivesUp(items)
  PROVE  IInv'
<1>1. /\ worker.pc # "idle" /\ worker \in Working /\ mine \in Jobs
      /\ plan[mine].status = "running" /\ worker.finalizing = plan[mine].finalizing
      /\ PlanFine(mine, plan[mine])
  BY Inner
<1>2. PlanGoes(mine, "running", plan[mine].items, plan[mine].finalizing)
      /\ jobTroubles' \in 0 .. MaxTroubles
  BY <1>1, TornPlan
<1>3. PlanFine(mine, plan'[mine])
  BY <1>1, <1>2, RunningPlan DEF PlanFine
<1>4. /\ worker' \in Working /\ worker'.pc = "final" /\ worker'.items = items
      /\ worker'.job = worker.job /\ worker'.gen = worker.gen
      /\ worker'.uncertain /\ worker'.finalizing = worker.finalizing
  BY <1>1, ItemsAreSeq, GivesUpWorker
<1>5. InHand(worker', plan'[mine])
  BY <1>1, <1>2, <1>4 DEF InHand, PlanGoes, Placed, mine
<1> QED  BY <1>1, <1>2, <1>3, <1>4, <1>5, HandStep DEF Inside, Places

\* A worker that recorded its outcomes keeps them.
LEMMA Recorded ==
  ASSUME IInv, worker.pc \in Inside, CloudIsLeft, job' = job, jobTroubles' = jobTroubles,
         NEW items \in [Ops(mine) -> Items], Truthful(mine, items), Checkpoint(items)
  PROVE  /\ PlanGoes(mine, "running", items, worker.finalizing)
         /\ PlanFine(mine, plan'[mine]) /\ jobTroubles' \in 0 .. MaxTroubles
<1>1. /\ worker.pc # "idle" /\ plan[mine].status = "running"
      /\ worker.finalizing = plan[mine].finalizing /\ jobTroubles' \in 0 .. MaxTroubles
  BY Inner
<1>2. PlanGoes(mine, "running", items, worker.finalizing)
  BY <1>1, CheckpointPlan
<1> QED  BY <1>1, <1>2, RunningPlan

LEMMA IntendStep ==
  ASSUME IInv, Intend
  PROVE  IInv'
<1> DEFINE items == With("unknown")
<1>1. worker.pc = "clear" /\ worker.pc \in Inside /\ worker.pc \in Placed /\ CloudIsLeft /\ job' = job
  BY DEF Intend, CloudIsLeft, Inside, Places, Placed
<1>2. /\ worker.pc # "idle" /\ worker \in Working /\ mine \in Jobs
      /\ plan[mine] \in PlanOf(mine)
      /\ worker.items \in [Ops(mine) -> Items] /\ Truthful(mine, worker.items)
      /\ InHand(worker, plan[mine]) /\ worker.at \in Ops(mine)
  BY <1>1, Inner
<1>3. /\ items \in [Ops(mine) -> Items] /\ items \in Seq(Items) /\ items[worker.at] = "unknown"
      /\ \A i \in Ops(mine) : i # worker.at => items[i] = worker.items[i]
  BY <1>1, Replaced DEF Items
<1>4. worker.items[worker.at] = "not_started"
  BY <1>1, <1>2, AtWork DEF WorkerFine, Announced
<1> HIDE DEF items
<1>5. Truthful(mine, items)
  BY <1>2, <1>3, <1>4 DEF Truthful, InFlight
<1>6. sent[mine][worker.at] = 0
  <2>1. sent[mine] \in [Ops(mine) -> Nat]
    BY <1>2 DEF IInv, Shape, JobsTypeOK
  <2> QED  BY <1>2, <1>4, <2>1 DEF Truthful
<1>7. ASSUME Checkpoint(items), UNCHANGED jobTroubles,
             worker' = [worker EXCEPT !.pc = "intended", !.items = items]
      PROVE  IInv'
  <2>1. /\ PlanGoes(mine, "running", items, worker.finalizing)
        /\ PlanFine(mine, plan'[mine]) /\ jobTroubles' \in 0 .. MaxTroubles
    BY <1>1, <1>3, <1>5, <1>7, Recorded
  <2>2. /\ worker' \in Working /\ worker'.pc = "intended" /\ worker'.at = worker.at
        /\ worker'.job = worker.job /\ worker'.gen = worker.gen /\ worker'.items = items
        /\ worker'.uncertain = worker.uncertain /\ worker'.finalizing = worker.finalizing
    BY <1>2, <1>3, <1>7 DEF Working, Places
  <2>3. InHand(worker', plan'[mine])
    BY <1>1, <1>2, <1>3, <1>5, <2>1, <2>2 DEF InHand, PlanGoes, Placed, mine
  <2>4. WorkerFine(worker', job[mine], plan'[mine])
    BY <1>2, <1>3, <1>6, <2>1, <2>2, <2>3, AtWork DEF WorkerFine, Announced, PlanGoes, mine
  <2> QED  BY <1>1, <1>2, <2>1, <2>2, <2>4, WorkerStep DEF mine
<1>8. CASE CheckpointFails /\ GivesUp(worker.items)
  BY <1>1, <1>2, <1>8, GaveUp
<1> QED  BY <1>7, <1>8 DEF Intend, items

LEMMA RecheckStep ==
  ASSUME IInv, Recheck
  PROVE  IInv'
<1>1. /\ worker.pc = "intended" /\ worker.pc \in Inside /\ CloudIsLeft /\ job' = job /\ plan' = plan
      /\ jobTroubles' = jobTroubles /\ Goes("send") /\ ~job[mine].cancel
  BY DEF Recheck, CloudIsLeft, Inside, Places, StillWanted, GoesOn, CancelSeen
<1>2. /\ worker.pc # "idle" /\ worker \in Working /\ InHand(worker, plan[mine])
      /\ plan[mine].status = "running"
      /\ PlanFine(mine, plan[mine]) /\ jobTroubles' \in 0 .. MaxTroubles
  BY <1>1, Inner
<1>3. PlanGoes(mine, "running", plan[mine].items, plan[mine].finalizing)
  BY <1>1, <1>2, SamePlan
<1>4. /\ worker' \in Working /\ worker'.pc = "send"
      /\ worker'.job = worker.job /\ worker'.gen = worker.gen /\ worker'.items = worker.items
      /\ worker'.at = worker.at /\ worker'.uncertain = worker.uncertain
      /\ worker'.finalizing = worker.finalizing
  BY <1>1, <1>2, GoesWorker DEF Places
<1>5. InHand(worker', plan'[mine])
  BY <1>1, <1>2, <1>4 DEF InHand, Placed, mine
<1>6. WorkerFine(worker', job[mine], plan'[mine])
  BY <1>1, <1>2, <1>4, <1>5, AtWork DEF WorkerFine, Announced, mine
<1> QED  BY <1>1, <1>2, <1>3, <1>4, <1>6, WorkerStep DEF mine

\* The worker moves to pc with the outcome of its operation known or being looked
\* for, and touches nothing else.
LEMMA MovesOn ==
  ASSUME IInv, worker.pc \in Inside, CloudIsLeft, job' = job, plan' = plan,
         jobTroubles' = jobTroubles,
         worker' \in Working, worker'.job = worker.job, worker'.gen = worker.gen,
         worker'.finalizing = worker.finalizing,
         worker'.items \in [Ops(mine) -> Items], Truthful(mine, worker'.items),
         worker'.pc \in {"verify", "lost", "settle", "pending", "defer", "close"},
         InHand(worker', plan[mine])
  PROVE  IInv'
<1>1. /\ worker.pc # "idle" /\ plan[mine].status = "running"
      /\ PlanFine(mine, plan[mine]) /\ jobTroubles' \in 0 .. MaxTroubles
  BY Inner
<1>2. PlanGoes(mine, "running", plan[mine].items, plan[mine].finalizing)
  BY <1>1, SamePlan
<1> QED  BY <1>1, <1>2, HandStep DEF Inside, Places

\* The worker records its outcomes and stays in hand.
LEMMA RecordsOn ==
  ASSUME IInv, worker.pc \in Inside, CloudIsLeft, job' = job, jobTroubles' = jobTroubles,
         NEW items \in [Ops(mine) -> Items], Truthful(mine, items), Checkpoint(items),
         worker' \in Working, worker'.job = worker.job, worker'.gen = worker.gen,
         worker'.finalizing = worker.finalizing, worker'.items = items,
         worker'.pc \in Inside \ {"clear", "intended", "send", "trigger"},
         worker'.pc \in Placed => worker'.at \in Ops(mine),
         worker'.pc = "look" => Todo(items) # {},
         worker'.pc \in Placed \cup {"look"} /\ ~worker'.uncertain =>
           \A i \in Ops(mine) : worker'.pc = "look" \/ i # worker'.at =>
              items[i] \in Ended \cup {"not_started"},
         worker'.pc # "settle",
         worker'.pc \in {"final", "close"} /\ ~worker'.uncertain =>
           \A i \in Ops(mine) : items[i] \in Ended
  PROVE  IInv'
<1>1. /\ PlanGoes(mine, "running", items, worker.finalizing)
      /\ PlanFine(mine, plan'[mine]) /\ jobTroubles' \in 0 .. MaxTroubles
  BY Recorded
<1>2. InHand(worker', plan'[mine])
  BY <1>1 DEF InHand, PlanGoes, mine
<1>3. worker.pc # "idle"
  BY Inner
<1> QED  BY <1>1, <1>2, <1>3, HandStep

LEMMA ReceiptStep ==
  ASSUME IInv, Receipt
  PROVE  IInv'
<1>1. worker.pc = "receipt" /\ worker.pc \in Inside /\ CloudIsLeft /\ job' = job
  BY DEF Receipt, CloudIsLeft, Inside, Places
<1>2. /\ worker \in Working /\ worker.items \in [Ops(mine) -> Items]
      /\ Truthful(mine, worker.items) /\ InHand(worker, plan[mine])
      /\ worker.pc \in Placed => worker.at \in Ops(mine)
  BY <1>1, Inner
<1>3. CASE Checkpoint(worker.items) /\ Goes("verify") /\ UNCHANGED jobTroubles
  <2>1. /\ worker' \in Working /\ worker'.pc = "verify"
        /\ worker'.job = worker.job /\ worker'.gen = worker.gen /\ worker'.items = worker.items
        /\ worker'.at = worker.at /\ worker'.uncertain = worker.uncertain
        /\ worker'.finalizing = worker.finalizing
    BY <1>2, <1>3, GoesWorker DEF Places
  <2>2. ~worker.uncertain => \A i \in Ops(mine) : i # worker.at =>
            worker.items[i] \in Ended \cup {"not_started"}
    BY <1>1, <1>2 DEF InHand, Placed, mine
  <2> QED  BY <1>1, <1>2, <1>3, <2>1, <2>2, RecordsOn DEF Inside, Places, Placed
<1>4. CASE CheckpointFails /\ GivesUp(worker.items)
  BY <1>1, <1>2, <1>4, GaveUp
<1> QED  BY <1>3, <1>4 DEF Receipt

LEMMA VerifyStep ==
  ASSUME IInv, Verify
  PROVE  IInv'
<1> DEFINE effect == cloud[mine][worker.at]
<1>1. worker.pc = "verify" /\ worker.pc \in Inside /\ worker.pc \in Placed /\ CloudIsLeft /\ job' = job
  BY DEF Verify, CloudIsLeft, Inside, Places, Placed
<1>2. /\ worker \in Working /\ worker.items \in [Ops(mine) -> Items]
      /\ Truthful(mine, worker.items) /\ InHand(worker, plan[mine])
      /\ worker.at \in Ops(mine) /\ mine \in Jobs
  BY <1>1, Inner
<1>3. ~worker.uncertain => \A i \in Ops(mine) : i # worker.at =>
          worker.items[i] \in Ended \cup {"not_started"}
  BY <1>1, <1>2 DEF InHand, mine
<1>4. ASSUME effect = "done"
      PROVE  Truthful(mine, With("completed"))
  BY <1>1, <1>2, <1>4, Replaced DEF Truthful, Items
<1>5. ASSUME effect = "done", Checkpoint(With("completed")), Onward(With("completed")),
             UNCHANGED jobTroubles
      PROVE  IInv'
  <2> DEFINE items == With("completed")
  <2>1. /\ items \in [Ops(mine) -> Items] /\ items \in Seq(Items)
        /\ items[worker.at] = "completed"
        /\ \A i \in Ops(mine) : i # worker.at => items[i] = worker.items[i]
    BY <1>1, Replaced DEF Items
  <2>2. Truthful(mine, items) /\ Checkpoint(items) /\ Onward(items)
    BY <1>4, <1>5
  <2> HIDE DEF items
  <2>3. /\ worker' \in Working /\ worker'.items = items
        /\ worker'.pc = IF Todo(items) = {} THEN "final" ELSE "look"
        /\ worker'.job = worker.job /\ worker'.gen = worker.gen
        /\ worker'.uncertain = worker.uncertain /\ worker'.finalizing = worker.finalizing
    BY <1>2, <2>1, <2>2, OnwardWorker
  <2>4. ~worker.uncertain => \A i \in Ops(mine) : items[i] \in Ended \cup {"not_started"}
    BY <1>3, <2>1 DEF Ended
  <2>5. worker'.pc = "final" => \A i \in Ops(mine) : items[i] # "not_started"
    BY <2>1, <2>3 DEF Todo
  <2>6. worker'.pc = "look" => Todo(items) # {}
    BY <2>3
  <2> QED  BY <1>1, <1>5, <2>1, <2>2, <2>3, <2>4, <2>5, <2>6, RecordsOn DEF Inside, Places, Placed
<1>6. ASSUME effect = "done", CheckpointFails, GivesUp(With("completed"))
      PROVE  IInv'
  BY <1>1, <1>4, <1>6, Replaced, GaveUp DEF Items
<1>7. ASSUME NEW pc \in {"pending", "lost"}, Goes(pc), UNCHANGED <<plan, jobTroubles>>
      PROVE  IInv'
  <2>1. /\ worker' \in Working /\ worker'.pc = pc
        /\ worker'.job = worker.job /\ worker'.gen = worker.gen /\ worker'.items = worker.items
        /\ worker'.at = worker.at /\ worker'.uncertain = worker.uncertain
        /\ worker'.finalizing = worker.finalizing
    BY <1>2, <1>7, GoesWorker DEF Places
  <2>2. InHand(worker', plan[mine])
    BY <1>1, <1>2, <2>1 DEF InHand, Placed, mine
  <2> QED  BY <1>1, <1>2, <1>7, <2>1, <2>2, MovesOn
<1>8. ASSUME effect = "failed", UNCHANGED <<plan, jobTroubles>>,
             worker' = [worker EXCEPT !.pc = "settle", !.items = With("failed")]
      PROVE  IInv'
  <2> DEFINE items == With("failed")
  <2>1. /\ items \in [Ops(mine) -> Items] /\ items \in Seq(Items)
        /\ items[worker.at] = "failed"
        /\ \A i \in Ops(mine) : i # worker.at => items[i] = worker.items[i]
    BY <1>1, Replaced DEF Items
  <2> HIDE DEF items
  <2>2. Truthful(mine, items)
    BY <1>2, <1>8, <2>1 DEF Truthful
  <2>3. /\ worker' \in Working /\ worker'.pc = "settle" /\ worker'.items = items
        /\ worker'.job = worker.job /\ worker'.gen = worker.gen /\ worker'.at = worker.at
        /\ worker'.uncertain = worker.uncertain /\ worker'.finalizing = worker.finalizing
    BY <1>2, <1>8, <2>1 DEF Working, Places, items
  <2>4. InHand(worker', plan[mine])
    BY <1>1, <1>2, <1>3, <2>1, <2>2, <2>3 DEF InHand, Placed, Ended, mine
  <2> QED  BY <1>1, <1>8, <2>1, <2>2, <2>3, <2>4, MovesOn
<1> QED  BY <1>5, <1>6, <1>7, <1>8 DEF Verify

LEMMA LostStep ==
  ASSUME IInv, Lost
  PROVE  IInv'
<1> DEFINE item == worker.items[worker.at]
           effect == cloud[mine][worker.at]
           kept == IF item = "tracked" THEN item ELSE "unknown"
<1>1. /\ worker.pc = "lost" /\ worker.pc \in Inside /\ worker.pc \in Placed /\ CloudIsLeft /\ job' = job
      /\ plan' = plan /\ jobTroubles' = jobTroubles
  BY DEF Lost, CloudIsLeft, Inside, Places, Placed
<1>2. /\ worker \in Working /\ worker.items \in [Ops(mine) -> Items]
      /\ Truthful(mine, worker.items) /\ InHand(worker, plan[mine])
      /\ worker.at \in Ops(mine) /\ mine \in Jobs
  BY <1>1, Inner
<1>3. ~worker.uncertain => \A i \in Ops(mine) : i # worker.at =>
          worker.items[i] \in Ended \cup {"not_started"}
  BY <1>1, <1>2 DEF InHand, mine
<1>4. ASSUME NEW new \in {"completed", "unknown", "tracked"}, NEW uncertain \in BOOLEAN,
             new = "completed" => effect = "done" /\ uncertain = worker.uncertain,
             new # "completed" => uncertain,
             worker' = [worker EXCEPT !.pc = "settle", !.items = With(new), !.uncertain = uncertain]
      PROVE  IInv'
  <2> DEFINE items == With(new)
  <2>1. /\ items \in [Ops(mine) -> Items] /\ items \in Seq(Items)
        /\ items[worker.at] = new
        /\ \A i \in Ops(mine) : i # worker.at => items[i] = worker.items[i]
    BY <1>1, <1>4, Replaced DEF Items
  <2>2. worker' = [worker EXCEPT !.pc = "settle", !.items = items, !.uncertain = uncertain]
    BY <1>4
  <2> HIDE DEF items
  <2>3. Truthful(mine, items)
    BY <1>2, <1>4, <2>1 DEF Truthful, InFlight
  <2>4. /\ worker' \in Working /\ worker'.pc = "settle" /\ worker'.items = items
        /\ worker'.job = worker.job /\ worker'.gen = worker.gen /\ worker'.at = worker.at
        /\ worker'.uncertain = uncertain /\ worker'.finalizing = worker.finalizing
    BY <1>2, <2>1, <2>2 DEF Working, Places
  <2>5. InHand(worker', plan[mine])
    BY <1>1, <1>2, <1>3, <1>4, <2>1, <2>3, <2>4 DEF InHand, Placed, Ended, mine
  <2> QED  BY <1>1, <2>1, <2>3, <2>4, <2>5, MovesOn
<1>5. CASE worker' = [worker EXCEPT !.pc = "settle", !.items = With("completed")] /\ effect = "done"
  <2>1. worker' = [worker EXCEPT !.pc = "settle", !.items = With("completed"),
                                 !.uncertain = worker.uncertain]
    BY <1>2, <1>5 DEF Working
  <2>2. worker.uncertain \in BOOLEAN
    BY <1>2 DEF Working
  <2> HIDE DEF effect
  <2> QED  BY <1>4, <1>5, <2>1, <2>2
<1>6. CASE Goes("pending")
  <2>1. /\ worker' \in Working /\ worker'.pc = "pending"
        /\ worker'.job = worker.job /\ worker'.gen = worker.gen /\ worker'.items = worker.items
        /\ worker'.at = worker.at /\ worker'.uncertain = worker.uncertain
        /\ worker'.finalizing = worker.finalizing
    BY <1>2, <1>6, GoesWorker DEF Places
  <2>2. InHand(worker', plan[mine])
    BY <1>1, <1>2, <2>1 DEF InHand, Placed, mine
  <2> QED  BY <1>1, <1>2, <2>1, <2>2, MovesOn
<1>7. CASE worker' = [worker EXCEPT !.pc = "settle", !.uncertain = TRUE, !.items = With(kept)]
  <2>1. worker' = [worker EXCEPT !.pc = "settle", !.items = With(kept), !.uncertain = TRUE]
    BY <1>2, <1>7 DEF Working
  <2>2. kept \in {"unknown", "tracked"}
    OBVIOUS
  <2> HIDE DEF kept
  <2> QED  BY <1>4, <2>1, <2>2
<1> QED  BY <1>5, <1>6, <1>7 DEF Lost

LEMMA SettleStep ==
  ASSUME IInv, Settle
  PROVE  IInv'
<1>1. worker.pc = "settle" /\ worker.pc \in Inside /\ worker.pc \in Placed /\ CloudIsLeft /\ job' = job
  BY DEF Settle, CloudIsLeft, Inside, Places, Placed
<1>2. /\ worker \in Working /\ worker.items \in [Ops(mine) -> Items] /\ worker.items \in Seq(Items)
      /\ Truthful(mine, worker.items) /\ InHand(worker, plan[mine])
      /\ worker.at \in Ops(mine) /\ mine \in Jobs
  BY <1>1, Inner
<1>3. ~worker.uncertain => \A i \in Ops(mine) : worker.items[i] \in Ended \cup {"not_started"}
  BY <1>1, <1>2 DEF InHand, mine
<1>4. CASE CheckpointFails /\ GivesUp(worker.items)
  BY <1>1, <1>2, <1>4, GaveUp
<1>5. ASSUME Checkpoint(worker.items), UNCHANGED jobTroubles, worker.uncertain, GivesUp(worker.items)
      PROVE  IInv'
  <2>1. /\ worker' \in Working /\ worker'.pc = "final" /\ worker'.items = worker.items
        /\ worker'.job = worker.job /\ worker'.gen = worker.gen
        /\ worker'.uncertain /\ worker'.finalizing = worker.finalizing
    BY <1>2, <1>5, GivesUpWorker
  <2> QED  BY <1>1, <1>2, <1>5, <2>1, RecordsOn DEF Inside, Places, Placed
<1>6. ASSUME Checkpoint(worker.items), UNCHANGED jobTroubles, ~worker.uncertain, Onward(worker.items)
      PROVE  IInv'
  <2>1. /\ worker' \in Working /\ worker'.items = worker.items
        /\ worker'.pc = IF Todo(worker.items) = {} THEN "final" ELSE "look"
        /\ worker'.job = worker.job /\ worker'.gen = worker.gen
        /\ worker'.uncertain = worker.uncertain /\ worker'.finalizing = worker.finalizing
    BY <1>2, <1>6, OnwardWorker
  <2>2. worker'.pc = "final" => \A i \in Ops(mine) : worker.items[i] # "not_started"
    BY <1>2, <2>1 DEF Todo
  <2>3. worker'.pc = "look" => Todo(worker.items) # {}
    BY <2>1
  <2> QED  BY <1>1, <1>2, <1>3, <1>6, <2>1, <2>2, <2>3, RecordsOn DEF Inside, Places, Placed
<1> QED  BY <1>4, <1>5, <1>6 DEF Settle

LEMMA PendStep ==
  ASSUME IInv, Pend
  PROVE  IInv'
<1>1. worker.pc = "pending" /\ worker.pc \in Inside /\ CloudIsLeft /\ job' = job
  BY DEF Pend, CloudIsLeft, Inside, Places
<1>2. /\ worker \in Working /\ worker.items \in [Ops(mine) -> Items]
      /\ Truthful(mine, worker.items) /\ worker.pc # "idle" /\ plan[mine].status = "running"
      /\ PlanFine(mine, plan[mine])
  BY <1>1, Inner
<1>3. CASE Checkpoint(worker.items) /\ Goes("defer") /\ UNCHANGED jobTroubles
  <2>1. /\ worker' \in Working /\ worker'.pc = "defer"
        /\ worker'.job = worker.job /\ worker'.gen = worker.gen /\ worker'.items = worker.items
        /\ worker'.finalizing = worker.finalizing
    BY <1>2, <1>3, GoesWorker DEF Places
  <2> QED  BY <1>1, <1>2, <1>3, <2>1, RecordsOn DEF Inside, Places, Placed
<1>4. CASE CheckpointFails /\ Ends("manual_review")
  <2>1. PlanGoes(mine, "running", plan[mine].items, plan[mine].finalizing)
        /\ jobTroubles' \in 0 .. MaxTroubles
    BY <1>2, <1>4, TornPlan
  <2>2. PlanFine(mine, plan'[mine])
    BY <1>2, <2>1, RunningPlan DEF PlanFine
  <2> QED  BY <1>1, <1>2, <1>4, <2>1, <2>2, EndStep DEF Terminal
<1> QED  BY <1>3, <1>4 DEF Pend

LEMMA AnnounceStep ==
  ASSUME IInv, Announce
  PROVE  IInv'
<1>1. worker.pc = "final" /\ worker.pc \in Inside /\ CloudIsLeft /\ job' = job
  BY DEF Announce, CloudIsLeft, Inside, Places
<1>2. /\ worker \in Working /\ worker.pc # "idle" /\ mine \in Jobs
      /\ worker.items \in [Ops(mine) -> Items]
      /\ Truthful(mine, worker.items) /\ InHand(worker, plan[mine])
      /\ plan[mine] \in PlanOf(mine) /\ plan[mine].status = "running"
      /\ worker.finalizing = plan[mine].finalizing
      /\ PlanFine(mine, plan[mine])
  BY <1>1, Inner
<1>3. ~worker.uncertain => \A i \in Ops(mine) : worker.items[i] \in Ended
  BY <1>1, <1>2 DEF InHand, mine
<1>4. CASE Goes("close") /\ UNCHANGED <<plan, jobTroubles>>
  <2>1. /\ worker' \in Working /\ worker'.pc = "close"
        /\ worker'.job = worker.job /\ worker'.gen = worker.gen /\ worker'.items = worker.items
        /\ worker'.uncertain = worker.uncertain /\ worker'.finalizing = worker.finalizing
    BY <1>2, <1>4, GoesWorker DEF Places
  <2>2. InHand(worker', plan[mine])
    BY <1>2, <1>3, <2>1 DEF InHand, Placed, mine
  <2> QED  BY <1>1, <1>2, <1>4, <2>1, <2>2, MovesOn
<1>5. ASSUME worker' = [worker EXCEPT !.pc = "close", !.uncertain = TRUE],
             \/ UNCHANGED <<plan, jobTroubles>>
             \/ CheckpointFails
      PROVE  IInv'
  <2>1. /\ worker' \in Working /\ worker'.pc = "close" /\ worker'.uncertain
        /\ worker'.job = worker.job /\ worker'.gen = worker.gen /\ worker'.items = worker.items
        /\ worker'.finalizing = worker.finalizing
    BY <1>2, <1>5 DEF Working, Places
  <2>2. PlanGoes(mine, "running", plan[mine].items, plan[mine].finalizing)
        /\ jobTroubles' \in 0 .. MaxTroubles
    <3>1. CASE UNCHANGED <<plan, jobTroubles>>
      BY <1>2, <3>1, SamePlan, AtWork
    <3>2. CASE CheckpointFails
      BY <1>2, <3>2, TornPlan
    <3> QED  BY <1>5, <3>1, <3>2
  <2>3. PlanFine(mine, plan'[mine])
    BY <1>2, <2>2, RunningPlan DEF PlanFine
  <2>4. InHand(worker', plan'[mine])
    BY <1>2, <2>1, <2>2 DEF InHand, PlanGoes, Placed, mine
  <2> QED  BY <1>1, <1>2, <2>1, <2>2, <2>3, <2>4, HandStep DEF Inside, Places
<1>6. ASSUME ~worker.finalizing, UNCHANGED jobTroubles,
             plan' = [plan EXCEPT ![mine].finalizing = TRUE, ![mine].logged = TRUE],
             worker' = [worker EXCEPT !.pc = "trigger", !.finalizing = TRUE]
      PROVE  IInv'
  <2>1. /\ worker' \in Working /\ worker'.pc = "trigger" /\ worker'.finalizing = TRUE
        /\ worker'.job = worker.job /\ worker'.gen = worker.gen /\ worker'.items = worker.items
        /\ worker'.uncertain = worker.uncertain
    BY <1>2, <1>6 DEF Working, Places
  <2>2. PlanGoes(mine, "running", plan[mine].items, TRUE)
    <3>1. plan = [j \in Jobs |-> plan[j]]
      BY ShapeParts DEF IInv
    <3> QED  BY <1>2, <1>6, <3>1 DEF PlanGoes, PlanOf
  <2>3. PlanFine(mine, plan'[mine])
    BY <1>2, <2>2, RunningPlan DEF PlanFine
  <2>4. InHand(worker', plan'[mine])
    BY <1>2, <1>3, <2>1, <2>2 DEF InHand, PlanGoes, Placed, mine
  <2>5. triggered[mine] = 0
    <3>1. triggered[mine] \in Nat
      BY <1>2 DEF IInv, Shape, JobsTypeOK
    <3> QED  BY <1>2, <1>6, <3>1 DEF PlanFine
  <2>6. WorkerFine(worker', job[mine], plan'[mine])
    BY <1>2, <2>1, <2>4, <2>5, AtWork DEF WorkerFine, Announced, mine
  <2> QED  BY <1>1, <1>2, <1>6, <2>1, <2>2, <2>3, <2>6, AtWork, WorkerStep DEF mine
<1> QED  BY <1>4, <1>5, <1>6 DEF Announce

LEMMA ClosePlanStep ==
  ASSUME IInv, ClosePlan
  PROVE  IInv'
<1>1. worker.pc = "close" /\ worker.pc \in Inside /\ CloudIsLeft /\ job' = job
  BY DEF ClosePlan, CloudIsLeft, Inside, Places
<1>2. /\ worker \in Working /\ worker.pc # "idle" /\ mine \in Jobs
      /\ worker.items \in [Ops(mine) -> Items]
      /\ Truthful(mine, worker.items) /\ InHand(worker, plan[mine])
      /\ PlanFine(mine, plan[mine])
  BY <1>1, Inner
<1>3. CASE JobTrouble(mine) /\ Ends("partial") /\ UNCHANGED plan
  BY <1>1, <1>2, <1>3, SamePlan, TroubleCount, EndStep DEF Terminal
<1>4. ASSUME Rewritten(FinalStatus, worker.items), UNCHANGED jobTroubles,
             Ends(IF FinalStatus = "completed" THEN "completed" ELSE "partial")
      PROVE  IInv'
  <2>1. FinalStatus \in {"manual_review", "partial", "completed"}
    BY DEF FinalStatus
  <2>2. PlanGoes(mine, FinalStatus, worker.items, plan[mine].finalizing)
    BY <1>2, <1>4, <2>1, RewrittenPlan DEF PlanStatuses, Terminal
  <2>3. ASSUME FinalStatus = "completed"
        PROVE  Done(mine)
    <3>1. \A i \in Ops(mine) : worker.items[i] \in Ended /\ worker.items[i] \notin {"failed", "blocked"}
      BY <1>1, <1>2, <2>3 DEF FinalStatus, InHand, mine
    <3> QED  BY <1>2, <3>1 DEF Truthful, Ended, Done
  <2>4. PlanFine(mine, plan'[mine])
    BY <1>2, <2>1, <2>2, <2>3 DEF PlanFine, PlanGoes
  <2>5. jobTroubles' \in 0 .. MaxTroubles
    BY <1>2, <1>4, AtWork
  <2>6. CASE FinalStatus = "completed"
    BY <1>1, <1>2, <1>4, <2>2, <2>3, <2>4, <2>5, <2>6, EndStep DEF Terminal
  <2>7. CASE FinalStatus # "completed"
    BY <1>1, <1>2, <1>4, <2>2, <2>4, <2>5, <2>7, EndStep DEF Terminal
  <2> QED  BY <2>6, <2>7
<1> QED  BY <1>3, <1>4 DEF ClosePlan

\* The refresh leaves after it was announced, for the first time.
LEMMA TriggerStep ==
  ASSUME IInv, Trigger
  PROVE  IInv'
<1>1. /\ worker.pc = "trigger" /\ worker.pc \in Inside /\ Goes("close")
      /\ UNCHANGED <<job, plan, cloud, sent, jobTroubles>>
      /\ triggered' = [triggered EXCEPT ![mine] = @ + 1]
  BY DEF Trigger, Inside, Places
<1>2. /\ worker \in Working /\ worker.pc # "idle" /\ mine \in Jobs
      /\ Truthful(mine, worker.items) /\ InHand(worker, plan[mine])
      /\ worker.finalizing = plan[mine].finalizing
  BY <1>1, Inner
<1>3. /\ worker' \in Working /\ worker'.pc = "close"
      /\ worker'.job = worker.job /\ worker'.gen = worker.gen /\ worker'.items = worker.items
      /\ worker'.uncertain = worker.uncertain /\ worker'.finalizing = worker.finalizing
  BY <1>1, <1>2, GoesWorker DEF Places
<1>4. triggered[mine] = 0 /\ worker.finalizing
  BY <1>1, <1>2, AtWork DEF WorkerFine, Announced, mine
<1>5. triggered \in [Jobs -> Nat]
  BY DEF IInv, Shape, JobsTypeOK
<1>6. triggered' \in [Jobs -> Nat] /\ triggered'[mine] = 1
      /\ \A j \in Jobs : j # mine => triggered'[j] = triggered[j]
  BY <1>1, <1>2, <1>4, <1>5
<1>7. Shape'
  BY <1>1, <1>3, <1>6 DEF IInv, Shape, JobsTypeOK
<1>8. SentOnce'
  BY <1>1, <1>6 DEF IInv, SentOnce
<1>9. ASSUME NEW j \in Jobs
      PROVE  /\ PlanFine(j, plan[j])' /\ RowFine(j, job[j])' /\ AbsentFine(j, job[j], plan[j])'
  <2>1. PlanFine(j, plan[j]) /\ RowFine(j, job[j]) /\ AbsentFine(j, job[j], plan[j])
    BY DEF IInv
  <2>2. (triggered[j] > 0 => plan[j].finalizing)'
    BY <1>1, <1>2, <1>4, <1>6, <2>1 DEF PlanFine
  <2> QED  BY <1>1, <2>1, <2>2 DEF PlanFine, RowFine, AbsentFine, Truthful, Done, Still
<1>10. InHand(worker', plan[mine])
  BY <1>1, <1>2, <1>3 DEF InHand, Placed, mine
<1>11. WorkerFine(worker', job[mine], plan[mine])
  BY <1>2, <1>3, <1>10, AtWork DEF WorkerFine, Announced, mine
<1>12. (worker.pc # "idle" => WorkerFine(worker, job[mine], plan[mine]))'
  BY <1>1, <1>3, <1>11 DEF WorkerFine, InHand, Announced, Truthful, Done, mine
<1> QED  BY <1>7, <1>8, <1>9, <1>12, Zenon DEF IInv

-----------------------------------------------------------------------------
(* The worker and its row part.                                            *)

\* A plan that is closed stays as true as it was.
LEMMA ClosedPlanFine ==
  ASSUME NEW j \in Jobs, NEW p \in PlanOf(j), PlanFine(j, p), NEW status \in Terminal
  PROVE  /\ ClosedPlan(p, status) \in PlanOf(j) /\ ClosedPlan(p, status).items = p.items
         /\ PlanFine(j, ClosedPlan(p, status))
<1> DEFINE new == IF \/ p.status = "running"
                     \/ status \in {"completed", "partial", "manual_review"}
                  THEN "manual_review" ELSE status
<1>1. new \in Terminal /\ new # "completed"
  BY DEF Terminal
<1>2. CASE p.status \in Terminal
  BY <1>2 DEF ClosedPlan
<1>3. CASE p.status \notin Terminal
  <2>1. ClosedPlan(p, status) = [p EXCEPT !.status = new]
    BY <1>3 DEF ClosedPlan
  <2> HIDE DEF new
  <2>2. /\ ClosedPlan(p, status) \in PlanOf(j) /\ ClosedPlan(p, status).items = p.items
        /\ ClosedPlan(p, status).status = new
        /\ ClosedPlan(p, status).finalizing = p.finalizing
    BY <1>1, <2>1 DEF PlanOf, PlanStatuses
  <2> QED  BY <1>1, <2>2 DEF PlanFine, Terminal
<1> QED  BY <1>2, <1>3

\* What a row becomes that ends with a status.
LEMMA ClosedRow ==
  ASSUME NEW r \in Job, NEW status \in Terminal, NEW c, c = Closed(r, status)
  PROVE  /\ c \in Job /\ c.gen = r.gen /\ c.cancel = r.cancel /\ c.purged = r.purged
         /\ c.started = r.started /\ c.status \in Terminal \cup {"gone"}
         /\ c.status = "completed" => status = "completed"
         /\ c.status = "cancelled" => status = "cancelled" /\ ~r.purged
  BY DEF Closed, Job, JobStatuses, Terminal

LEMMA DeferStep ==
  ASSUME IInv, Defer
  PROVE  IInv'
<1>1. worker.pc = "defer" /\ worker.pc \in Inside /\ CloudIsLeft /\ plan' = plan
      /\ jobTroubles' = jobTroubles
  BY DEF Defer, CloudIsLeft, Inside, Places
<1>2. /\ worker.pc # "idle" /\ mine \in Jobs /\ job[mine] \in Job
      /\ WorkerFine(worker, job[mine], plan[mine]) /\ PlanFine(mine, plan[mine])
      /\ RowFine(mine, job[mine]) /\ jobTroubles' \in 0 .. MaxTroubles
  BY <1>1, AtWork, Inner
<1>3. ASSUME worker' = NoJob,
             job' = [job EXCEPT ![mine].status = "pending", ![mine].marker = TRUE,
                                ![mine].ready = FALSE]
      PROVE  IInv'
  <2>1. job \in [Jobs -> Job]
    BY ShapeParts DEF IInv
  <2>2. /\ job' \in [Jobs -> Job] /\ job'[mine].status = "pending"
        /\ job'[mine].started = job[mine].started /\ job'[mine].cancel = job[mine].cancel
        /\ job'[mine].purged = job[mine].purged
        /\ \A j \in Jobs : j # mine => job'[j] = job[j]
    BY <1>2, <1>3, <2>1 DEF Job, JobStatuses
  <2>3. Shape'
    BY <1>1, <1>2, <1>3, <2>2, ShapeParts, ShapeKept DEF IInv
  <2>4. \A j \in Jobs : /\ PlanFine(j, plan'[j]) /\ RowFine(j, job'[j])
                        /\ AbsentFine(j, job'[j], plan'[j])
    BY <1>1, <1>2, <2>2 DEF IInv, RowFine, AbsentFine
  <2> QED  BY <1>1, <1>3, <2>3, <2>4, LocalStep DEF NoJob
<1>4. ASSUME UNCHANGED job, Ends(IF CancelSeen THEN "cancelled" ELSE "manual_review")
      PROVE  IInv'
  <2>1. CancelSeen => job[mine].cancel
    BY <1>2 DEF CancelSeen, WorkerFine
  <2>2. PlanGoes(mine, plan[mine].status, plan[mine].items, plan[mine].finalizing)
    BY <1>1, <1>2, SamePlan
  <2>3. CASE CancelSeen
    BY <1>1, <1>2, <1>4, <2>1, <2>2, <2>3, EndStep DEF Terminal
  <2>4. CASE ~CancelSeen
    BY <1>1, <1>2, <1>4, <2>2, <2>4, EndStep DEF Terminal
  <2> QED  BY <2>3, <2>4
<1> QED  BY <1>3, <1>4 DEF Defer

LEMMA FinishJobStep ==
  ASSUME IInv, FinishJob
  PROVE  IInv'
<1>1. worker.pc = "finish" /\ worker.pc # "idle" /\ CloudIsLeft /\ worker' = NoJob
      /\ jobTroubles' = jobTroubles
  BY DEF FinishJob, CloudIsLeft
<1>2. /\ worker \in Working /\ mine \in Jobs /\ job[mine] \in Job /\ plan[mine] \in PlanOf(mine)
      /\ WorkerFine(worker, job[mine], plan[mine]) /\ PlanFine(mine, plan[mine])
      /\ RowFine(mine, job[mine]) /\ jobTroubles' \in 0 .. MaxTroubles
  BY <1>1, AtWork
<1>3. worker.result \in Terminal
  BY <1>2 DEF Working
<1>4. /\ job' = [job EXCEPT ![mine] = Closed(@, worker.result)]
      /\ plan' = [plan EXCEPT ![mine] = PlanAfter(mine, worker.result)]
  BY <1>2 DEF FinishJob, WorkerFine
<1>5. job \in [Jobs -> Job] /\ plan = [j \in Jobs |-> plan[j]] /\ \A j \in Jobs : plan[j] \in PlanOf(j)
  BY ShapeParts DEF IInv
<1>6. /\ job'[mine] \in Job /\ job'[mine].cancel = job[mine].cancel
      /\ job'[mine].purged = job[mine].purged /\ job'[mine].started = job[mine].started
      /\ job'[mine].status \in Terminal \cup {"gone"}
      /\ job'[mine].status = "completed" => worker.result = "completed"
      /\ job'[mine].status = "cancelled" => worker.result = "cancelled" /\ ~job[mine].purged
  <2>1. job'[mine] = Closed(job[mine], worker.result)
    BY <1>2, <1>4, <1>5
  <2> QED  BY <1>2, <1>3, <2>1, ClosedRow
<1>7. plan'[mine] \in PlanOf(mine) /\ plan'[mine].items = plan[mine].items /\ PlanFine(mine, plan'[mine])
  <2>1. plan'[mine] = PlanAfter(mine, worker.result)
    BY <1>2, <1>4, <1>5
  <2>2. CASE job[mine].purged
    BY <1>2, <2>1, <2>2 DEF PlanAfter
  <2>3. CASE ~job[mine].purged
    BY <1>2, <1>3, <2>1, <2>3, ClosedPlanFine DEF PlanAfter
  <2> QED  BY <2>2, <2>3
<1>8. \A j \in Jobs : j # mine => job'[j] = job[j] /\ plan'[j] = plan[j]
  BY <1>4, <1>5
<1>9. job' \in [Jobs -> Job] /\ plan' = [j \in Jobs |-> plan'[j]] /\ \A j \in Jobs : plan'[j] \in PlanOf(j)
  <2>1. job' \in [Jobs -> Job]
    BY <1>4, <1>5, <1>6, <1>2
  <2> QED  BY <1>4, <1>5, <1>7, <1>8, <2>1
<1>10. Shape'
  BY <1>1, <1>2, <1>9, ShapeKept DEF IInv
<1>11. RowFine(mine, job'[mine]) /\ AbsentFine(mine, job'[mine], plan'[mine])
  BY <1>1, <1>2, <1>6 DEF RowFine, AbsentFine, WorkerFine, Terminal, mine
<1>12. \A j \in Jobs : /\ PlanFine(j, plan'[j]) /\ RowFine(j, job'[j])
                       /\ AbsentFine(j, job'[j], plan'[j])
  BY <1>7, <1>8, <1>11 DEF IInv
<1> QED  BY <1>1, <1>10, <1>12, LocalStep DEF NoJob

LEMMA FinishFailsStep ==
  ASSUME IInv, FinishFails
  PROVE  IInv'
<1>1. worker.pc # "idle" /\ CloudIsLeft /\ job' = job /\ plan' = plan /\ worker' = NoJob
  BY DEF FinishFails, CloudIsLeft
<1> QED  BY <1>1, SamePlan, AtWork, TroubleCount, WorkerGone DEF FinishFails

LEMMA CrashWorkerStep ==
  ASSUME IInv, CrashWorker
  PROVE  IInv'
<1>1. worker.pc # "idle" /\ CloudIsLeft /\ job' = job /\ worker' = NoJob
      /\ jobTroubles' \in 0 .. MaxTroubles
  BY TroubleCount DEF CrashWorker, CloudIsLeft
<1>2. PICK torn \in BOOLEAN : plan' = [plan EXCEPT ![mine].torn = @ \/ torn]
  BY DEF CrashWorker
<1>3. plan = [j \in Jobs |-> plan[j]] /\ mine \in Jobs /\ plan[mine] \in PlanOf(mine)
      /\ PlanFine(mine, plan[mine])
  BY <1>1, ShapeParts, AtWork DEF IInv
<1>4. PlanGoes(mine, plan[mine].status, plan[mine].items, plan[mine].finalizing)
  BY <1>2, <1>3 DEF PlanGoes, PlanOf
<1>5. PlanFine(mine, plan'[mine])
  BY <1>3, <1>4 DEF PlanFine, PlanGoes
<1> QED  BY <1>1, <1>4, <1>5, WorkerGone

-----------------------------------------------------------------------------
(* The cloud moves.                                                        *)

LEMMA SendOperationStep ==
  ASSUME IInv, SendOperation
  PROVE  IInv'
<1> DEFINE k == worker.at
<1>1. /\ worker.pc = "send" /\ worker.pc \in Inside /\ worker.pc \in Placed
      /\ UNCHANGED <<job, plan, triggered, jobTroubles>>
      /\ sent' = [sent EXCEPT ![mine][k] = @ + 1]
  BY DEF SendOperation, Inside, Places, Placed
<1>2. /\ worker \in Working /\ worker.pc # "idle" /\ mine \in Jobs /\ k \in Ops(mine)
      /\ worker.items \in [Ops(mine) -> Items]
      /\ Truthful(mine, worker.items) /\ InHand(worker, plan[mine])
      /\ plan[mine] \in PlanOf(mine) /\ plan[mine].status = "running"
  BY <1>1, Inner
<1>3. /\ WorkerFine(worker, job[mine], plan[mine])
      /\ PlanFine(mine, plan[mine]) /\ RowFine(mine, job[mine])
  BY <1>2, AtWork
<1>4. /\ worker.items[k] = "unknown" /\ plan[mine].items[k] = "unknown" /\ sent[mine][k] = 0
      /\ Plans[mine][k] = "copy" /\ job[mine].cancel => job[mine].purged
      /\ job[mine].status = "running" /\ job[mine].started
  BY <1>1, <1>3 DEF WorkerFine, Announced, mine
<1>5. \E effect \in CloudStates, item \in {"unknown", "tracked", "failed"},
         pc \in {"verify", "receipt", "settle", "lost"} :
         /\ Send(effect, item, pc)
         /\ effect = "running" => Plans[mine][k] = "copy" /\ item \in InFlight
         /\ pc = "settle" => item = "failed"
  BY DEF SendOperation, CloudStates, InFlight
<1>6. PICK effect \in CloudStates, item \in {"unknown", "tracked", "failed"},
         pc \in {"verify", "receipt", "settle", "lost"} :
         /\ Send(effect, item, pc)
         /\ effect = "running" => Plans[mine][k] = "copy" /\ item \in InFlight
         /\ pc = "settle" => item = "failed"
  BY <1>5
<1> DEFINE items == With(item)
<1>7. /\ items \in [Ops(mine) -> Items] /\ items \in Seq(Items) /\ items[k] = item
      /\ \A i \in Ops(mine) : i # k => items[i] = worker.items[i]
  BY <1>1, Replaced DEF Items
<1>8. cloud' = [cloud EXCEPT ![mine][k] = effect]
      /\ worker' = [worker EXCEPT !.pc = pc, !.items = items]
  BY <1>6 DEF Send
<1> HIDE DEF items
<1>9. /\ worker' \in Working /\ worker'.pc = pc /\ worker'.items = items
      /\ worker'.job = worker.job /\ worker'.gen = worker.gen /\ worker'.at = worker.at
      /\ worker'.uncertain = worker.uncertain /\ worker'.finalizing = worker.finalizing
  BY <1>2, <1>7, <1>8 DEF Working, Places
<1>10. /\ cloud = [j \in Jobs |-> cloud[j]] /\ sent = [j \in Jobs |-> sent[j]]
       /\ \A j \in Jobs : cloud[j] \in [Ops(j) -> CloudStates] /\ sent[j] \in [Ops(j) -> Nat]
  BY DEF IInv, Shape, JobsTypeOK, CloudStates
<1>11. /\ cloud' = [j \in Jobs |-> cloud'[j]] /\ cloud'[mine] = [cloud[mine] EXCEPT ![k] = effect]
       /\ \A j \in Jobs : j # mine => cloud'[j] = cloud[j]
  <2>1. cloud' = [cloud EXCEPT ![mine] = [cloud[mine] EXCEPT ![k] = effect]]
    BY <1>8
  <2> QED  BY <1>2, <1>10, <2>1
<1>12. /\ sent' = [j \in Jobs |-> sent'[j]] /\ sent'[mine] = [sent[mine] EXCEPT ![k] = 1]
       /\ \A j \in Jobs : j # mine => sent'[j] = sent[j]
  <2>1. sent[mine][k] + 1 = 1
    BY <1>4
  <2>2. sent' = [sent EXCEPT ![mine] = [sent[mine] EXCEPT ![k] = 1]]
    BY <1>1, <2>1
  <2> QED  BY <1>2, <1>10, <2>2
<1>13. /\ cloud'[mine] \in [Ops(mine) -> CloudStates] /\ sent'[mine] \in [Ops(mine) -> Nat]
       /\ cloud'[mine][k] = effect /\ sent'[mine][k] = 1
       /\ \A i \in Ops(mine) : i # k => cloud'[mine][i] = cloud[mine][i] /\ sent'[mine][i] = sent[mine][i]
  <2> HIDE DEF k
  <2>1. /\ cloud[mine] \in [Ops(mine) -> CloudStates] /\ sent[mine] \in [Ops(mine) -> Nat]
        /\ k \in Ops(mine)
    BY <1>2, <1>10
  <2> QED  BY <1>11, <1>12, <2>1
<1>14. \A j \in Jobs : cloud'[j] \in [Ops(j) -> CloudStates] /\ sent'[j] \in [Ops(j) -> Nat]
  BY <1>10, <1>11, <1>12, <1>13
<1>15. Shape'
  BY <1>1, <1>9, <1>11, <1>12, <1>14 DEF IInv, Shape, JobsTypeOK, CloudStates
<1>16. SentOnce'
  BY <1>1, <1>12, <1>13 DEF IInv, SentOnce
<1>17. PICK m \in Jobs : m = worker.job
  BY <1>2 DEF mine
\* Outcomes that were true are so after the request, if its own tells of it.
<1>18. ASSUME NEW outcomes, Truthful(m, outcomes) \/ outcomes = items,
              outcomes[k] \in {"unknown", "tracked", "failed"},
              effect = "running" => outcomes[k] \in InFlight
       PROVE  Truthful(m, outcomes)'
  <2>1. ASSUME NEW i \in Ops(m)
        PROVE  /\ sent'[m][i] > 0 => outcomes[i] # "not_started"
               /\ cloud'[m][i] = "running" => outcomes[i] \in InFlight
               /\ outcomes[i] = "completed" => cloud'[m][i] = "done"
    <3> HIDE DEF k
    <3>1. CASE i = k
      BY <1>13, <1>17, <1>18, <3>1 DEF mine
    <3>2. CASE i # k
      <4>1. Truthful(m, worker.items)
        BY <1>2, <1>17 DEF mine
      <4>2. \/ Truthful(m, outcomes)
            \/ outcomes[i] = worker.items[i]
        BY <1>7, <1>17, <1>18, <3>2 DEF mine
      <4>3. /\ sent[m][i] > 0 => outcomes[i] # "not_started"
            /\ cloud[m][i] = "running" => outcomes[i] \in InFlight
            /\ outcomes[i] = "completed" => cloud[m][i] = "done"
        BY <4>1, <4>2 DEF Truthful
      <4> QED  BY <1>13, <1>17, <3>2, <4>3 DEF mine
    <3> QED  BY <3>1, <3>2
  <2> QED  BY <2>1 DEF Truthful
<1>19. Truthful(m, plan[m].items)' /\ Truthful(m, worker.items)'
  <2>1. Truthful(m, plan[m].items) /\ plan[m].items[k] = "unknown"
    BY <1>3, <1>4, <1>17 DEF PlanFine, mine
  <2>2. plan' = plan /\ worker'.items = items
    BY <1>1, <1>9
  <2>3. items[k] = item
    BY <1>7
  <2> HIDE DEF k
  <2>4. \A outcomes : outcomes = plan[m].items => Truthful(m, outcomes)'
    BY <1>18, <2>1 DEF InFlight
  <2>5. \A outcomes : outcomes = items => Truthful(m, outcomes)'
    BY <1>6, <1>18, <2>3 DEF InFlight
  <2> QED  BY <2>2, <2>4, <2>5 DEF Truthful
<1>20. (PlanFine(m, plan[m]) /\ RowFine(m, job[m]) /\ AbsentFine(m, job[m], plan[m]))'
  <2>1. PlanFine(m, plan[m])'
    BY <1>1, <1>2, <1>3, <1>17, <1>19 DEF PlanFine, mine
  <2>2. job' = job /\ job[m].status = "running" /\ job[m].started
        /\ (Plans[m][k] = "copy" /\ job[m].cancel => job[m].purged)
    BY <1>1, <1>4, <1>17 DEF mine
  <2>3. ASSUME NEW i \in Ops(m), cloud'[m][i] = "running"
        PROVE  Plans[m][i] = "copy" /\ ~(job[m].cancel /\ ~job[m].purged)
    <3> HIDE DEF k
    <3>1. CASE i = k
      BY <1>6, <1>13, <1>17, <2>2, <2>3, <3>1 DEF mine
    <3>2. CASE i # k
      <4>1. cloud[m][i] = "running"
        BY <1>13, <1>17, <2>3, <3>2 DEF mine
      <4> QED  BY <1>3, <1>17, <4>1 DEF RowFine, Still, mine
    <3> QED  BY <3>1, <3>2
  <2> QED  BY <2>1, <2>2, <2>3 DEF RowFine, AbsentFine, Still
<1>21. ASSUME NEW j \in Jobs, j # m
       PROVE  (PlanFine(j, plan[j]) /\ RowFine(j, job[j]) /\ AbsentFine(j, job[j], plan[j]))'
  <2>1. PlanFine(j, plan[j]) /\ RowFine(j, job[j]) /\ AbsentFine(j, job[j], plan[j])
    BY DEF IInv
  <2>2. cloud'[j] = cloud[j] /\ sent'[j] = sent[j] /\ UNCHANGED <<job, plan, triggered>>
    BY <1>1, <1>11, <1>12, <1>17, <1>21 DEF mine
  <2> QED  BY <2>1, <2>2 DEF PlanFine, RowFine, AbsentFine, Truthful, Done, Still
<1>22. InHand(worker, plan[mine])'
  <2>1. ~worker.uncertain => \A i \in Ops(m) : i # k => items[i] \in Ended \cup {"not_started"}
    BY <1>1, <1>2, <1>7, <1>17 DEF InHand, mine
  <2>2. worker'.finalizing = plan[m].finalizing /\ plan[m].status = "running" /\ plan' = plan
    BY <1>1, <1>2, <1>9, <1>17 DEF InHand, mine
  <2>3. /\ worker'.job = m /\ worker'.at \in Ops(m) /\ worker'.items = items
        /\ items \in [Ops(m) -> Items] /\ worker'.at = k
        /\ worker'.uncertain = worker.uncertain /\ worker'.pc = pc
        /\ pc = "settle" => items[k] \in Ended
    BY <1>2, <1>6, <1>7, <1>9, <1>17 DEF mine, Ended
  <2> HIDE DEF k
  <2> QED  BY <1>19, <2>1, <2>2, <2>3 DEF InHand, Placed, mine
<1>23. (worker.pc # "idle" => WorkerFine(worker, job[mine], plan[mine]))'
  <2>1. worker'.pc = pc /\ worker'.job = worker.job /\ worker'.gen = worker.gen /\ job' = job
    BY <1>1, <1>9
  <2> QED  BY <1>3, <1>22, <2>1 DEF WorkerFine, Announced, mine
<1> QED  BY <1>15, <1>16, <1>20, <1>21, <1>23, Zenon DEF IInv

LEMMA CopyEndsStep ==
  ASSUME IInv, NEW m \in Jobs, CopyEnds(m)
  PROVE  IInv'
<1>1. PICK k \in Ops(m) :
         /\ cloud[m][k] = "running"
         /\ \E effect \in {"done", "failed"} : cloud' = [cloud EXCEPT ![m][k] = effect]
  BY DEF CopyEnds
<1>2. PICK effect \in {"done", "failed"} : cloud' = [cloud EXCEPT ![m][k] = effect]
  BY <1>1
<1>3. UNCHANGED <<job, plan, worker, sent, triggered, jobTroubles>>
  BY DEF CopyEnds
<1>4. /\ cloud = [j \in Jobs |-> cloud[j]]
      /\ \A j \in Jobs : cloud[j] \in [Ops(j) -> CloudStates]
  BY DEF IInv, Shape, JobsTypeOK, CloudStates
<1>5. /\ cloud' = [j \in Jobs |-> cloud'[j]] /\ cloud'[m] = [cloud[m] EXCEPT ![k] = effect]
      /\ \A j \in Jobs : j # m => cloud'[j] = cloud[j]
  <2>1. cloud' = [cloud EXCEPT ![m] = [cloud[m] EXCEPT ![k] = effect]]
    BY <1>2
  <2> QED  BY <1>4, <2>1
<1>6. /\ cloud'[m] \in [Ops(m) -> CloudStates] /\ cloud'[m][k] = effect
      /\ \A i \in Ops(m) : i # k => cloud'[m][i] = cloud[m][i]
  <2>1. cloud[m] \in [Ops(m) -> CloudStates]
    BY <1>4
  <2> QED  BY <1>1, <1>5, <2>1 DEF CloudStates
<1>7. \A j \in Jobs : cloud'[j] \in [Ops(j) -> CloudStates]
  BY <1>4, <1>5, <1>6
<1>8. Shape' /\ SentOnce'
  BY <1>3, <1>5, <1>7 DEF IInv, Shape, JobsTypeOK, CloudStates, SentOnce
<1>9. ASSUME NEW j \in Jobs
      PROVE  /\ \A i \in Ops(j) : cloud'[j][i] = "running" => cloud[j][i] = "running"
             /\ \A i \in Ops(j) : cloud[j][i] = "done" => cloud'[j][i] = "done"
  BY <1>1, <1>5, <1>6
<1>10. ASSUME NEW j \in Jobs
       PROVE  /\ Done(j) => Done(j)'
              /\ Still(j) => Still(j)'
  BY <1>9 DEF Done, Still
<1>11. ASSUME NEW j \in Jobs
       PROVE  (PlanFine(j, plan[j]) /\ RowFine(j, job[j]) /\ AbsentFine(j, job[j], plan[j]))'
  <2>1. PlanFine(j, plan[j]) /\ RowFine(j, job[j]) /\ AbsentFine(j, job[j], plan[j])
    BY DEF IInv
  <2>2. Truthful(j, plan[j].items)'
    BY <1>3, <1>9, <2>1 DEF PlanFine, Truthful
  <2> QED  BY <1>3, <1>9, <1>10, <2>1, <2>2 DEF PlanFine, RowFine, AbsentFine
<1>12. (worker.pc # "idle" => WorkerFine(worker, job[mine], plan[mine]))'
  <2>1. ASSUME worker.pc # "idle"
        PROVE  WorkerFine(worker, job[mine], plan[mine])'
    <3>1. WorkerFine(worker, job[mine], plan[mine]) /\ worker.job \in Jobs
      BY <2>1, AtWork DEF mine
    <3>2. Truthful(worker.job, worker.items) => Truthful(worker.job, worker.items)'
      BY <1>3, <1>9, <3>1 DEF Truthful
    <3>3. Done(worker.job) => Done(worker.job)'
      BY <1>3, <1>9, <3>1 DEF Done
    <3> QED  BY <1>3, <3>1, <3>2, <3>3 DEF WorkerFine, InHand, Announced, mine
  <2> QED  BY <1>3, <2>1
<1> QED  BY <1>8, <1>11, <1>12, Zenon DEF IInv

-----------------------------------------------------------------------------
(* The queue.                                                              *)

\* What the recovery reading calls settled has no copy under way.
LEMMA SettledIsStill ==
  ASSUME IInv, NEW j \in Jobs, ~Unsettled(j)
  PROVE  Still(j)
<1> SUFFICES ASSUME NEW i \in Ops(j), cloud[j][i] = "running"
             PROVE  FALSE
  BY DEF Still
<1>1. Plans[j][i] = "copy" /\ job[j].started
  BY DEF IInv, RowFine
<1>2. plan[j].items[i] \in InFlight /\ (plan[j].status = "queued" => plan[j].items[i] = "not_started")
  BY DEF IInv, PlanFine, Truthful
<1>3. plan[j].status # "queued"
  BY <1>2 DEF InFlight
<1> QED  BY <1>1, <1>2, <1>3 DEF Unsettled

\* The row and the plan of one job move, its worker, if any, keeps the lease.
LEMMA RowStep ==
  ASSUME IInv, CloudIsLeft, UNCHANGED worker, jobTroubles' \in 0 .. MaxTroubles,
         NEW k \in Jobs, NEW r \in Job, NEW p \in PlanOf(k),
         job' = [job EXCEPT ![k] = r], plan' = [plan EXCEPT ![k] = p],
         PlanFine(k, p), RowFine(k, r), AbsentFine(k, r, p),
         worker.pc # "idle" /\ mine = k => WorkerFine(worker, r, p)
  PROVE  IInv'
<1>1. job \in [Jobs -> Job] /\ plan = [j \in Jobs |-> plan[j]] /\ \A j \in Jobs : plan[j] \in PlanOf(j)
      /\ worker \in {NoJob} \cup Working
  BY ShapeParts DEF IInv
<1>2. /\ job' \in [Jobs -> Job] /\ job'[k] = r /\ \A j \in Jobs : j # k => job'[j] = job[j]
      /\ plan' = [j \in Jobs |-> plan'[j]] /\ plan'[k] = p
      /\ \A j \in Jobs : j # k => plan'[j] = plan[j]
  BY <1>1
<1>3. \A j \in Jobs : plan'[j] \in PlanOf(j)
  BY <1>1, <1>2
<1>4. Shape'
  BY <1>1, <1>2, <1>3, ShapeKept DEF IInv
<1>5. \A j \in Jobs : /\ PlanFine(j, plan'[j]) /\ RowFine(j, job'[j])
                      /\ AbsentFine(j, job'[j], plan'[j])
  BY <1>2 DEF IInv
<1>6. worker'.pc # "idle" => WorkerFine(worker', job'[worker'.job], plan'[worker'.job])
  BY <1>2, AtWork DEF mine
<1> QED  BY <1>4, <1>5, <1>6, LocalStep

LEMMA EnqueueJobStep ==
  ASSUME IInv, NEW k \in Jobs, EnqueueJob(k)
  PROVE  IInv'
<1>1. /\ job[k].status = "absent" /\ CloudIsLeft /\ UNCHANGED worker /\ jobTroubles' = jobTroubles
  BY DEF EnqueueJob, CloudIsLeft
<1> DEFINE n == Cardinality({q \in Jobs : job[q].status # "absent"})
<1>2. PICK status \in {"pending", "failed"} :
         /\ job' = [job EXCEPT ![k].status = status, ![k].since = n]
         /\ plan' = [plan EXCEPT ![k].status = IF status = "failed" THEN "failed" ELSE "queued"]
  BY DEF EnqueueJob
<1> DEFINE r == [job[k] EXCEPT !.status = status, !.since = n]
           p == [plan[k] EXCEPT !.status = IF status = "failed" THEN "failed" ELSE "queued"]
<1>3. job \in [Jobs -> Job] /\ job[k] \in Job /\ plan = [j \in Jobs |-> plan[j]]
      /\ plan[k] \in PlanOf(k) /\ jobTroubles' \in 0 .. MaxTroubles
  BY <1>1, ShapeParts DEF IInv
<1>4. n \in Nat
  BY OrganizeAssumption, FS_Subset, FS_CardinalityType
<1> HIDE DEF n
<1>5. /\ r \in Job /\ r.status = status /\ r.cancel = job[k].cancel /\ r.purged = job[k].purged
      /\ r.started = job[k].started
  BY <1>3, <1>4 DEF Job, JobStatuses, Terminal
<1>6. /\ p \in PlanOf(k) /\ p.items = plan[k].items /\ p.finalizing = plan[k].finalizing
      /\ p.status \in {"failed", "queued"}
  BY <1>3 DEF PlanOf, PlanStatuses, Terminal
<1>7. job' = [job EXCEPT ![k] = r] /\ plan' = [plan EXCEPT ![k] = p]
  BY <1>2
<1>8. PlanFine(k, plan[k]) /\ RowFine(k, job[k]) /\ AbsentFine(k, job[k], plan[k])
  BY DEF IInv
<1> HIDE DEF r, p
<1>9. PlanFine(k, p) /\ RowFine(k, r) /\ AbsentFine(k, r, p)
  BY <1>1, <1>5, <1>6, <1>8 DEF PlanFine, RowFine, AbsentFine
<1>10. worker.pc = "idle" \/ mine # k
  BY <1>1, AtWork DEF WorkerFine
<1> QED  BY <1>1, <1>3, <1>5, <1>6, <1>7, <1>9, <1>10, RowStep

LEMMA CancelJobStep ==
  ASSUME IInv, NEW k \in Jobs, CancelJob(k)
  PROVE  IInv'
<1>1. /\ job[k].status \in {"pending", "running"} /\ CloudIsLeft /\ UNCHANGED worker
      /\ jobTroubles' = jobTroubles /\ ~Unsettled(k)
  BY DEF CancelJob, CloudIsLeft
<1>2. /\ job \in [Jobs -> Job] /\ job[k] \in Job /\ plan = [j \in Jobs |-> plan[j]]
      /\ plan[k] \in PlanOf(k) /\ jobTroubles' \in 0 .. MaxTroubles
      /\ PlanFine(k, plan[k]) /\ RowFine(k, job[k])
  BY <1>1, ShapeParts DEF IInv
<1>3. Still(k)
  BY <1>1, SettledIsStill
<1>4. CASE job[k].status = "running"
  <2> DEFINE r == [job[k] EXCEPT !.cancel = TRUE]
  <2>1. job' = [job EXCEPT ![k] = r] /\ plan' = [plan EXCEPT ![k] = plan[k]]
    BY <1>2, <1>4 DEF CancelJob
  <2>2. /\ r \in Job /\ r.status = "running" /\ r.gen = job[k].gen /\ r.cancel
        /\ r.started = job[k].started /\ r.purged = job[k].purged
    BY <1>2, <1>4 DEF Job
  <2> HIDE DEF r
  <2>3. RowFine(k, r) /\ AbsentFine(k, r, plan[k])
    BY <1>2, <1>3, <2>2 DEF RowFine, AbsentFine
  <2>4. ASSUME worker.pc # "idle", mine = k
        PROVE  WorkerFine(worker, r, plan[k])
    <3>1. WorkerFine(worker, job[k], plan[k])
      BY <2>4, AtWork
    <3>2. worker.pc # "send" \/ Plans[k][worker.at] # "copy"
      <4> SUFFICES ASSUME worker.pc = "send", Plans[k][worker.at] = "copy"
                   PROVE  FALSE
        OBVIOUS
      <4>1. worker.pc \in Inside /\ worker.pc \in Placed
        BY DEF Inside, Places, Placed
      <4>2. /\ plan[k].status = "running" /\ worker.at \in Ops(k)
            /\ plan[k].items[worker.at] = "unknown" /\ job[k].started
        BY <2>4, <3>1, <4>1, Inner DEF WorkerFine, Announced, mine
      <4> QED  BY <1>1, <4>2 DEF Unsettled, InFlight
    <3> QED  BY <2>2, <2>4, <3>1, <3>2 DEF WorkerFine, Announced, mine
  <2> QED  BY <1>1, <1>2, <2>1, <2>2, <2>3, <2>4, RowStep
<1>5. CASE job[k].status = "pending"
  <2> DEFINE c == Closed(job[k], "cancelled")
             r == [c EXCEPT !.cancel = TRUE]
             p == ClosedPlan(plan[k], "cancelled")
  <2>1. job' = [job EXCEPT ![k] = r] /\ plan' = [plan EXCEPT ![k] = p]
    BY <1>2, <1>5 DEF CancelJob
  <2>2. p \in PlanOf(k) /\ PlanFine(k, p)
    BY <1>2, ClosedPlanFine DEF Terminal
  <2>3. /\ c \in Job /\ c.started = job[k].started /\ c.status \in Terminal \cup {"gone"}
        /\ c.status # "completed"
    BY <1>2, ClosedRow DEF Terminal
  <2> HIDE DEF c, p
  <2>4. r \in Job /\ r.started = job[k].started /\ r.status = c.status
    BY <2>3 DEF Job
  <2> HIDE DEF r
  <2>5. RowFine(k, r) /\ AbsentFine(k, r, p)
    BY <1>2, <1>3, <2>3, <2>4 DEF RowFine, AbsentFine, Terminal
  <2>6. worker.pc = "idle" \/ mine # k
    BY <1>5, AtWork DEF WorkerFine
  <2> QED  BY <1>1, <1>2, <2>1, <2>2, <2>4, <2>5, <2>6, RowStep
<1> QED  BY <1>1, <1>4, <1>5

LEMMA PurgeJobStep ==
  ASSUME IInv, NEW k \in Jobs, PurgeJob(k)
  PROVE  IInv'
<1>1. /\ job[k].status # "absent" /\ CloudIsLeft /\ UNCHANGED worker /\ plan' = plan
      /\ jobTroubles' \in 0 .. MaxTroubles
  BY TroubleCount DEF PurgeJob, CloudIsLeft
<1>2. /\ job \in [Jobs -> Job] /\ job[k] \in Job /\ plan = [j \in Jobs |-> plan[j]]
      /\ plan[k] \in PlanOf(k) /\ plan' = [plan EXCEPT ![k] = plan[k]]
      /\ PlanFine(k, plan[k]) /\ RowFine(k, job[k])
  BY <1>1, ShapeParts DEF IInv
<1>3. CASE job[k].status = "running"
  <2> DEFINE r == [job[k] EXCEPT !.cancel = TRUE, !.purged = TRUE, !.marker = FALSE]
  <2>1. job' = [job EXCEPT ![k] = r]
    BY <1>2, <1>3 DEF PurgeJob
  <2>2. /\ r \in Job /\ r.status = "running" /\ r.gen = job[k].gen /\ r.cancel
        /\ r.started = job[k].started /\ r.purged
    BY <1>2, <1>3 DEF Job
  <2> HIDE DEF r
  <2>3. RowFine(k, r) /\ AbsentFine(k, r, plan[k])
    BY <1>2, <2>2 DEF RowFine, AbsentFine
  <2>4. worker.pc # "idle" /\ mine = k => WorkerFine(worker, r, plan[k])
    BY <2>2, AtWork DEF WorkerFine, Announced
  <2> QED  BY <1>1, <1>2, <2>1, <2>2, <2>3, <2>4, RowStep
<1>4. CASE job[k].status # "running"
  <2> DEFINE r == [job[k] EXCEPT !.status = "gone", !.marker = FALSE]
  <2>1. job' = [job EXCEPT ![k] = r]
    BY <1>2, <1>4 DEF PurgeJob
  <2>2. /\ r \in Job /\ r.status = "gone" /\ r.cancel = job[k].cancel
        /\ r.started = job[k].started /\ r.purged = job[k].purged
    BY <1>2 DEF Job, JobStatuses
  <2> HIDE DEF r
  <2>3. RowFine(k, r) /\ AbsentFine(k, r, plan[k])
    BY <1>2, <2>2 DEF RowFine, AbsentFine
  <2>4. worker.pc = "idle" \/ mine # k
    BY <1>4, AtWork DEF WorkerFine
  <2> QED  BY <1>1, <1>2, <2>1, <2>2, <2>3, <2>4, RowStep
<1> QED  BY <1>3, <1>4

\* The clock moves a row in a field that nothing here looks at.
LEMMA ClockStep ==
  ASSUME IInv, NEW k \in Jobs, DeadlinePasses(k) \/ PollIsDue(k)
  PROVE  IInv'
<1>1. /\ CloudIsLeft /\ UNCHANGED worker /\ plan' = plan /\ jobTroubles' = jobTroubles
  BY DEF DeadlinePasses, PollIsDue, CloudIsLeft
<1>2. /\ job \in [Jobs -> Job] /\ job[k] \in Job /\ plan = [j \in Jobs |-> plan[j]]
      /\ plan[k] \in PlanOf(k) /\ plan' = [plan EXCEPT ![k] = plan[k]]
      /\ PlanFine(k, plan[k]) /\ RowFine(k, job[k]) /\ AbsentFine(k, job[k], plan[k])
      /\ jobTroubles' \in 0 .. MaxTroubles
  BY <1>1, ShapeParts DEF IInv
<1>3. PICK r \in {[job[k] EXCEPT !.expired = TRUE], [job[k] EXCEPT !.ready = TRUE]} :
         job' = [job EXCEPT ![k] = r]
  BY <1>2 DEF DeadlinePasses, PollIsDue
<1>4. /\ r \in Job /\ r.status = job[k].status /\ r.gen = job[k].gen /\ r.cancel = job[k].cancel
      /\ r.started = job[k].started /\ r.purged = job[k].purged
  BY <1>2, <1>3 DEF Job
<1>5. RowFine(k, r) /\ AbsentFine(k, r, plan[k])
  BY <1>2, <1>4 DEF RowFine, AbsentFine
<1>6. worker.pc # "idle" /\ mine = k => WorkerFine(worker, r, plan[k])
  BY <1>4, AtWork DEF WorkerFine, Announced
<1> QED  BY <1>1, <1>2, <1>3, <1>4, <1>5, <1>6, RowStep

LEMMA NextGenType ==
  ASSUME NEW g \in 0 .. Gens - 1
  PROVE  NextGen(g) \in 0 .. Gens - 1
<1>1. Gens \in Nat \ {0} /\ g + 1 \in Nat
  BY OrganizeAssumption
<1>2. \A a \in Nat, b \in Nat \ {0} : a % b \in 0 .. b - 1
  OBVIOUS
<1> QED  BY <1>1, <1>2 DEF NextGen

\* A step of the queue that may move every row, with the organize lock free before it.
LEMMA RowsStep ==
  ASSUME IInv, worker.pc = "idle", CloudIsLeft, jobTroubles' = jobTroubles,
         job' \in [Jobs -> Job], plan' = [j \in Jobs |-> plan'[j]],
         \A j \in Jobs : /\ plan'[j] \in PlanOf(j) /\ PlanFine(j, plan'[j])
                         /\ RowFine(j, job'[j]) /\ AbsentFine(j, job'[j], plan'[j]),
         \/ worker' = worker
         \/ \E j \in Jobs : /\ worker' \in Working /\ worker'.pc = "load" /\ worker'.job = j
                            /\ job'[j].status = "running" /\ job'[j].started
                            /\ job'[j].gen = worker'.gen
  PROVE  IInv'
<1>1. worker \in {NoJob} \cup Working /\ jobTroubles \in 0 .. MaxTroubles
  BY ShapeParts DEF IInv
<1>2. worker' \in {NoJob} \cup Working
  BY <1>1
<1>3. Shape'
  BY <1>1, <1>2, ShapeKept DEF IInv
<1>4. worker'.pc # "idle" => WorkerFine(worker', job'[worker'.job], plan'[worker'.job])
  BY DEF WorkerFine, Announced, Inside
<1> QED  BY <1>3, <1>4, LocalStep

\* A pending job that lapses ends in review or, when nothing goes on, cancelled.
LEMMA LapsedRow ==
  ASSUME IInv, NEW j \in Jobs, Lapsed(j),
         NEW r, r = Closed(job[j], Expired(j)), NEW p, p = ClosedPlan(plan[j], Expired(j))
  PROVE  /\ r \in Job /\ p \in PlanOf(j) /\ PlanFine(j, p) /\ RowFine(j, r) /\ AbsentFine(j, r, p)
<1> DEFINE status == Expired(j)
<1>1. job[j] \in Job /\ plan[j] \in PlanOf(j) /\ PlanFine(j, plan[j]) /\ RowFine(j, job[j])
  BY ShapeParts DEF IInv
<1>2. status \in Terminal /\ status # "completed" /\ (status = "cancelled" => ~Unsettled(j))
  BY DEF Expired, Terminal
<1>3. status = "cancelled" => Still(j)
  BY <1>2, SettledIsStill
<1>4. r = Closed(job[j], status) /\ p = ClosedPlan(plan[j], status)
  OBVIOUS
<1> HIDE DEF status
<1>5. /\ r \in Job /\ r.cancel = job[j].cancel /\ r.purged = job[j].purged
      /\ r.started = job[j].started /\ r.status \in Terminal \cup {"gone"}
      /\ r.status = "completed" => status = "completed"
      /\ r.status = "cancelled" => status = "cancelled" /\ ~job[j].purged
  BY <1>1, <1>2, <1>4, ClosedRow
<1>6. p \in PlanOf(j) /\ PlanFine(j, p)
  BY <1>1, <1>2, <1>4, ClosedPlanFine
<1>7. RowFine(j, r) /\ AbsentFine(j, r, p)
  BY <1>1, <1>2, <1>3, <1>5 DEF RowFine, AbsentFine, Terminal
<1> QED  BY <1>5, <1>6, <1>7

LEMMA ClaimStep ==
  ASSUME IInv, Claim
  PROVE  IInv'
<1> DEFINE row(j) == IF Lapsed(j) THEN Closed(job[j], Expired(j)) ELSE job[j]
           file(j) == IF Lapsed(j) THEN ClosedPlan(plan[j], Expired(j)) ELSE plan[j]
           lapsed == [j \in Jobs |-> row(j)]
<1>1. /\ worker.pc = "idle" /\ CloudIsLeft /\ jobTroubles' = jobTroubles
      /\ plan' = [j \in Jobs |-> file(j)]
  BY DEF Claim, CloudIsLeft
<1>2. ASSUME NEW j \in Jobs
      PROVE  /\ row(j) \in Job /\ file(j) \in PlanOf(j) /\ PlanFine(j, file(j))
             /\ RowFine(j, row(j)) /\ AbsentFine(j, row(j), file(j))
  <2>1. CASE Lapsed(j)
    BY <2>1, LapsedRow
  <2>2. CASE ~Lapsed(j)
    BY <2>2, ShapeParts DEF IInv
  <2> QED  BY <2>1, <2>2
<1>3. \A j \in Jobs : Ready(j) => ~Lapsed(j)
  BY DEF Ready, Lapsed
<1>4. /\ plan' = [j \in Jobs |-> plan'[j]] /\ \A j \in Jobs : plan'[j] = file(j)
  BY <1>1
<1>5. CASE job' = lapsed /\ UNCHANGED worker
  <2>1. job' \in [Jobs -> Job] /\ \A j \in Jobs : job'[j] = row(j)
    BY <1>2, <1>5
  <2> HIDE DEF row, file
  <2> QED  BY <1>1, <1>2, <1>4, <1>5, <2>1, RowsStep
<1>6. ASSUME NEW k \in Jobs, Ready(k), worker' = Started(k),
             job' = [lapsed EXCEPT ![k].status = "running", ![k].gen = NextGen(@),
                                   ![k].started = TRUE]
      PROVE  IInv'
  <2>1. row(k) = job[k] /\ job[k] \in Job /\ job[k].gen \in 0 .. Gens - 1 /\ job[k].status = "pending"
    BY <1>3, <1>6, ShapeParts DEF IInv, Ready, Job
  <2>2. NextGen(job[k].gen) \in 0 .. Gens - 1
    BY <2>1, NextGenType
  <2> DEFINE r == [job[k] EXCEPT !.status = "running", !.gen = NextGen(job[k].gen), !.started = TRUE]
  <2>3. /\ r \in Job /\ r.status = "running" /\ r.gen = NextGen(job[k].gen) /\ r.started
        /\ r.cancel = job[k].cancel /\ r.purged = job[k].purged
    BY <2>1, <2>2 DEF Job, JobStatuses
  <2>4. lapsed[k] = job[k]
    BY <2>1
  <2>5. job'[k] = r /\ \A j \in Jobs : j # k => job'[j] = row(j)
    BY <1>6, <2>4
  <2>6. job' \in [Jobs -> Job]
    <3>1. job' = [j \in Jobs |-> job'[j]]
      BY <1>6
    <3>2. \A j \in Jobs : job'[j] \in Job
      BY <1>2, <2>3, <2>5
    <3> QED  BY <3>1, <3>2
  <2>7. RowFine(k, job'[k]) /\ AbsentFine(k, job'[k], file(k))
    <3>1. RowFine(k, job[k])
      BY DEF IInv
    <3> HIDE DEF r
    <3> QED  BY <2>3, <2>5, <3>1 DEF RowFine, AbsentFine
  <2>8. /\ worker' \in Working /\ worker'.pc = "load" /\ worker'.job = k
        /\ worker'.gen = NextGen(job[k].gen)
    <3>1. <<>> \in Seq(Items)
      BY EmptySeq
    <3> QED  BY <1>6, <2>2, <3>1 DEF Started, Working, Places, Terminal
  <2> HIDE DEF row, file, r, lapsed
  <2>9. \A j \in Jobs : RowFine(j, job'[j]) /\ AbsentFine(j, job'[j], plan'[j])
    BY <1>2, <1>4, <2>5, <2>7
  <2>10. \A j \in Jobs : plan'[j] \in PlanOf(j) /\ PlanFine(j, plan'[j])
    BY <1>2, <1>4
  <2> QED  BY <1>1, <1>4, <2>3, <2>5, <2>6, <2>8, <2>9, <2>10, RowsStep
<1> QED  BY <1>5, <1>6 DEF Claim

LEMMA RecoverJobsStep ==
  ASSUME IInv, RecoverJobs
  PROVE  IInv'
<1> DEFINE freed(j) == IF Resumed(j) THEN [job[j] EXCEPT !.status = "pending", !.ready = FALSE]
                       ELSE Closed(job[j], RecoveredStatus(j))
           row(j) == IF Orphaned(j) THEN [freed(j) EXCEPT !.gen = NextGen(@)] ELSE job[j]
           file(j) == IF Orphaned(j) /\ ~Resumed(j)
                      THEN PlanAfter(j, RecoveredStatus(j)) ELSE plan[j]
<1>1. /\ worker.pc = "idle" /\ CloudIsLeft /\ jobTroubles' = jobTroubles /\ UNCHANGED worker
      /\ plan' = [j \in Jobs |-> file(j)] /\ job' = [j \in Jobs |-> row(j)]
  BY DEF RecoverJobs, CloudIsLeft
<1>2. ASSUME NEW j \in Jobs
      PROVE  /\ row(j) \in Job /\ file(j) \in PlanOf(j) /\ PlanFine(j, file(j))
             /\ RowFine(j, row(j)) /\ AbsentFine(j, row(j), file(j))
  <2>1. /\ job[j] \in Job /\ plan[j] \in PlanOf(j) /\ PlanFine(j, plan[j]) /\ RowFine(j, job[j])
        /\ AbsentFine(j, job[j], plan[j])
    BY ShapeParts DEF IInv
  <2>2. CASE ~Orphaned(j)
    BY <2>1, <2>2
  <2>3. ASSUME Orphaned(j)
        PROVE  /\ freed(j) \in Job /\ file(j) \in PlanOf(j) /\ PlanFine(j, file(j))
               /\ RowFine(j, freed(j)) /\ freed(j).status # "absent"
    <3>1. CASE Resumed(j)
      <4>1. /\ freed(j) \in Job /\ freed(j).status = "pending"
            /\ freed(j).cancel = job[j].cancel /\ freed(j).purged = job[j].purged
            /\ freed(j).started = job[j].started
        BY <2>1, <3>1 DEF Job, JobStatuses
      <4> HIDE DEF freed
      <4> QED  BY <2>1, <3>1, <4>1 DEF RowFine
    <3>2. CASE ~Resumed(j)
      <4> DEFINE status == RecoveredStatus(j)
      <4>1. status \in Terminal /\ status # "completed" /\ (status = "cancelled" => job[j].cancel)
        BY <3>2 DEF RecoveredStatus, Terminal
      <4>2. freed(j) = Closed(job[j], status) /\ file(j) = PlanAfter(j, status)
        BY <2>3, <3>2
      <4> HIDE DEF freed, file, status
      <4>3. /\ freed(j) \in Job /\ freed(j).cancel = job[j].cancel /\ freed(j).purged = job[j].purged
            /\ freed(j).started = job[j].started /\ freed(j).status \in Terminal \cup {"gone"}
            /\ freed(j).status = "completed" => status = "completed"
            /\ freed(j).status = "cancelled" => status = "cancelled" /\ ~job[j].purged
        BY <2>1, <4>1, <4>2, ClosedRow
      <4>4. file(j) \in PlanOf(j) /\ PlanFine(j, file(j))
        BY <2>1, <4>1, <4>2, ClosedPlanFine DEF PlanAfter
      <4> QED  BY <2>1, <4>1, <4>3, <4>4 DEF RowFine, Terminal
    <3> QED  BY <3>1, <3>2
  <2>4. CASE Orphaned(j)
    <3> DEFINE f == freed(j)
    <3>1. f \in Job /\ f.gen \in 0 .. Gens - 1
      BY <2>3, <2>4 DEF Job
    <3>2. NextGen(f.gen) \in 0 .. Gens - 1
      BY <3>1, NextGenType
    <3>3. row(j) = [f EXCEPT !.gen = NextGen(f.gen)]
      BY <2>4
    <3> HIDE DEF f, row
    <3>4. /\ row(j) \in Job /\ row(j).status = f.status /\ row(j).cancel = f.cancel
          /\ row(j).purged = f.purged /\ row(j).started = f.started
      BY <3>1, <3>2, <3>3 DEF Job
    <3>5. RowFine(j, f) /\ f.status # "absent"
      BY <2>3, <2>4 DEF f
    <3>6. RowFine(j, row(j)) /\ row(j).status # "absent"
      BY <3>4, <3>5 DEF RowFine
    <3> QED  BY <2>3, <2>4, <3>4, <3>6 DEF AbsentFine
  <2> HIDE DEF row, file, freed
  <2> QED  BY <2>2, <2>4
<1>3. /\ plan' = [j \in Jobs |-> plan'[j]] /\ \A j \in Jobs : plan'[j] = file(j) /\ job'[j] = row(j)
  BY <1>1
<1>4. job' \in [Jobs -> Job]
  <2> HIDE DEF row
  <2> QED  BY <1>1, <1>2
<1> HIDE DEF row, file
<1> QED  BY <1>1, <1>2, <1>3, <1>4, RowsStep

-----------------------------------------------------------------------------
(* The invariant.                                                          *)

LEMMA StartsFine ==
  ASSUME JobsInit
  PROVE  IInv
<1> DEFINE empty == [status |-> "absent", gen |-> 0, cancel |-> FALSE, purged |-> FALSE,
                     expired |-> FALSE, marker |-> FALSE, ready |-> FALSE, started |-> FALSE,
                     since |-> 0]
           items(j) == [i \in Ops(j) |-> "not_started"]
           file(j) == [status |-> "confirmed", items |-> items(j), logged |-> FALSE,
                       torn |-> FALSE, finalizing |-> FALSE]
<1>1. /\ job = [j \in Jobs |-> empty] /\ plan = [j \in Jobs |-> file(j)] /\ worker = NoJob
      /\ cloud = [j \in Jobs |-> [i \in Ops(j) |-> "none"]]
      /\ sent = [j \in Jobs |-> [i \in Ops(j) |-> 0]]
      /\ triggered = [j \in Jobs |-> 0] /\ jobTroubles = 0
  BY DEF JobsInit
<1>2. job \in [Jobs -> Job] /\ \A j \in Jobs : job[j] = empty
  <2>1. empty \in Job
    BY OrganizeAssumption DEF Job, JobStatuses
  <2> HIDE DEF empty
  <2> QED  BY <1>1, <2>1
<1>3. ASSUME NEW j \in Jobs
      PROVE  /\ items(j) \in [Ops(j) -> Items] /\ \A i \in Ops(j) : items(j)[i] = "not_started"
             /\ file(j) \in PlanOf(j) /\ plan[j] = file(j) /\ file(j).items = items(j)
             /\ file(j).status = "confirmed"
  <2>1. items(j) \in [Ops(j) -> Items] /\ \A i \in Ops(j) : items(j)[i] = "not_started"
    BY DEF Items
  <2> HIDE DEF items
  <2>2. file(j) \in PlanOf(j) /\ file(j).items = items(j) /\ file(j).status = "confirmed"
    BY <2>1 DEF PlanOf, PlanStatuses
  <2> HIDE DEF file
  <2> QED  BY <1>1, <2>1, <2>2
<1>4. ASSUME NEW j \in Jobs
      PROVE  /\ cloud[j] \in [Ops(j) -> CloudStates] /\ sent[j] \in [Ops(j) -> Nat]
             /\ \A i \in Ops(j) : cloud[j][i] = "none" /\ sent[j][i] = 0
             /\ triggered[j] = 0
  <2>1. cloud[j] = [i \in Ops(j) |-> "none"] /\ sent[j] = [i \in Ops(j) |-> 0] /\ triggered[j] = 0
    BY <1>1
  <2> QED  BY <2>1 DEF CloudStates
<1> HIDE DEF items, file
<1>5. JobsTypeOK
  <2>1. worker \in {NoJob} /\ triggered \in [Jobs -> Nat] /\ jobTroubles \in 0 .. MaxTroubles
    BY <1>1, OrganizeAssumption
  <2> QED  BY <1>2, <1>3, <1>4, <2>1 DEF JobsTypeOK, PlanOf, CloudStates
<1>6. Shape
  <2>1. plan = [j \in Jobs |-> plan[j]] /\ cloud = [j \in Jobs |-> cloud[j]]
        /\ sent = [j \in Jobs |-> sent[j]]
    BY <1>1
  <2> QED  BY <1>5, <2>1 DEF Shape
<1>7. ASSUME NEW j \in Jobs
      PROVE  PlanFine(j, plan[j]) /\ RowFine(j, job[j]) /\ AbsentFine(j, job[j], plan[j])
  <2>1. Truthful(j, items(j))
    BY <1>3, <1>4 DEF Truthful
  <2> QED  BY <1>2, <1>3, <1>4, <2>1 DEF PlanFine, RowFine, AbsentFine
<1>8. SentOnce /\ worker.pc = "idle"
  BY <1>1, <1>4 DEF SentOnce, NoJob
<1> QED  BY <1>6, <1>7, <1>8 DEF IInv

LEMMA WorkStep ==
  ASSUME IInv, Work
  PROVE  IInv'
  BY StopStep, LoadPlanStep, ReconcileStep, LookStep, IntendStep, RecheckStep, SendOperationStep,
     ReceiptStep, VerifyStep, LostStep, SettleStep, PendStep, DeferStep, AnnounceStep, TriggerStep,
     ClosePlanStep, FinishJobStep, Zenon DEF Work

LEMMA StutterStep ==
  ASSUME IInv, UNCHANGED jobVars
  PROVE  IInv'
<1>1. CloudIsLeft /\ UNCHANGED <<job, plan, worker, jobTroubles>>
  BY DEF jobVars, CloudIsLeft
<1>2. Shape'
  BY <1>1, ShapeParts, ShapeKept DEF IInv
<1> QED  BY <1>1, <1>2, LocalStep DEF IInv, mine

LEMMA Preserved ==
  ASSUME IInv, [JobsNext]_jobVars
  PROVE  IInv'
<1>1. CASE \E j \in Jobs : \/ EnqueueJob(j) \/ CancelJob(j) \/ PurgeJob(j)
                           \/ DeadlinePasses(j) \/ PollIsDue(j) \/ CopyEnds(j)
  BY <1>1, EnqueueJobStep, CancelJobStep, PurgeJobStep, ClockStep, CopyEndsStep
<1>2. CASE Claim \/ RecoverJobs \/ Work \/ CheckFails \/ FinishFails \/ CrashWorker
  BY <1>2, ClaimStep, RecoverJobsStep, WorkStep, CheckFailsStep, FinishFailsStep, CrashWorkerStep
<1>3. CASE UNCHANGED jobVars
  BY <1>3, StutterStep
<1> QED  BY <1>1, <1>2, <1>3 DEF JobsNext

\* The rows, plans, journals and the worker's record always tell the truth of the cloud
\* that IInv states, for any jobs, plans, faults and bounds: the inductive invariant of
\* the queue and its worker.
THEOREM RecordsTellTruth == JobsSpec => []IInv
<1>1. JobsInit => IInv
  BY StartsFine
<1>2. IInv /\ [JobsNext]_jobVars => IInv'
  BY Preserved
<1> QED  BY <1>1, <1>2, PTL DEF JobsSpec

\* Rows, plans and the worker's record keep their types through every step of the
\* queue, the worker and the cloud.
THEOREM JobsTypeCorrect == JobsSpec => []JobsTypeOK
<1>1. IInv => JobsTypeOK
  BY DEF IInv, Shape
<1> QED  BY <1>1, RecordsTellTruth, PTL

\* No operation of a plan is sent to the cloud twice and no STRM refresh triggered
\* twice, whatever crashes, failed records, lost answers, deferrals and recoveries lie
\* between: the intent is on disk before the request leaves.
THEOREM SentOnceAlways == JobsSpec => []SentOnce
<1>1. IInv => SentOnce
  BY DEF IInv
<1> QED  BY <1>1, RecordsTellTruth, PTL

\* A job that the queue shows as cancelled has no copy under way in the cloud, whether
\* it was cancelled while pending, by its worker, by expiry or by the recovery.
THEOREM CancelledAlwaysSettled == JobsSpec => []CancelledIsSettled
<1>1. IInv => CancelledIsSettled
  BY DEF IInv, CancelledIsSettled, RowFine, Still
<1> QED  BY <1>1, RecordsTellTruth, PTL

\* A job that the queue shows as completed had each of its operations done in the cloud,
\* also when its worker died after the outcome was stored and another read it back.
THEOREM CompletedAlwaysTrue == JobsSpec => []CompletedIsTrue
<1>1. IInv => CompletedIsTrue
  BY DEF IInv, CompletedIsTrue, RowFine, Done
<1> QED  BY <1>1, RecordsTellTruth, PTL

\* Only the worker sends, and it holds a row without an accepted cancellation when a
\* copy is about to leave.
LEMMA NoLateCopy ==
  ASSUME IInv, [JobsNext]_jobVars, NEW j \in Jobs, job[j].cancel, ~job[j].purged,
         NEW i \in Ops(j), Plans[j][i] = "copy"
  PROVE  sent'[j][i] = sent[j][i]
<1>1. CASE SendOperation
  <2> DEFINE k == worker.at
  <2>1. /\ worker.pc = "send" /\ worker.pc \in Inside /\ worker.pc \in Placed
        /\ sent' = [sent EXCEPT ![mine][k] = @ + 1]
    BY <1>1 DEF SendOperation, Inside, Places, Placed
  <2>2. mine \in Jobs /\ k \in Ops(mine) /\ WorkerFine(worker, job[mine], plan[mine])
    BY <2>1, Inner, AtWork
  <2>3. Plans[mine][k] = "copy" /\ job[mine].cancel => job[mine].purged
    BY <2>1, <2>2 DEF WorkerFine, Announced, mine
  <2>4. j # mine \/ i # k
    BY <2>3
  <2>5. /\ sent = [q \in Jobs |-> sent[q]] /\ \A q \in Jobs : sent[q] \in [Ops(q) -> Nat]
    BY DEF IInv, Shape, JobsTypeOK
  <2>6. sent' = [sent EXCEPT ![mine] = [sent[mine] EXCEPT ![k] = sent[mine][k] + 1]]
    BY <2>1
  <2> QED  BY <2>2, <2>4, <2>5, <2>6
<1>2. CASE ~SendOperation
  <2>1. sent' = sent
    BY <1>2 DEF JobsNext, Work, jobVars, EnqueueJob, CancelJob, PurgeJob, DeadlinePasses, PollIsDue,
       CopyEnds, Claim, RecoverJobs, Stop, LoadPlan, Reconcile, Look, Intend, Recheck, Receipt,
       Verify, Lost, Settle, Pend, Defer, Announce, Trigger, ClosePlan, FinishJob, CheckFails,
       FinishFails, CrashWorker
  <2> QED  BY <2>1
<1> QED  BY <1>1, <1>2

\* No copy leaves after a cancellation that the queue accepted, however the request
\* crosses with the intent, the second check and the request of the worker.
THEOREM NoCopyAfterCancelAlways == JobsSpec => NoCopyAfterCancel
<1>1. IInv /\ [JobsNext]_jobVars =>
        [\A j \in Jobs : job[j].cancel /\ ~job[j].purged =>
           \A i \in Ops(j) : Plans[j][i] = "copy" => sent'[j][i] = sent[j][i]]_jobVars
  BY NoLateCopy
<1> QED  BY <1>1, RecordsTellTruth, PTL DEF JobsSpec, NoCopyAfterCancel

-----------------------------------------------------------------------------
(* A job that ended.                                                       *)

Over(j) == job[j].status \in Terminal \cup {"gone"}

Left(j) ==
    /\ plan'[j] = plan[j] /\ sent'[j] = sent[j] /\ triggered'[j] = triggered[j]
    /\ job'[j].status \in {job[j].status, "gone"}

EndedStays == [][\A j \in Jobs : Over(j) => Left(j)]_jobVars

\* The worker's steps are about its own job.
LEMMA OnlyMine ==
  ASSUME Shape, worker.pc # "idle", Work \/ CheckFails \/ FinishFails \/ CrashWorker,
         NEW j \in Jobs, j # mine
  PROVE  Left(j)
<1>0. /\ job \in [Jobs -> Job] /\ triggered \in [Jobs -> Nat]
      /\ plan = [k \in Jobs |-> plan[k]] /\ sent = [k \in Jobs |-> sent[k]]
  BY DEF Shape, JobsTypeOK
<1>1. ASSUME NEW new, plan' = [plan EXCEPT ![mine] = new]
      PROVE  plan'[j] = plan[j]
  BY <1>0, <1>1
<1>2. plan'[j] = plan[j]
  BY <1>0, <1>1 DEF Work, Stop, LoadPlan, Reconcile, Look, Intend, Recheck, SendOperation, Send, Receipt, Verify,
     Lost, Settle, Pend, Defer, Announce, Trigger, ClosePlan, FinishJob, CheckFails, FinishFails,
     CrashWorker, Checkpoint, CheckpointFails, Rewritten
<1>3. sent'[j] = sent[j]
  BY <1>0 DEF Work, Stop, LoadPlan, Reconcile, Look, Intend, Recheck, SendOperation, Send, Receipt, Verify,
     Lost, Settle, Pend, Defer, Announce, Trigger, ClosePlan, FinishJob, CheckFails, FinishFails,
     CrashWorker
<1>4. triggered'[j] = triggered[j]
  BY <1>0 DEF Work, Stop, LoadPlan, Reconcile, Look, Intend, Recheck, SendOperation, Send, Receipt, Verify,
     Lost, Settle, Pend, Defer, Announce, Trigger, ClosePlan, FinishJob, CheckFails, FinishFails,
     CrashWorker
<1>5. job'[j] = job[j]
  BY <1>0 DEF Work, Stop, LoadPlan, Reconcile, Look, Intend, Recheck, SendOperation, Send, Receipt, Verify,
     Lost, Settle, Pend, Defer, Announce, Trigger, ClosePlan, FinishJob, CheckFails, FinishFails,
     CrashWorker
<1> QED  BY <1>2, <1>3, <1>4, <1>5 DEF Left

LEMMA WorkerIsBusy ==
  ASSUME Work \/ CheckFails \/ FinishFails \/ CrashWorker
  PROVE  worker.pc # "idle"
BY DEF Work, Stop, LoadPlan, Reconcile, Look, Intend, Recheck, SendOperation, Send, Receipt, Verify,
   Lost, Settle, Pend, Defer, Announce, Trigger, ClosePlan, FinishJob, CheckFails, FinishFails,
   CrashWorker, Checking

LEMMA EndedLeft ==
  ASSUME IInv, [JobsNext]_jobVars, NEW j \in Jobs, Over(j)
  PROVE  Left(j)
<1>0. /\ job \in [Jobs -> Job] /\ job[j] \in Job /\ triggered \in [Jobs -> Nat]
      /\ plan = [k \in Jobs |-> plan[k]] /\ sent = [k \in Jobs |-> sent[k]]
  BY DEF IInv, Shape, JobsTypeOK
<1>1. job[j].status \notin {"absent", "pending", "running"}
  BY DEF Over, Terminal
<1>2. CASE Work \/ CheckFails \/ FinishFails \/ CrashWorker
  <2>1. worker.pc # "idle"
    BY <1>2, WorkerIsBusy
  <2>2. j # mine
    BY <1>1, <2>1 DEF IInv, WorkerFine
  <2> QED  BY <1>2, <2>1, <2>2, OnlyMine DEF IInv
<1>3. ASSUME NEW k \in Jobs, EnqueueJob(k) \/ CancelJob(k) \/ DeadlinePasses(k) \/ PollIsDue(k)
      PROVE  Left(j)
  <2>1. j # k
    BY <1>1, <1>3 DEF EnqueueJob, CancelJob, DeadlinePasses, PollIsDue
  <2>2. job'[j] = job[j] /\ plan'[j] = plan[j]
    BY <1>0, <1>3, <2>1 DEF EnqueueJob, CancelJob, DeadlinePasses, PollIsDue
  <2>3. sent' = sent /\ triggered' = triggered
    BY <1>3 DEF EnqueueJob, CancelJob, DeadlinePasses, PollIsDue
  <2> QED  BY <2>2, <2>3 DEF Left
<1>4. ASSUME NEW k \in Jobs, PurgeJob(k) PROVE Left(j)
  <2>1. UNCHANGED <<plan, sent, triggered>>
    BY <1>4 DEF PurgeJob
  <2>2. CASE j # k
    BY <1>0, <1>4, <2>1, <2>2 DEF PurgeJob, Left
  <2>3. CASE j = k
    <3>1. job' = [job EXCEPT ![j] = [job[j] EXCEPT !.status = "gone", !.marker = FALSE]]
      BY <1>1, <1>4, <2>3 DEF PurgeJob
    <3>2. job'[j].status = "gone"
      BY <1>0, <3>1 DEF Job
    <3> QED  BY <2>1, <3>2 DEF Left
  <2> QED  BY <2>2, <2>3
<1>5. ASSUME NEW k \in Jobs, CopyEnds(k) PROVE Left(j)
  BY <1>5 DEF CopyEnds, Left
<1>6. CASE Claim
  <2>1. ~Lapsed(j) /\ ~Ready(j)
    BY <1>1 DEF Lapsed, Ready
  <2>2. plan'[j] = plan[j] /\ sent' = sent /\ triggered' = triggered
    BY <1>6, <2>1 DEF Claim
  <2> DEFINE lapsed == [k \in Jobs |-> IF Lapsed(k) THEN Closed(job[k], Expired(k)) ELSE job[k]]
  <2>3. lapsed[j] = job[j]
    BY <2>1
  <2>4. \/ job' = lapsed
        \/ \E k \in Jobs : /\ Ready(k)
                           /\ job' = [lapsed EXCEPT ![k].status = "running", ![k].gen = NextGen(@),
                                                    ![k].started = TRUE]
    BY <1>6 DEF Claim
  <2>5. job'[j] = job[j]
    <3> HIDE DEF lapsed
    <3>1. lapsed = [k \in Jobs |-> lapsed[k]]
      BY DEF lapsed
    <3> QED  BY <2>1, <2>3, <2>4, <3>1
  <2> QED  BY <2>2, <2>5 DEF Left
<1>7. CASE RecoverJobs
  <2>1. ~Orphaned(j)
    BY <1>1 DEF Orphaned
  <2> QED  BY <1>7, <2>1 DEF RecoverJobs, Left
<1>8. CASE UNCHANGED jobVars
  BY <1>8 DEF jobVars, Left
<1> QED  BY <1>2, <1>3, <1>4, <1>5, <1>6, <1>7, <1>8 DEF JobsNext

\* An outcome that the queue shows is the last word: no worker, recovery or late answer
\* reopens the job, and nothing is sent, triggered or recorded for it any more; only the
\* privacy purge removes its row.
THEOREM EndedForGood == JobsSpec => EndedStays
<1>1. IInv /\ [JobsNext]_jobVars => \A j \in Jobs : Over(j) => Left(j)
  BY EndedLeft
<1> QED  BY <1>1, RecordsTellTruth, PTL DEF JobsSpec, EndedStays
=============================================================================
