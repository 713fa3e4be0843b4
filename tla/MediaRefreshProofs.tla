------------------------- MODULE MediaRefreshProofs -------------------------
(***************************************************************************)
(* The refresh queue loses no change, for any number of processes, groups, *)
(* paths, enqueues and faults, and it implements DurableIntent.            *)
(***************************************************************************)
EXTENDS MediaRefresh, TLAPS

Busy   == {"fetch", "call", "settle"}
Locked == {"first", "recover", "top", "poll"} \cup Busy

\* A coordinator past the lock holds it.
LockHeld == \A w \in Workers : pc[w] \in Locked => lock = w

\* Claims are held exactly while a group is processed, each once.
ClaimsWhileBusy ==
    \A w \in Workers :
        /\ pc[w] \notin Busy => cur[w] = None /\ batch[w] = {}
        /\ pc[w] \in Busy => cur[w] \in Groups /\ cur[w] \notin batch[w]

\* Claiming overwrites inflight_paths: outside a running claim there are none.
InflightOnlyRunning ==
    \A g \in Groups : status[g] # "running" => inflight[g] = {}

\* A claim about to be confirmed owes nothing but what is pending again.
CompletedMeansServed ==
    \A w \in Workers :
        pc[w] = "settle" /\ outcome[w] = "completed" =>
            \A p \in inflight[cur[w]] :
                <<cur[w], p>> \in fresh => p \in pending[cur[w]]

\* NoLostChange, element by element.
FreshHeld ==
    \A g \in Groups, p \in Paths :
        <<g, p>> \in fresh => p \in pending[g] \cup inflight[g]

Shape == LockHeld /\ ClaimsWhileBusy /\ ClaimsStayValid
Owed  == InflightOnlyRunning /\ CompletedMeansServed /\ FreshHeld

IInv == TypeOK /\ Shape /\ Owed

-----------------------------------------------------------------------------
LEMMA RetryDelayType == ASSUME NEW a \in 0 .. BackoffCap PROVE RetryDelay(a) \in Nat
  <1>1. MinOf(a, BackoffCap) \in 0 .. BackoffCap
    BY MediaRefreshAssumption DEF MinOf
  <1>2. 2^MinOf(a, BackoffCap) \in Nat
    BY <1>1, PowersAssumption
  <1>. QED
    BY <1>2, MediaRefreshAssumption DEF RetryDelay

LEMMA LessType == ASSUME NEW n \in Nat PROVE Less(n) \in Nat
  BY DEF Less

\* Going on with the batch keeps the coordinator's variables in their types.
LEMMA NextOfBatchType ==
  ASSUME TypeOK, NEW w \in Workers, NextOfBatch(w)
  PROVE  /\ batch' \in [Workers -> SUBSET Groups]
         /\ cur' \in [Workers -> Groups \cup {None}]
         /\ pc' \in [Workers -> Places]
  <1>1. CASE batch[w] # {} /\ ~stopping[w]
    <2>1. PICK g \in batch[w] : /\ cur' = [cur EXCEPT ![w] = g]
                                /\ batch' = [batch EXCEPT ![w] = @ \ {g}]
                                /\ pc' = [pc EXCEPT ![w] = "fetch"]
      BY <1>1 DEF NextOfBatch
    <2>2. g \in Groups /\ batch[w] \in SUBSET Groups
      BY DEF TypeOK
    <2>. QED
      BY <2>1, <2>2 DEF TypeOK, Places
  <1>2. CASE batch[w] = {} \/ stopping[w]
    BY <1>2 DEF NextOfBatch, TypeOK, Places
  <1>. QED
    BY <1>1, <1>2 DEF NextOfBatch

\* Settling a group keeps the queue's variables in their types.
LEMMA SettledType ==
  ASSUME TypeOK, NEW g \in Groups, NEW out \in Outcomes, Settled(g, out)
  PROVE  /\ status' \in [Groups -> Statuses]
         /\ pending' \in [Groups -> SUBSET Paths]
         /\ inflight' \in [Groups -> SUBSET Paths]
         /\ due' \in [Groups -> Nat]
         /\ attempts' \in [Groups -> 0 .. BackoffCap]
         /\ owner' \in [Groups -> Workers \cup {None}]
         /\ lease' \in [Groups -> Nat]
         /\ gen' \in [Groups -> 0 .. GenWrap]
  <1>. USE MediaRefreshAssumption DEF TypeOK, Statuses, Outcomes
  <1>1. RetryDelay(attempts[g]) \in Nat
    BY RetryDelayType
  <1>2. due' \in [Groups -> Nat]
    BY <1>1 DEF Settled
  <1>3. attempts' \in [Groups -> 0 .. BackoffCap]
    BY DEF Settled, MinOf
  <1>4. pending' \in [Groups -> SUBSET Paths]
    BY DEF Settled, Kept, Held
  <1>. QED
    BY <1>2, <1>3, <1>4 DEF Settled

\* Type correctness of the queue and of the coordinators.
LEMMA TypeStep == TypeOK /\ Shape /\ [Next]_vars => TypeOK'
  <1>. SUFFICES ASSUME TypeOK, Shape, [Next]_vars PROVE TypeOK'
    OBVIOUS
  <1>. USE MediaRefreshAssumption DEF TypeOK, Statuses, Outcomes, Places
  <1>1. ASSUME NEW g \in Groups, NEW P \in SUBSET Paths, Enqueue(g, P) PROVE TypeOK'
    BY <1>1 DEF Enqueue, workVars
  <1>2. ASSUME NEW w \in Workers, Start(w) PROVE TypeOK'
    BY <1>2 DEF Start, queueVars, workVars
  <1>3. ASSUME NEW w \in Workers, AcquireLock(w) PROVE TypeOK'
    BY <1>3 DEF AcquireLock, queueVars, workVars
  <1>4. ASSUME NEW w \in Workers, CheckStop(w) PROVE TypeOK'
    BY <1>4 DEF CheckStop, queueVars, workVars
  <1>5. ASSUME NEW w \in Workers, Exit(w) PROVE TypeOK'
    BY <1>5 DEF Exit, queueVars, workVars
  <1>6. ASSUME NEW w \in Workers, Recover(w) PROVE TypeOK'
    BY <1>6 DEF Recover, Recovered, Held, workVars
  <1>7. ASSUME NEW w \in Workers, NEW C \in SUBSET Groups, Claim(w, C) PROVE TypeOK'
    <2>1. gen' \in [Groups -> 0 .. GenWrap]
      BY <1>7 DEF Claim
    <2>2. claimGen' \in [Workers -> [Groups -> 0 .. GenWrap]]
      BY <1>7, <2>1 DEF Claim
    <2>3. cur' \in [Workers -> Groups \cup {None}] /\ batch' \in [Workers -> SUBSET Groups]
      BY <1>7 DEF Claim
    <2>4. /\ status' \in [Groups -> Statuses]
          /\ pending' \in [Groups -> SUBSET Paths]
          /\ inflight' \in [Groups -> SUBSET Paths]
          /\ due' \in [Groups -> Nat]
          /\ owner' \in [Groups -> Workers \cup {None}]
          /\ lease' \in [Groups -> Nat]
      BY <1>7 DEF Claim, Recovered, Held
    <2>. QED
      BY <1>7, <2>1, <2>2, <2>3, <2>4 DEF Claim
  <1>8. ASSUME NEW w \in Workers, Idle(w) PROVE TypeOK'
    BY <1>8 DEF Idle, queueVars, workVars
  <1>9. ASSUME NEW w \in Workers, ReadRecent(w) PROVE TypeOK'
    BY <1>9 DEF ReadRecent, queueVars
  <1>10. ASSUME NEW w \in Workers, CallOK(w) PROVE TypeOK'
    <2>1. CallOutcome(w) \in Outcomes
      BY DEF CallOutcome
    <2>2. cur[w] \in Groups
      BY <1>10 DEF CallOK, Shape, ClaimsWhileBusy, Busy
    <2>3. succeeded' \in [Workers -> SUBSET Targets]
      <3>1. Wanted(w) \ skip[w] \in SUBSET Targets
        BY <2>2 DEF Wanted, TargetsOf
      <3>. QED
        BY <1>10, <3>1 DEF CallOK
    <2>. QED
      BY <1>10, <2>1, <2>3 DEF CallOK, queueVars
  <1>11. ASSUME NEW w \in Workers, Settle(w) PROVE TypeOK'
    <2>1. /\ batch' \in [Workers -> SUBSET Groups]
          /\ cur' \in [Workers -> Groups \cup {None}]
          /\ pc' \in [Workers -> Places]
      BY <1>11, NextOfBatchType DEF Settle
    <2>2. CASE LeaseHolds(w, cur[w])
      <3>1. cur[w] \in Groups /\ outcome[w] \in Outcomes
        BY <1>11 DEF Settle, Shape, ClaimsWhileBusy, Busy
      <3>2. Settled(cur[w], outcome[w])
        BY <1>11, <2>2 DEF Settle
      <3>3. recent' \in [Targets -> Nat]
        BY <1>11, <2>2 DEF Settle
      <3>. QED
        BY <1>11, <2>1, <3>1, <3>2, <3>3, SettledType DEF Settle
    <2>3. CASE ~LeaseHolds(w, cur[w])
      BY <1>11, <2>1, <2>3 DEF Settle, queueVars
    <2>. QED
      BY <2>2, <2>3
  <1>12. ASSUME NEW w \in Workers, Stop(w) PROVE TypeOK'
    BY <1>12 DEF Stop, queueVars, workVars
  <1>13. ASSUME NEW w \in Workers, Crash(w) PROVE TypeOK'
    BY <1>13 DEF Crash, queueVars
  <1>14. ASSUME NEW w \in Workers, NoClient(w) PROVE TypeOK'
    BY <1>14 DEF NoClient, queueVars
  <1>15. ASSUME NEW w \in Workers, NEW done \in SUBSET Targets,
                NEW known \in SUBSET Targets, CallFailed(w, done, known)
         PROVE  TypeOK'
    BY <1>15 DEF CallFailed, queueVars
  <1>16. ASSUME NEW w \in Workers, SettleFailed(w) PROVE TypeOK'
    <2>1. /\ batch' \in [Workers -> SUBSET Groups]
          /\ cur' \in [Workers -> Groups \cup {None}]
          /\ pc' \in [Workers -> Places]
      BY <1>16, NextOfBatchType DEF SettleFailed
    <2>. QED
      BY <1>16, <2>1 DEF SettleFailed, queueVars
  <1>17. CASE Tick
    BY <1>17, LessType DEF Tick, workVars
  <1>18. CASE UNCHANGED vars
    BY <1>18 DEF vars, queueVars, workVars
  <1>. QED
    BY <1>1, <1>2, <1>3, <1>4, <1>5, <1>6, <1>7, <1>8, <1>9, <1>10, <1>11, <1>12,
       <1>13, <1>14, <1>15, <1>16, <1>17, <1>18 DEF Next, Work, Fault

-----------------------------------------------------------------------------
\* Only the holder of the lock has claims.
LEMMA OneConsumer ==
  ASSUME TypeOK, Shape, NEW w \in Workers, NEW v \in Workers, v # w, pc[w] \in Locked
  PROVE  pc[v] \notin Locked /\ cur[v] = None /\ batch[v] = {}
  BY DEF Shape, LockHeld, ClaimsWhileBusy, Locked

\* Lock ownership and the shape of the claims survive every step.
LEMMA LockStep == TypeOK /\ Shape /\ [Next]_vars => LockHeld' /\ ClaimsWhileBusy'
  <1>. SUFFICES ASSUME TypeOK, Shape, [Next]_vars PROVE LockHeld' /\ ClaimsWhileBusy'
    OBVIOUS
  <1>. USE MediaRefreshAssumption
       DEF TypeOK, Places, Shape, LockHeld, ClaimsWhileBusy, Busy, Locked
  <1>1. ASSUME NEW g \in Groups, NEW P \in SUBSET Paths, Enqueue(g, P)
        PROVE  LockHeld' /\ ClaimsWhileBusy'
    BY <1>1 DEF Enqueue, workVars
  <1>2. ASSUME NEW w \in Workers, Start(w) PROVE LockHeld' /\ ClaimsWhileBusy'
    BY <1>2 DEF Start, workVars
  <1>3. ASSUME NEW w \in Workers, AcquireLock(w) PROVE LockHeld' /\ ClaimsWhileBusy'
    BY <1>3 DEF AcquireLock, workVars
  <1>4. ASSUME NEW w \in Workers, CheckStop(w) PROVE LockHeld' /\ ClaimsWhileBusy'
    BY <1>4 DEF CheckStop, workVars
  <1>5. ASSUME NEW w \in Workers, Exit(w) PROVE LockHeld' /\ ClaimsWhileBusy'
    BY <1>5 DEF Exit, workVars
  <1>6. ASSUME NEW w \in Workers, Recover(w) PROVE LockHeld' /\ ClaimsWhileBusy'
    BY <1>6 DEF Recover, workVars
  <1>7. ASSUME NEW w \in Workers, NEW C \in SUBSET Groups, Claim(w, C)
        PROVE  LockHeld' /\ ClaimsWhileBusy'
    <2>1. LockHeld'
      BY <1>7 DEF Claim
    <2>2. PICK g \in C : cur' = [cur EXCEPT ![w] = g] /\ batch' = [batch EXCEPT ![w] = C \ {g}]
      BY <1>7 DEF Claim
    <2>3. ClaimsWhileBusy'
      BY <1>7, <2>2 DEF Claim
    <2>. QED
      BY <2>1, <2>3
  <1>8. ASSUME NEW w \in Workers, Idle(w) PROVE LockHeld' /\ ClaimsWhileBusy'
    BY <1>8 DEF Idle, workVars
  <1>9. ASSUME NEW w \in Workers, ReadRecent(w) PROVE LockHeld' /\ ClaimsWhileBusy'
    BY <1>9 DEF ReadRecent
  <1>10. ASSUME NEW w \in Workers, CallOK(w) PROVE LockHeld' /\ ClaimsWhileBusy'
    BY <1>10 DEF CallOK
  <1>11. ASSUME NEW w \in Workers, pc[w] = "settle", NextOfBatch(w), UNCHANGED lock
         PROVE  LockHeld' /\ ClaimsWhileBusy'
    <2>1. CASE batch[w] # {} /\ ~stopping[w]
      <3>1. PICK g \in batch[w] : /\ cur' = [cur EXCEPT ![w] = g]
                                  /\ batch' = [batch EXCEPT ![w] = @ \ {g}]
                                  /\ pc' = [pc EXCEPT ![w] = "fetch"]
        BY <1>11, <2>1 DEF NextOfBatch
      <3>. QED
        BY <1>11, <3>1
    <2>2. CASE batch[w] = {} \/ stopping[w]
      <3>1. /\ cur' = [cur EXCEPT ![w] = None]
            /\ batch' = [batch EXCEPT ![w] = {}]
            /\ pc' = [pc EXCEPT ![w] = "top"]
        BY <1>11, <2>2 DEF NextOfBatch
      <3>. QED
        BY <1>11, <3>1
    <2>. QED
      BY <2>1, <2>2
  <1>12. ASSUME NEW w \in Workers, Settle(w) \/ SettleFailed(w)
         PROVE  LockHeld' /\ ClaimsWhileBusy'
    BY <1>11, <1>12 DEF Settle, SettleFailed
  <1>13. ASSUME NEW w \in Workers, Stop(w) PROVE LockHeld' /\ ClaimsWhileBusy'
    BY <1>13 DEF Stop, workVars
  <1>14. ASSUME NEW w \in Workers, Crash(w) PROVE LockHeld' /\ ClaimsWhileBusy'
    BY <1>14 DEF Crash
  <1>15. ASSUME NEW w \in Workers, NoClient(w) PROVE LockHeld' /\ ClaimsWhileBusy'
    BY <1>15 DEF NoClient
  <1>16. ASSUME NEW w \in Workers, NEW done \in SUBSET Targets,
                NEW known \in SUBSET Targets, CallFailed(w, done, known)
         PROVE  LockHeld' /\ ClaimsWhileBusy'
    BY <1>16 DEF CallFailed
  <1>17. CASE Tick
    BY <1>17 DEF Tick, workVars
  <1>18. CASE UNCHANGED vars
    BY <1>18 DEF vars, workVars
  <1>. QED
    BY <1>1, <1>2, <1>3, <1>4, <1>5, <1>6, <1>7, <1>8, <1>9, <1>10, <1>12, <1>13,
       <1>14, <1>15, <1>16, <1>17, <1>18 DEF Next, Work, Fault

\* No step takes a claim away from the coordinator that works on it.
LEMMA ClaimStep == TypeOK /\ Shape /\ [Next]_vars => ClaimsStayValid'
  <1>. SUFFICES ASSUME TypeOK, Shape, [Next]_vars PROVE ClaimsStayValid'
    OBVIOUS
  <1>. USE MediaRefreshAssumption DEF TypeOK, Shape, ClaimsStayValid, Claims, LeaseHolds
  <1>1. ASSUME NEW g \in Groups, NEW P \in SUBSET Paths, Enqueue(g, P)
        PROVE  ClaimsStayValid'
    BY <1>1 DEF Enqueue, workVars
  <1>2. ASSUME UNCHANGED <<status, owner, gen, claimGen, cur, batch>>
        PROVE  ClaimsStayValid'
    BY <1>2
  <1>3. ASSUME NEW w \in Workers, Recover(w) PROVE ClaimsStayValid'
    <2>1. \A v \in Workers : cur[v] = None /\ batch[v] = {}
      BY <1>3, OneConsumer DEF Recover, ClaimsWhileBusy, Busy, Locked
    <2>. QED
      BY <1>3, <2>1 DEF Recover, workVars
  <1>4. ASSUME NEW w \in Workers, NEW C \in SUBSET Groups, Claim(w, C)
        PROVE  ClaimsStayValid'
    <2>1. \A v \in Workers \ {w} : cur[v] = None /\ batch[v] = {}
      BY <1>4, OneConsumer DEF Claim, Locked
    <2>2. PICK g \in C : cur' = [cur EXCEPT ![w] = g] /\ batch' = [batch EXCEPT ![w] = C \ {g}]
      BY <1>4 DEF Claim
    <2>3. \A v \in Workers \ {w} : Claims(v)' = {}
      BY <2>1, <2>2
    <2>4. Claims(w)' = C
      BY <2>2
    <2>5. \A h \in C : /\ status'[h] = "running"
                       /\ owner'[h] = w
                       /\ gen'[h] = claimGen'[w][h]
      BY <1>4 DEF Claim
    <2>. QED
      BY <2>3, <2>4, <2>5
  <1>5. ASSUME NEW w \in Workers, Crash(w) PROVE ClaimsStayValid'
    BY <1>5 DEF Crash, queueVars
  <1>6. ASSUME NEW w \in Workers, pc[w] = "settle", NextOfBatch(w),
               UNCHANGED claimGen,
               \A h \in Groups \ {cur[w]} : /\ status'[h] = status[h]
                                            /\ owner'[h] = owner[h]
                                            /\ gen'[h] = gen[h]
        PROVE  ClaimsStayValid'
    <2>1. \A v \in Workers \ {w} : cur[v] = None /\ batch[v] = {}
      BY <1>6, OneConsumer DEF Locked, Busy
    <2>2. cur[w] \in Groups /\ cur[w] \notin batch[w]
      BY <1>6 DEF ClaimsWhileBusy, Busy
    <2>3. Claims(w)' \subseteq batch[w] /\ \A v \in Workers \ {w} : Claims(v)' = {}
      <3>1. CASE batch[w] # {} /\ ~stopping[w]
        <4>1. PICK g \in batch[w] : /\ cur' = [cur EXCEPT ![w] = g]
                                    /\ batch' = [batch EXCEPT ![w] = @ \ {g}]
          BY <1>6, <3>1 DEF NextOfBatch
        <4>. QED
          BY <2>1, <4>1
      <3>2. CASE batch[w] = {} \/ stopping[w]
        BY <1>6, <2>1, <3>2 DEF NextOfBatch
      <3>. QED
        BY <3>1, <3>2
    <2>4. ASSUME NEW h \in batch[w] PROVE LeaseHolds(w, h)'
      BY <1>6, <2>2
    <2>. QED
      BY <2>3, <2>4
  <1>7. ASSUME NEW w \in Workers, Settle(w) PROVE ClaimsStayValid'
    <2>1. \A h \in Groups \ {cur[w]} : /\ status'[h] = status[h]
                                       /\ owner'[h] = owner[h]
                                       /\ gen'[h] = gen[h]
      BY <1>7 DEF Settle, Settled, queueVars
    <2>. QED
      BY <1>6, <1>7, <2>1 DEF Settle
  <1>8. ASSUME NEW w \in Workers, SettleFailed(w) PROVE ClaimsStayValid'
    BY <1>6, <1>8 DEF SettleFailed, queueVars
  <1>. QED
    BY <1>1, <1>2, <1>3, <1>4, <1>5, <1>7, <1>8
       DEF Next, Work, Fault, Start, AcquireLock, CheckStop, Exit, Idle, ReadRecent,
           CallOK, Stop, NoClient, CallFailed, Tick, vars, queueVars, workVars

-----------------------------------------------------------------------------
\* Paths are in flight only in a running group.
LEMMA InflightStep ==
  TypeOK /\ Shape /\ InflightOnlyRunning /\ [Next]_vars => InflightOnlyRunning'
  <1>. SUFFICES ASSUME TypeOK, Shape, InflightOnlyRunning, [Next]_vars
                PROVE  InflightOnlyRunning'
    OBVIOUS
  <1>. USE DEF TypeOK, InflightOnlyRunning
  <1>1. ASSUME NEW g \in Groups, NEW P \in SUBSET Paths, Enqueue(g, P)
        PROVE  InflightOnlyRunning'
    BY <1>1 DEF Enqueue
  <1>2. ASSUME UNCHANGED <<status, inflight>> PROVE InflightOnlyRunning'
    BY <1>2
  <1>3. ASSUME NEW w \in Workers, Recover(w) PROVE InflightOnlyRunning'
    BY <1>3 DEF Recover, Recovered
  <1>4. ASSUME NEW w \in Workers, NEW C \in SUBSET Groups, Claim(w, C)
        PROVE  InflightOnlyRunning'
    BY <1>4 DEF Claim, Recovered, Expired
  <1>5. ASSUME NEW w \in Workers, Settle(w) PROVE InflightOnlyRunning'
    <2>1. cur[w] \in Groups
      BY <1>5 DEF Settle, Shape, ClaimsWhileBusy, Busy
    <2>. QED
      BY <1>5, <2>1 DEF Settle, Settled, queueVars
  <1>. QED
    BY <1>1, <1>2, <1>3, <1>4, <1>5
       DEF Next, Work, Fault, Start, AcquireLock, CheckStop, Exit, Idle, ReadRecent,
           CallOK, Stop, Crash, NoClient, CallFailed, SettleFailed, Tick, vars,
           queueVars

\* What the claim asks of the server, and what the answer leaves fresh.
LEMMA ServedByCall ==
  ASSUME TypeOK, Shape, NEW w \in Workers, CallOK(w), CallOutcome(w) = "completed",
         NEW p \in inflight[cur[w]]
  PROVE  <<cur[w], p>> \notin fresh'
  <1>1. cur[w] \in Groups
    BY DEF CallOK, Shape, ClaimsWhileBusy, Busy
  <1>2. p \in Paths
    BY <1>1 DEF TypeOK
  <1>3. TargetOf[cur[w]][p] \in Wanted(w)
    BY DEF Wanted, TargetsOf
  <1>4. Wanted(w) \cap skip[w] = {}
    BY DEF CallOutcome
  <1>5. <<cur[w], p>> \in Served(Wanted(w) \ skip[w])
    BY <1>1, <1>2, <1>3, <1>4 DEF Served
  <1>. QED
    BY <1>5 DEF CallOK

\* A claim is confirmed only when every path of it was refreshed.
LEMMA CompletedStep ==
  TypeOK /\ Shape /\ Owed /\ [Next]_vars => CompletedMeansServed'
  <1>. SUFFICES ASSUME TypeOK, Shape, Owed, [Next]_vars,
                       NEW v \in Workers, (pc[v] = "settle")', (outcome[v] = "completed")',
                       NEW p \in inflight'[cur'[v]], <<cur'[v], p>> \in fresh'
                PROVE  p \in pending'[cur'[v]]
    BY DEF CompletedMeansServed
  <1>. USE DEF TypeOK, Places
  <1>1. ASSUME NEW g \in Groups, NEW P \in SUBSET Paths, Enqueue(g, P)
        PROVE  p \in pending'[cur'[v]]
    <2>1. cur[v] \in Groups /\ cur' = cur /\ pc' = pc /\ outcome' = outcome /\ inflight' = inflight
      BY <1>1 DEF Enqueue, workVars, Shape, ClaimsWhileBusy, Busy
    <2>2. CASE <<cur[v], p>> \in fresh
      BY <1>1, <2>1, <2>2 DEF Enqueue, Owed, CompletedMeansServed
    <2>3. CASE <<cur[v], p>> \in {g} \X P
      BY <1>1, <2>1, <2>3 DEF Enqueue
    <2>. QED
      BY <1>1, <2>1, <2>2, <2>3 DEF Enqueue
  <1>2. ASSUME UNCHANGED <<pending, inflight, cur, outcome, pc, fresh>>
        PROVE  p \in pending'[cur'[v]]
    BY <1>2 DEF Owed, CompletedMeansServed
  <1>3. ASSUME NEW w \in Workers, Start(w) \/ AcquireLock(w) \/ CheckStop(w) \/ Exit(w)
                                  \/ Idle(w) \/ ReadRecent(w) \/ Crash(w)
        PROVE  p \in pending'[cur'[v]]
    <2>1. v # w
      BY <1>3 DEF Start, AcquireLock, CheckStop, Exit, Idle, ReadRecent, Crash
    <2>2. /\ pc'[v] = pc[v] /\ cur'[v] = cur[v] /\ outcome'[v] = outcome[v]
          /\ pending' = pending /\ inflight' = inflight /\ fresh' = fresh
      BY <1>3, <2>1 DEF Start, AcquireLock, CheckStop, Exit, Idle, ReadRecent, Crash,
                        queueVars, workVars
    <2>. QED
      BY <2>2 DEF Owed, CompletedMeansServed
  <1>4. ASSUME NEW w \in Workers, pc[w] \in Locked, v # w, pc'[v] = pc[v]
        PROVE  FALSE
    BY <1>4, OneConsumer DEF Locked, Busy
  <1>5. ASSUME NEW w \in Workers, Recover(w) PROVE p \in pending'[cur'[v]]
    BY <1>4, <1>5 DEF Recover, Locked
  <1>6. ASSUME NEW w \in Workers, NEW C \in SUBSET Groups, Claim(w, C)
        PROVE  p \in pending'[cur'[v]]
    BY <1>4, <1>6 DEF Claim, Locked
  <1>7. ASSUME NEW w \in Workers, CallOK(w) PROVE p \in pending'[cur'[v]]
    <2>1. v = w
      BY <1>4, <1>7 DEF CallOK, Locked, Busy
    <2>2. CallOutcome(w) = "completed" /\ cur' = cur /\ inflight' = inflight
      BY <1>7, <2>1 DEF CallOK, queueVars
    <2>. QED
      BY <1>7, <2>1, <2>2, ServedByCall
  <1>8. ASSUME NEW w \in Workers, NoClient(w) PROVE p \in pending'[cur'[v]]
    BY <1>4, <1>8 DEF NoClient, Locked, Busy
  <1>9. ASSUME NEW w \in Workers, NEW done \in SUBSET Targets,
               NEW known \in SUBSET Targets, CallFailed(w, done, known)
        PROVE  p \in pending'[cur'[v]]
    BY <1>4, <1>9 DEF CallFailed, Locked, Busy
  <1>10. ASSUME NEW w \in Workers, Settle(w) \/ SettleFailed(w)
         PROVE  p \in pending'[cur'[v]]
    <2>1. pc[w] = "settle" /\ NextOfBatch(w)
      BY <1>10 DEF Settle, SettleFailed
    <2>2. pc'[w] # "settle"
      BY <2>1 DEF NextOfBatch
    <2>3. v # w => pc'[v] = pc[v]
      BY <2>1 DEF NextOfBatch
    <2>. QED
      BY <1>4, <2>1, <2>2, <2>3 DEF Locked, Busy
  <1>. QED
    BY <1>1, <1>2, <1>3, <1>5, <1>6, <1>7, <1>8, <1>9, <1>10
       DEF Next, Work, Fault, Stop, Tick, vars, queueVars, workVars

\* A change that was enqueued and not refreshed since stays in the queue.
LEMMA FreshStep == TypeOK /\ Shape /\ Owed /\ [Next]_vars => FreshHeld'
  <1>. SUFFICES ASSUME TypeOK, Shape, Owed, [Next]_vars,
                       NEW h \in Groups, NEW p \in Paths, <<h, p>> \in fresh'
                PROVE  p \in pending'[h] \cup inflight'[h]
    BY DEF FreshHeld
  <1>. USE DEF TypeOK, Owed, FreshHeld
  <1>1. ASSUME NEW g \in Groups, NEW P \in SUBSET Paths, Enqueue(g, P)
        PROVE  p \in pending'[h] \cup inflight'[h]
    <2>1. CASE <<h, p>> \in fresh
      BY <1>1, <2>1 DEF Enqueue
    <2>2. CASE <<h, p>> \in {g} \X P
      BY <1>1, <2>2 DEF Enqueue
    <2>. QED
      BY <1>1, <2>1, <2>2 DEF Enqueue
  <1>2. ASSUME fresh' \subseteq fresh, UNCHANGED <<pending, inflight>>
        PROVE  p \in pending'[h] \cup inflight'[h]
    BY <1>2
  <1>3. ASSUME NEW w \in Workers, Recover(w) PROVE p \in pending'[h] \cup inflight'[h]
    BY <1>3 DEF Recover, Recovered, Held
  <1>4. ASSUME NEW w \in Workers, NEW C \in SUBSET Groups, Claim(w, C)
        PROVE  p \in pending'[h] \cup inflight'[h]
    <2>1. <<h, p>> \in fresh
      BY <1>4 DEF Claim
    <2>2. CASE h \in C
      <3>1. h \notin Expired => status[h] # "running"
        BY <1>4, <2>2 DEF Claim, Due, Recovered
      <3>. QED
        BY <1>4, <2>1, <2>2, <3>1 DEF Claim, Recovered, Held, InflightOnlyRunning
    <2>3. CASE h \notin C
      BY <1>4, <2>1, <2>3 DEF Claim, Recovered, Held
    <2>. QED
      BY <2>2, <2>3
  <1>5. ASSUME NEW w \in Workers, Settle(w) PROVE p \in pending'[h] \cup inflight'[h]
    <2>1. cur[w] \in Groups /\ outcome[w] \in Outcomes /\ pc[w] = "settle"
      BY <1>5 DEF Settle, Shape, ClaimsWhileBusy, Busy
    <2>2. <<h, p>> \in fresh
      BY <1>5 DEF Settle
    <2>3. CASE ~LeaseHolds(w, cur[w])
      BY <1>5, <2>2, <2>3 DEF Settle, queueVars
    <2>4. CASE h # cur[w]
      BY <1>5, <2>1, <2>2, <2>4 DEF Settle, Settled, queueVars
    <2>5. CASE LeaseHolds(w, cur[w]) /\ h = cur[w]
      <3>1. p \in Kept(h, outcome[w])
        BY <2>1, <2>2, <2>5 DEF Kept, Held, CompletedMeansServed
      <3>2. pending'[h] = Kept(h, outcome[w])
        BY <1>5, <2>5 DEF Settle, Settled
      <3>. QED
        BY <3>1, <3>2
    <2>. QED
      BY <2>3, <2>4, <2>5
  <1>. QED
    BY <1>1, <1>2, <1>3, <1>4, <1>5
       DEF Next, Work, Fault, Start, AcquireLock, CheckStop, Exit, Idle, ReadRecent,
           CallOK, Stop, Crash, NoClient, CallFailed, SettleFailed, Tick, vars,
           queueVars

-----------------------------------------------------------------------------
\* The inductive invariant holds at the start.
LEMMA InitIInv == Init => IInv
  <1>. SUFFICES ASSUME Init PROVE IInv
    OBVIOUS
  <1>. USE MediaRefreshAssumption DEF Init
  <1>1. TypeOK
    BY DEF TypeOK, Statuses, Outcomes, Places
  <1>2. LockHeld /\ ClaimsWhileBusy
    BY DEF LockHeld, ClaimsWhileBusy, Locked, Busy
  <1>3. ClaimsStayValid
    BY DEF ClaimsStayValid, Claims
  <1>4. Owed
    BY DEF Owed, InflightOnlyRunning, CompletedMeansServed, FreshHeld
  <1>. QED
    BY <1>1, <1>2, <1>3, <1>4 DEF IInv, Shape

\* The inductive invariant holds forever.
THEOREM Invariance == Spec => []IInv
  <1>1. IInv /\ [Next]_vars => IInv'
    BY TypeStep, LockStep, ClaimStep, InflightStep, CompletedStep, FreshStep
       DEF IInv, Shape, Owed
  <1>. QED
    BY InitIInv, <1>1, PTL DEF Spec

\* FreshHeld is NoLostChange.
LEMMA FreshIsHeld == TypeOK /\ FreshHeld => NoLostChange
  BY DEF TypeOK, FreshHeld, NoLostChange, Todo, Held

\* Type correctness.
THEOREM TypeCorrect == Spec => []TypeOK
  BY Invariance, PTL DEF IInv

\* No enqueued change is dropped before a refresh that covers it, whatever
\* producers, coordinators, failures, crashes and restarts do.
THEOREM NoChangeLost == Spec => []NoLostChange
  <1>1. IInv => NoLostChange
    BY FreshIsHeld DEF IInv, Owed
  <1>. QED
    BY <1>1, Invariance, PTL

\* A coordinator's claims are never taken over while it works on them, so its
\* settlements are never refused.
THEOREM ClaimsNeverStolen == Spec => []ClaimsStayValid
  BY Invariance, PTL DEF IInv, Shape

-----------------------------------------------------------------------------
\* A step that loses no owed change and adds none only retires items.
LEMMA RetireStep ==
  ASSUME NoLostChange', fresh' = fresh, Todo' \subseteq Todo
  PROVE  DI!Next
  <1>. DEFINE S == Todo \ Todo'
  <1>1. S \in SUBSET (Groups \X Paths)
    BY DEF Todo
  <1>2. DI!Retire(S)
    BY DEF DI!Retire, NoLostChange
  <1>. QED
    BY <1>1, <1>2 DEF DI!Next

\* Every step of the queue is a step of DurableIntent or changes neither the
\* queued nor the owed items.
LEMMA IntentStep == IInv /\ IInv' /\ [Next]_vars => [DI!Next]_(DI!vars)
  <1>. SUFFICES ASSUME IInv, IInv', [Next]_vars PROVE [DI!Next]_(DI!vars)
    OBVIOUS
  <1>. USE DEF DI!vars
  <1>1. NoLostChange'
    BY FreshIsHeld DEF IInv, Owed, TypeOK, FreshHeld, NoLostChange, Todo, Held
  <1>2. ASSUME NEW g \in Groups, NEW P \in SUBSET Paths, Enqueue(g, P) PROVE DI!Next
    <2>1. {g} \X P \in SUBSET (Groups \X Paths)
      OBVIOUS
    <2>2. Todo' = Todo \cup ({g} \X P)
      BY <1>2 DEF Enqueue, Todo, Held, IInv, TypeOK
    <2>3. DI!Ask({g} \X P)
      BY <1>2, <2>2 DEF DI!Ask, Enqueue
    <2>. QED
      BY <2>1, <2>3 DEF DI!Next
  <1>3. ASSUME NEW D, fresh' = fresh \ Served(D), UNCHANGED queueVars
        PROVE  DI!Next
    <2>1. Served(D) \in SUBSET (Groups \X Paths)
      BY DEF Served
    <2>2. Todo' = Todo
      BY <1>3 DEF queueVars, Todo, Held
    <2>3. DI!CarryOut(Served(D))
      BY <1>3, <2>2 DEF DI!CarryOut
    <2>. QED
      BY <2>1, <2>3 DEF DI!Next
  <1>4. ASSUME NEW w \in Workers, CallOK(w) PROVE DI!Next
    BY <1>3, <1>4 DEF CallOK
  <1>5. ASSUME NEW w \in Workers, NEW done \in SUBSET Targets,
               NEW known \in SUBSET Targets, CallFailed(w, done, known)
        PROVE  DI!Next
    BY <1>3, <1>5 DEF CallFailed
  <1>6. ASSUME fresh' = fresh, \A h \in Groups : Held(h)' \subseteq Held(h)
        PROVE  DI!Next
    <2>1. Todo' \subseteq Todo
      BY <1>6 DEF Todo
    <2>. QED
      BY <1>1, <1>6, <2>1, RetireStep
  <1>7. ASSUME NEW w \in Workers, Recover(w) PROVE DI!Next
    <2>1. \A h \in Groups : Held(h)' \subseteq Held(h)
      BY <1>7 DEF Recover, Recovered, Held
    <2>. QED
      BY <1>6, <1>7, <2>1 DEF Recover
  <1>8. ASSUME NEW w \in Workers, NEW C \in SUBSET Groups, Claim(w, C) PROVE DI!Next
    <2>1. \A h \in Groups : Held(h)' \subseteq Held(h)
      BY <1>8 DEF Claim, Recovered, Held
    <2>. QED
      BY <1>6, <1>8, <2>1 DEF Claim
  <1>9. ASSUME NEW w \in Workers, Settle(w) PROVE DI!Next
    <2>1. cur[w] \in Groups
      BY <1>9 DEF Settle, IInv, Shape, ClaimsWhileBusy, Busy
    <2>2. \A h \in Groups : Held(h)' \subseteq Held(h)
      <3>1. CASE LeaseHolds(w, cur[w])
        <4>1. Settled(cur[w], outcome[w])
          BY <1>9, <3>1 DEF Settle
        <4>2. /\ pending' = [pending EXCEPT ![cur[w]] = Kept(cur[w], outcome[w])]
              /\ inflight' = [inflight EXCEPT ![cur[w]] = {}]
          BY <4>1 DEF Settled
        <4>. QED
          BY <2>1, <4>2 DEF Kept, Held, IInv, TypeOK
      <3>2. CASE ~LeaseHolds(w, cur[w])
        BY <1>9, <3>2 DEF Settle, queueVars, Held
      <3>. QED
        BY <3>1, <3>2
    <2>. QED
      BY <1>6, <1>9, <2>2 DEF Settle
  <1>10. ASSUME UNCHANGED <<pending, inflight, fresh>> PROVE UNCHANGED DI!vars
    BY <1>10 DEF Todo, Held
  <1>. QED
    BY <1>2, <1>4, <1>5, <1>7, <1>8, <1>9, <1>10
       DEF Next, Work, Fault, Start, AcquireLock, CheckStop, Exit, Idle, ReadRecent,
           Stop, Crash, NoClient, SettleFailed, Tick, vars, queueVars

\* The queue and its coordinators implement the durable work queue.
THEOREM ImplementsDurableIntent == Spec => KeepsIntent
  <1>1. Init => DI!Init
    BY DEF Init, DI!Init, Todo, Held
  <1>2. IInv /\ IInv' /\ [Next]_vars => [DI!Next]_(DI!vars)
    BY IntentStep
  <1>. QED
    BY <1>1, <1>2, Invariance, PTL DEF Spec, DI!Spec, KeepsIntent

=============================================================================
