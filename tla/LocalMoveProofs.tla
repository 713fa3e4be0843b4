-------------------------- MODULE LocalMoveProofs --------------------------
(***************************************************************************)
(* Proofs about LocalMove, for any number of plans, faults and meddling of *)
(* other programs.  The inductive invariant says, phase by phase, what is  *)
(* true of each plan: not yet begun (Untouched), being moved or given up   *)
(* (MovingOK, HandlingOK), registered for rollback (Placed), being undone  *)
(* (JobOK) or undone (Undone); and at all times that its files are under   *)
(* one of the names that plan may use (Sound).                             *)
(*                                                                         *)
(* A step concerns one plan: what it leaves alone stays what it was        *)
(* (Frame), so each action is proved for the plan it works on.             *)
(***************************************************************************)
EXTENDS LocalMove, TLAPS

\* Groups of the labels of pc.
Restoring == {"restore", "restore_rename", "restore_verify"}
Early     == {"preflight", "record", "fingerprint", "backup"}
Moving    == Early \cup {"check_backup", "publish", "rename", "verify", "retire",
                         "unlink_retired", "unretire", "finish"}
Cleaning  == {"clean", "drop_check", "drop"}
Undoing   == {"undo", "undo_rename", "undo_copy", "undo_publish", "undo_drop_check",
              "undo_drop", "record_undone", "record_undo_failure"}

\* The phases of a transaction.
Forward    == pc \in Moving
Handling   == pc \in Cleaning \cup {"record_failure"} \/ (pc \in Restoring /\ tx.ret \in {"inner", "clean"})
AtJob      == pc \in Undoing \/ (pc \in Restoring /\ tx.ret = "item")
InRollback == pc = "undo_next" \/ AtJob
AtRest     == pc \in {"rest", "failed"} \/ (pc \in Restoring /\ tx.ret = "rest")
Committed  == pc \in {"commit", "completed", "requires_manual"}

\* The caller will be told, or a record could not be written.
Blamed == tx.reported \/ dbFaults # 0

\* Where the content of a plan may be; hidden names it no longer needs; its old version.
AtSource(i)  == Safe(Source(i), Src(i))
AtTarget(i)  == Safe(Target(i), Src(i))
AtRetired(i) == Safe(Retired(i), Src(i))
AtOld(i)     == Safe(Old(i), Prev(i))
NothingAside(i) == fs[Retired(i)] = Empty /\ fs[Undo(i)] = Empty
BackedUp(i)  == Replaces(i) => i \in tx.records /\ fs[Backup(i)] = Prev(i)

\* What is true of a plan at all times.
Sound(i) ==
    /\ AtSource(i) \/ AtTarget(i) \/ AtRetired(i)
    /\ ~Replaces(i) \/ Committed \/ AtOld(i) \/ fs[Backup(i)] = Prev(i)
    /\ i \in tx.records => Replaces(i)
    /\ i \notin tx.records => fs[Backup(i)] = Empty

\* A plan not yet begun.
Untouched(i) ==
    /\ AtSource(i)
    /\ NothingAside(i)
    /\ fs[Partial(i)] = Empty
    /\ Replaces(i) => AtOld(i)
    /\ i \notin tx.moved
    /\ i \notin tx.records

\* What publication left behind identifies the source's file.
Known(i) == IF cross[i] THEN tx.pub[i] = Copied(i)
            ELSE tx.pub[i] # Empty /\ (Content(tx.pub[i]) = Src(i) \/ Src(i) \in gone)

\* A plan that is registered for rollback.
Placed(i) ==
    /\ i \in tx.moved
    /\ AtTarget(i)
    /\ fs[Source(i)] # Src(i)
    /\ NothingAside(i)
    /\ fs[Partial(i)] = Empty
    /\ Known(i)

\* A plan that was undone, as far as nobody is told otherwise.
Undone(i) ==
    /\ ~Blamed => /\ AtSource(i)
                  /\ NothingAside(i)
                  /\ Replaces(i) /\ i \notin tx.records => AtOld(i)
    /\ dbFaults = 0 => step[i] # "completed"

\* A plan whose source has not been published.
Unpublished(i) ==
    /\ AtSource(i)
    /\ NothingAside(i)
    /\ i \notin tx.moved
    /\ ~tx.created

\* The locals of _move_one.
Flags(partial, created) == (tx.partial <=> partial) /\ (tx.created <=> created)

\* The plan at hand while it is moved: what it has done so far, at each call.
MovingOK(i) ==
    /\ ~tx.reported
    /\ pc \in Early => Untouched(i) /\ Flags(FALSE, FALSE) /\ ~tx.backup
    /\ pc = "backup" => Replaces(i)
    /\ pc = "check_backup" => /\ Unpublished(i) /\ fs[Partial(i)] = Empty
                              /\ ~tx.partial /\ ~tx.backup
                              /\ Replaces(i) /\ i \in tx.records
                              /\ fs[Backup(i)] = Prev(i) \/ Prev(i) \in gone
    /\ pc \in Moving \ (Early \cup {"check_backup"}) => BackedUp(i) /\ (tx.backup <=> Replaces(i))
    /\ pc = "publish" => Unpublished(i) /\ fs[Partial(i)] = Empty /\ ~tx.partial
    /\ pc = "rename" => /\ Unpublished(i)
                        /\ Known(i)
                        /\ IF cross[i] THEN tx.partial /\ fs[Partial(i)] = Copied(i)
                           ELSE /\ ~tx.partial /\ fs[Partial(i)] = Empty
                                /\ kind[i] # "replace_same"
    /\ pc = "verify" /\ ~cross[i] => Placed(i) /\ Flags(FALSE, FALSE)
    /\ pc \in {"verify", "retire"} /\ cross[i] =>
          /\ AtSource(i) /\ AtTarget(i) /\ NothingAside(i) /\ fs[Partial(i)] = Empty
          /\ i \notin tx.moved /\ Known(i) /\ Flags(FALSE, TRUE)
    /\ pc \in {"retire", "unlink_retired", "unretire"} => cross[i]
    /\ pc \in {"unlink_retired", "unretire"} =>
          /\ AtRetired(i) /\ AtTarget(i) /\ fs[Source(i)] # Src(i)
          /\ fs[Undo(i)] = Empty /\ fs[Partial(i)] = Empty
          /\ i \notin tx.moved /\ Known(i) /\ Flags(FALSE, TRUE)
    /\ pc = "finish" => Placed(i) /\ ~tx.partial /\ (tx.created <=> cross[i])

\* The plan at hand while its move is given up; whoever reads the outcome is told of what is
\* not back.
HandlingOK(i) ==
    /\ i \in tx.moved => /\ pc \in {"clean", "drop_check", "record_failure"}
                         /\ Placed(i) /\ BackedUp(i) /\ ~tx.partial
    /\ i \notin tx.moved =>
          /\ AtSource(i) \/ (tx.reported /\ AtRetired(i))
          /\ ~tx.reported => fs[Retired(i)] = Empty
          /\ fs[Undo(i)] = Empty
          /\ ~Blamed /\ Replaces(i) /\ i \notin tx.records => AtOld(i)
          /\ pc \in Cleaning /\ (tx.created \/ tx.backup) => BackedUp(i)
    /\ tx.backup => Replaces(i)
    /\ tx.created \/ tx.partial => cross[i]
    /\ pc = "drop" => i \notin tx.moved /\ tx.created /\ ~tx.reported

\* The entry that the rollback is at.
JobOK(j) ==
    /\ pc \in {"undo", "undo_rename", "undo_copy"} => Placed(j)
    /\ pc \in {"undo", "undo_rename", "undo_copy", "undo_publish", "undo_drop_check",
               "undo_drop"} => BackedUp(j)
    /\ pc = "undo_rename" => ~cross[j]
    /\ pc \in {"undo_copy", "undo_publish", "undo_drop_check", "undo_drop"} => cross[j]
    /\ pc = "undo_publish" => AtTarget(j) /\ fs[Retired(j)] = Empty /\ fs[Undo(j)] = Recopied(j)
    /\ pc \in {"undo_drop_check", "undo_drop", "record_undone"} \cup Restoring =>
          AtSource(j) /\ NothingAside(j)
    /\ pc = "record_undone" => j \notin tx.records /\ (Replaces(j) => AtOld(j))
    /\ pc = "record_undo_failure" => tx.reported

\* The backup that is being put back.
RestoringOK(j) ==
    /\ j \in tx.records
    /\ pc = "restore_rename" => fs[Backup(j)] = Prev(j) /\ ~Holds(Old(j), Src(j))
    /\ pc = "restore_verify" => fs[Backup(j)] = Empty

\* Each plan, phase by phase.
PlanOK(i) ==
    /\ Sound(i)
    /\ Forward \/ Handling =>
          /\ i < tx.cur => Placed(i) /\ BackedUp(i)
          /\ i > tx.cur => Untouched(i)
          /\ step[i] # "rolled_back"
          /\ step[i] = "completed" => i < tx.cur
    /\ InRollback =>
          /\ i \in tx.todo => step[i] # "rolled_back"
          /\ i \in tx.todo /\ (AtJob => i # tx.job) => Placed(i) /\ BackedUp(i)
          /\ i \notin tx.todo => Undone(i)
    /\ AtRest => Undone(i)
    /\ Committed => Placed(i) /\ (i \in tx.records => fs[Backup(i)] # Empty)
                     /\ step[i] # "rolled_back"
    /\ step[i] = "rolled_back" => AtSource(i)

\* The inductive invariant.
IInv ==
    /\ TypeOK
    /\ \A i \in Plans : PlanOK(i)
    /\ Forward => MovingOK(tx.cur)
    /\ Handling => HandlingOK(tx.cur)
    /\ AtJob => tx.job \in tx.todo /\ JobOK(tx.job)
    /\ InRollback => tx.todo \subseteq tx.moved
    /\ pc \in Restoring => RestoringOK(tx.job)
    /\ pc \in Restoring /\ tx.ret \in {"inner", "clean"} => tx.job = tx.cur /\ tx.cur \notin tx.moved
    /\ pc \in Restoring /\ tx.ret = "inner" => ~tx.created /\ ~tx.partial /\ ~tx.backup
    /\ pc \in Restoring /\ tx.ret = "rest" => tx.job \in tx.todo
    /\ AtRest /\ pc # "failed" => tx.todo \subseteq tx.records
    /\ AtRest /\ ~Blamed => tx.records = IF pc = "failed" THEN {} ELSE tx.todo
    /\ pc = "commit" => tx.todo \subseteq tx.records
    /\ pc = "completed" => tx.records = {}
    /\ pc = "requires_manual" => tx.records # {}
-----------------------------------------------------------------------------
(* Names and contents.                                                     *)

Last(i) == <<"old", i>>
NamesOf(i) == {Source(i), Target(i), Last(i), Partial(i), Retired(i), Backup(i), Undo(i)}

\* The names of a plan are names, and differ.
LEMMA OwnNames ==
    ASSUME NEW i \in Plans
    PROVE  /\ NamesOf(i) \subseteq Names
           /\ Old(i) \in {Target(i), Last(i)}
           /\ Source(i) \notin {Target(i), Last(i), Partial(i), Retired(i), Backup(i), Undo(i)}
           /\ Target(i) \notin {Last(i), Partial(i), Retired(i), Backup(i), Undo(i)}
           /\ Last(i) \notin {Partial(i), Retired(i), Backup(i), Undo(i)}
           /\ Partial(i) \notin {Retired(i), Backup(i), Undo(i)}
           /\ Retired(i) \notin {Backup(i), Undo(i)}
           /\ Backup(i) # Undo(i)
BY DEF NamesOf, Last, Source, Target, Partial, Retired, Backup, Undo, Old, Names, Visible, Hidden

\* Two plans share no name.
LEMMA OtherNames ==
    ASSUME NEW i \in Plans, NEW j \in Plans, i # j
    PROVE  NamesOf(i) \cap NamesOf(j) = {}
BY DEF NamesOf, Last, Source, Target, Partial, Retired, Backup, Undo

\* Hidden names are nobody else's.
LEMMA HiddenNames ==
    ASSUME NEW i \in Plans, NEW n \in Visible
    PROVE  /\ n \in Names
           /\ n \notin {Partial(i), Retired(i), Backup(i), Undo(i)}
BY DEF Partial, Retired, Backup, Undo, Names, Visible

\* The files of a plan and of others differ, and have a content.
LEMMA FileKinds ==
    ASSUME NEW i \in Plans
    PROVE  /\ {Src(i), Prev(i), Copied(i), Recopied(i)} \subseteq Files
           /\ Empty \notin Files
           /\ Content(Src(i)) = Src(i) /\ Content(Copied(i)) = Src(i) /\ Content(Recopied(i)) = Src(i)
           /\ Content(Prev(i)) = Prev(i)
           /\ \A f : Content(f) = Prev(i) => f = Prev(i)
           /\ Content(Empty) = Empty
           /\ Src(i) # Prev(i) /\ Src(i) # Copied(i) /\ Src(i) # Recopied(i)
           /\ Prev(i) # Copied(i) /\ Prev(i) # Recopied(i) /\ Copied(i) # Recopied(i)
           /\ \A k \in Foreigners : Ext(k) \in Files /\ Content(Ext(k)) = Ext(k)
                                    /\ Ext(k) # Src(i) /\ Ext(k) # Prev(i)
           /\ \A f \in Files : Content(f) \in Files
BY DEF Files, Empty, Src, Prev, Copied, Recopied, Ext, Content

-----------------------------------------------------------------------------
(* What a step of another plan, or of another program, leaves alone.       *)

\* The transaction's step leaves the files of a plan, and all of the plan, alone.
Still(i) ==
    /\ UNCHANGED env
    /\ \A n \in NamesOf(i) : fs'[n] = fs[n]
    /\ tx'.pub[i] = tx.pub[i]
    /\ i \in tx'.moved <=> i \in tx.moved
    /\ i \in tx'.records <=> i \in tx.records

Alone(i) ==
    /\ Still(i)
    /\ step'[i] = step[i]
    /\ tx.reported => tx'.reported \/ dbFaults' # 0
    /\ dbFaults # 0 => dbFaults' # 0

\* A plan whose files are left alone stays what it was.
LEMMA StillFrame ==
    ASSUME NEW i \in Plans, Still(i)
    PROVE  /\ AtSource(i)' = AtSource(i) /\ AtTarget(i)' = AtTarget(i)
           /\ AtRetired(i)' = AtRetired(i) /\ AtOld(i)' = AtOld(i)
           /\ NothingAside(i)' = NothingAside(i)
           /\ Replaces(i)' = Replaces(i)
           /\ BackedUp(i)' = BackedUp(i)
           /\ Known(i)' = Known(i)
           /\ Placed(i)' = Placed(i)
           /\ Untouched(i)' = Untouched(i)
           /\ Sound(i) /\ (Committed => Committed') => Sound(i)'
           /\ fs'[Partial(i)] = fs[Partial(i)] /\ fs'[Backup(i)] = fs[Backup(i)]
           /\ fs'[Source(i)] = fs[Source(i)] /\ fs'[Target(i)] = fs[Target(i)]
           /\ fs'[Retired(i)] = fs[Retired(i)] /\ fs'[Undo(i)] = fs[Undo(i)]
<1> USE DEF Still, env
<1>1. /\ fs'[Source(i)] = fs[Source(i)] /\ fs'[Target(i)] = fs[Target(i)]
      /\ fs'[Partial(i)] = fs[Partial(i)] /\ fs'[Retired(i)] = fs[Retired(i)]
      /\ fs'[Backup(i)] = fs[Backup(i)] /\ fs'[Undo(i)] = fs[Undo(i)]
  BY DEF NamesOf
<1>2. Old(i)' = Old(i) /\ fs'[Old(i)] = fs[Old(i)]
  BY OwnNames DEF NamesOf, Old, Target
<1>3. Replaces(i)' = Replaces(i)
  BY DEF Replaces
<1>4. /\ AtSource(i)' = AtSource(i) /\ AtTarget(i)' = AtTarget(i)
      /\ AtRetired(i)' = AtRetired(i) /\ AtOld(i)' = AtOld(i)
  BY <1>1, <1>2 DEF AtSource, AtTarget, AtRetired, AtOld, Safe, Holds
<1>5. NothingAside(i)' = NothingAside(i) /\ BackedUp(i)' = BackedUp(i)
  BY <1>1, <1>3 DEF NothingAside, BackedUp
<1>6. Placed(i)' = Placed(i) /\ Untouched(i)' = Untouched(i) /\ Known(i)' = Known(i)
  BY <1>1, <1>3, <1>4, <1>5 DEF Placed, Untouched, Known
<1>7. Sound(i) /\ (Committed => Committed') => Sound(i)'
  BY <1>1, <1>3, <1>4 DEF Sound
<1> QED BY <1>1, <1>3, <1>4, <1>5, <1>6, <1>7

LEMMA Frame ==
    ASSUME NEW i \in Plans, Alone(i)
    PROVE  /\ AtSource(i)' = AtSource(i)
           /\ BackedUp(i)' = BackedUp(i)
           /\ Placed(i)' = Placed(i)
           /\ Untouched(i)' = Untouched(i)
           /\ Undone(i) => Undone(i)'
           /\ Sound(i) /\ (Committed => Committed') => Sound(i)'
           /\ fs'[Backup(i)] = fs[Backup(i)]
BY StillFrame DEF Alone, Still, Undone, Blamed

\* A rename, and a removal, within the names of a plan.
LEMMA RenameWithin ==
    ASSUME NEW p \in Plans, NEW from \in NamesOf(p), NEW to \in NamesOf(p), from # to,
           fs \in [Names -> Files \cup {Empty}], Rename(from, to)
    PROVE  /\ fs'[from] = Empty /\ fs'[to] = fs[from]
           /\ \A n \in Names \ {from, to} : fs'[n] = fs[n]
BY OwnNames DEF Rename

LEMMA RemoveWithin ==
    ASSUME NEW p \in Plans, NEW n \in NamesOf(p),
           fs \in [Names -> Files \cup {Empty}], Remove(n)
    PROVE  /\ fs'[n] = Empty
           /\ \A m \in Names \ {n} : fs'[m] = fs[m]
BY OwnNames DEF Remove

-----------------------------------------------------------------------------
(* The phases.                                                             *)

LEMMA Phases ==
    /\ (Forward \/ Handling) => ~InRollback /\ ~AtRest /\ ~Committed
    /\ Forward => ~Handling
    /\ InRollback => ~AtRest /\ ~Committed
    /\ AtRest => ~Committed
    /\ AtJob => InRollback
BY DEF Forward, Handling, InRollback, AtRest, Committed, AtJob, Moving, Early, Cleaning,
       Undoing, Restoring

LEMMA PhasesNext ==
    /\ (Forward' \/ Handling') => ~InRollback' /\ ~AtRest' /\ ~Committed'
    /\ Forward' => ~Handling'
    /\ InRollback' => ~AtRest' /\ ~Committed'
    /\ AtRest' => ~Committed'
    /\ AtJob' => InRollback'
BY DEF Forward, Handling, InRollback, AtRest, Committed, AtJob, Moving, Early, Cleaning,
       Undoing, Restoring

\* A step within one plan.
Within(p) ==
    /\ UNCHANGED env
    /\ \A n \in Names \ NamesOf(p) : fs'[n] = fs[n]
    /\ \A i \in Plans \ {p} : /\ tx'.pub[i] = tx.pub[i]
                              /\ i \in tx'.moved <=> i \in tx.moved
                              /\ i \in tx'.records <=> i \in tx.records
                              /\ step'[i] = step[i]
    /\ tx.reported => tx'.reported \/ dbFaults' # 0
    /\ dbFaults # 0 => dbFaults' # 0

LEMMA OthersAlone ==
    ASSUME NEW p \in Plans, Within(p), NEW i \in Plans, i # p
    PROVE  Alone(i)
<1>1. NamesOf(i) \subseteq Names \ NamesOf(p)
  BY OwnNames, OtherNames
<1> QED BY <1>1 DEF Within, Alone, Still

\* A step of a plan that is being moved, or whose move is being given up.
LEMMA BusyStep ==
    ASSUME IInv, TypeOK', Forward \/ Handling, Forward' \/ Handling',
           Within(tx.cur), tx'.cur = tx.cur,
           step'[tx.cur] \notin {"rolled_back", "completed"},
           Sound(tx.cur)',
           Forward' => MovingOK(tx.cur)',
           Handling' => HandlingOK(tx.cur)',
           pc' \in Restoring => /\ RestoringOK(tx.cur)' /\ tx'.job = tx.cur
                                /\ tx.cur \notin tx'.moved
                                /\ tx'.ret = "inner" => ~tx'.created /\ ~tx'.partial /\ ~tx'.backup
    PROVE  IInv'
<1>1. tx.cur \in Plans /\ Plans \subseteq Int
  BY DEF IInv, TypeOK, Plans
<1>2. \A i \in Plans : PlanOK(i)'
  <2> SUFFICES ASSUME NEW i \in Plans PROVE PlanOK(i)'
    OBVIOUS
  <2>1. CASE i = tx.cur
    BY <2>1, <1>1, PhasesNext DEF PlanOK
  <2>2. CASE i # tx.cur
    <3>1. Alone(i)
      BY <1>1, <2>2, OthersAlone
    <3>2. PlanOK(i) /\ ~Committed
      BY Phases DEF IInv
    <3>3. Sound(i)' /\ step'[i] = step[i]
      BY <3>1, <3>2, Frame DEF PlanOK, Alone
    <3> QED BY <3>1, <3>2, <3>3, Frame, PhasesNext DEF PlanOK
  <2> QED BY <2>1, <2>2
<1>3. ~AtJob' /\ ~InRollback' /\ ~AtRest' /\ ~Committed'
  BY PhasesNext
<1>4. pc' \in Restoring => tx'.ret \in {"inner", "clean"}
  BY DEF Forward, Handling, Moving, Early, Cleaning, Restoring
<1> QED BY <1>2, <1>3, <1>4 DEF IInv, Committed, AtRest

\* The rollback begins: what is registered is placed, the rest is as good as undone.
LEMMA RollbackBegins ==
    ASSUME IInv, TypeOK', Forward \/ Handling, UNCHANGED <<fs, env>>,
           pc' = "undo_next",
           tx'.moved = tx.moved, tx'.todo = tx.moved, tx'.records = tx.records,
           tx'.cur = tx.cur, tx'.pub = tx.pub,
           tx.reported => tx'.reported \/ dbFaults' # 0, dbFaults # 0 => dbFaults' # 0,
           \A i \in Plans \ {tx.cur} : step'[i] = step[i],
           step'[tx.cur] \notin {"rolled_back", "completed"},
           IF tx.cur \in tx.moved THEN Placed(tx.cur) /\ BackedUp(tx.cur) ELSE Undone(tx.cur)'
    PROVE  IInv'
<1>1. tx.cur \in Plans /\ Plans \subseteq Int
  BY DEF IInv, TypeOK, Plans
<1>2. Still(tx.cur)
  BY <1>1, OwnNames DEF Still
<1>3. InRollback' /\ ~AtJob' /\ ~Forward' /\ ~Handling' /\ ~AtRest' /\ ~Committed' /\ pc' \notin Restoring
  BY DEF InRollback, AtJob, Forward, Handling, AtRest, Committed, Moving, Early, Cleaning, Undoing, Restoring
<1>4. ASSUME NEW i \in Plans, i # tx.cur PROVE PlanOK(i)'
  <2>0. i < tx.cur \/ i > tx.cur
    BY <1>1, <1>4, LocalMoveAssumption DEF Plans
  <2>1. Alone(i)
    BY <1>4, OwnNames DEF Alone, Still
  <2>2. PlanOK(i) /\ ~Committed
    BY <1>4, Phases DEF IInv
  <2>3. Untouched(i) => Undone(i) \/ step[i] = "completed"
    BY DEF Untouched, Undone
  <2>4. i \in tx.moved => Placed(i) /\ BackedUp(i)
    BY <2>0, <2>2 DEF PlanOK, Untouched
  <2>5. i \notin tx.moved => Undone(i)
    BY <2>0, <2>2, <2>3 DEF PlanOK, Placed
  <2> QED BY <1>2, <1>3, <2>1, <2>2, <2>4, <2>5, Frame DEF PlanOK, Alone
<1>5. PlanOK(tx.cur)'
  <2>1. Sound(tx.cur) /\ ~Committed
    BY <1>1, Phases DEF IInv, PlanOK
  <2>2. Sound(tx.cur)'
    BY <1>1, <1>2, <2>1, StillFrame DEF Still
  <2>3. tx.cur \in tx.moved => Placed(tx.cur)' /\ BackedUp(tx.cur)'
    BY <1>1, <1>2, StillFrame
  <2> QED BY <1>2, <1>3, <2>2, <2>3 DEF PlanOK
<1> QED BY <1>2, <1>3, <1>4, <1>5, <1>1 DEF IInv, Committed, AtRest

\* A step of the entry that the rollback is at, which stays in its list.
LEMMA JobStep ==
    ASSUME IInv, TypeOK', AtJob, AtJob', Within(tx.job), tx'.job = tx.job, tx'.todo = tx.todo,
           tx.job \in tx'.moved,
           step'[tx.job] = step[tx.job],
           Sound(tx.job)', JobOK(tx.job)',
           AtSource(tx.job)' \/ step[tx.job] # "rolled_back",
           pc' \in Restoring => RestoringOK(tx.job)'
    PROVE  IInv'
<1>1. tx.job \in Plans /\ tx.job \in tx.todo
  BY DEF IInv, TypeOK
<1>2. InRollback /\ InRollback'
  BY Phases, PhasesNext
<1>3. ASSUME NEW i \in Plans, i # tx.job PROVE PlanOK(i)'
  <2>1. Alone(i)
    BY <1>1, <1>3, OthersAlone
  <2>2. PlanOK(i) /\ ~Committed
    BY <1>2, Phases, <1>3 DEF IInv
  <2> QED BY <1>2, <1>3, <2>1, <2>2, Phases, PhasesNext, Frame DEF PlanOK, Alone
<1>4. step[tx.job] # "rolled_back"
  BY <1>1, <1>2 DEF IInv, PlanOK
<1>5. PlanOK(tx.job)'
  BY <1>1, <1>2, <1>4, Phases, PhasesNext DEF PlanOK
<1>6. tx.todo \subseteq tx'.moved
  <2> SUFFICES ASSUME NEW i \in tx.todo, i # tx.job PROVE i \in tx'.moved
    OBVIOUS
  <2>1. i \in Plans /\ i \in tx.moved
    BY <1>2 DEF IInv, TypeOK
  <2> QED BY <2>1 DEF Within
<1>7. ~Forward' /\ ~Handling' /\ ~AtRest' /\ ~Committed'
  BY <1>2, Phases, PhasesNext
<1>8. pc' \in Restoring => tx'.ret = "item"
  BY DEF AtJob, Undoing, Restoring
<1> QED BY <1>1, <1>3, <1>5, <1>6, <1>7, <1>8 DEF IInv, Committed, AtRest

\* The entry is done with and leaves the list.
LEMMA JobEnds ==
    ASSUME IInv, TypeOK', AtJob, Within(tx.job), pc' = "undo_next", tx'.job = tx.job,
           tx'.todo = tx.todo \ {tx.job}, tx'.moved = tx.moved,
           Undone(tx.job)', Sound(tx.job)',
           step'[tx.job] = "rolled_back" => AtSource(tx.job)'
    PROVE  IInv'
<1>1. tx.job \in Plans /\ tx.job \in tx.todo
  BY DEF IInv, TypeOK
<1>2. InRollback /\ InRollback' /\ ~AtJob'
  BY Phases DEF InRollback, AtJob, Undoing, Restoring
<1>3. ASSUME NEW i \in Plans, i # tx.job PROVE PlanOK(i)'
  <2>1. Alone(i)
    BY <1>1, <1>3, OthersAlone
  <2>2. PlanOK(i) /\ ~Committed
    BY <1>2, Phases, <1>3 DEF IInv
  <2> QED BY <1>2, <1>3, <2>1, <2>2, Phases, PhasesNext, Frame DEF PlanOK, Alone
<1>5. PlanOK(tx.job)'
  BY <1>1, <1>2, Phases, PhasesNext DEF PlanOK
<1>6. tx.todo \subseteq tx.moved
  BY <1>2 DEF IInv
<1>7. ~Forward' /\ ~Handling' /\ ~AtRest' /\ ~Committed' /\ pc' \notin Restoring
  BY <1>2, Phases, PhasesNext DEF Restoring
<1> QED BY <1>2, <1>3, <1>5, <1>6, <1>7 DEF IInv, Committed, AtRest

\* A step of the last round, which looks at the backups that are left.
LEMMA RestStep ==
    ASSUME IInv, TypeOK', AtRest, AtRest', NEW p \in Plans, Within(p), step' = step,
           Sound(p)', Undone(p)', AtSource(p) => AtSource(p)',
           pc' # "failed" => tx'.todo \subseteq tx'.records,
           ~Blamed' => tx'.records = (IF pc' = "failed" THEN {} ELSE tx'.todo),
           pc' \in Restoring => tx'.job \in tx'.todo /\ RestoringOK(tx.job)'
    PROVE  IInv'
<1>3. ASSUME NEW i \in Plans, i # p PROVE PlanOK(i)'
  <2>1. Alone(i)
    BY <1>3, OthersAlone
  <2>2. PlanOK(i) /\ ~Committed
    BY Phases, <1>3 DEF IInv
  <2> QED BY <1>3, <2>1, <2>2, Phases, PhasesNext, Frame DEF PlanOK, Alone
<1>5. PlanOK(p)'
  BY Phases, PhasesNext DEF PlanOK, IInv
<1>7. ~Forward' /\ ~Handling' /\ ~InRollback' /\ ~AtJob' /\ ~Committed'
  BY Phases, PhasesNext
<1>8. pc' \in Restoring => tx'.ret = "rest"
  BY DEF AtRest, Restoring
<1> QED BY <1>3, <1>5, <1>7, <1>8 DEF IInv, Committed

-----------------------------------------------------------------------------
(* Types.                                                                  *)

TxType == [cur : Plans, partial : BOOLEAN, created : BOOLEAN, backup : BOOLEAN,
           pub : [Plans -> Files \cup {Empty}], moved : SUBSET Plans,
           records : SUBSET Plans, todo : SUBSET Plans, job : Plans,
           ret : {"inner", "clean", "item", "rest"}, reported : BOOLEAN]

FilesOK == fs \in [Names -> Files \cup {Empty}]

\* Names and files of a plan are names and files.
LEMMA PlanNames ==
    ASSUME NEW i \in Plans
    PROVE  /\ {Source(i), Target(i), Old(i), Partial(i), Retired(i), Backup(i), Undo(i)} \subseteq Names
           /\ {Src(i), Copied(i), Recopied(i)} \subseteq Files
BY OwnNames, FileKinds DEF NamesOf

LEMMA RenameTyped ==
    ASSUME NEW from \in Names, NEW to \in Names, FilesOK, Rename(from, to)
    PROVE  FilesOK'
BY DEF Rename, FilesOK

LEMMA RemoveTyped ==
    ASSUME NEW n \in Names, FilesOK, Remove(n)
    PROVE  FilesOK'
BY DEF Remove, FilesOK

\* A file of which others destroy a copy has a content.
LEMMA ContentTyped ==
    \A f \in Files \cup {Empty} : Content(f) \in Files \cup {Empty} /\ (f \in Files => Content(f) \in Files)
BY DEF Content, Files, Src, Empty

LEMMA CallCounts ==
    ASSUME NEW can \in BOOLEAN, NEW sure \in BOOLEAN, NEW ok \in BOOLEAN, Call(can, sure, ok),
           faults \in 0 .. MaxFaults, dbFaults \in 0 .. MaxDbFaults
    PROVE  /\ faults' \in 0 .. MaxFaults /\ dbFaults' \in 0 .. MaxDbFaults /\ dbFaults' = dbFaults
           /\ ok => can
BY LocalMoveAssumption DEF Call

LEMMA DbCallCounts ==
    ASSUME NEW ok \in BOOLEAN, DbCall(ok),
           faults \in 0 .. MaxFaults, dbFaults \in 0 .. MaxDbFaults
    PROVE  /\ faults' \in 0 .. MaxFaults /\ dbFaults' \in 0 .. MaxDbFaults
           /\ ok => dbFaults' = dbFaults
           /\ ~ok => dbFaults' # 0
           /\ dbFaults # 0 => dbFaults' # 0
BY LocalMoveAssumption DEF DbCall

StepsOK == step \in [Plans -> {"none", "running", "completed", "failed", "rolled_back"}]
CountsOK == faults \in 0 .. MaxFaults /\ dbFaults \in 0 .. MaxDbFaults
EnvOK == /\ kind \in [Plans -> Kinds] /\ cross \in [Plans -> BOOLEAN]
         /\ made \subseteq Files /\ gone \subseteq Files /\ removals \in 0 .. MaxRemovals

\* The type invariant in parts.
LEMMA TypeParts == TypeOK <=> /\ FilesOK /\ tx \in TxType /\ pc \in Labels
                              /\ StepsOK /\ CountsOK /\ EnvOK
BY DEF TypeOK, FilesOK, TxType, StepsOK, CountsOK, EnvOK

LEMMA TypePartsNext == TypeOK' <=> /\ FilesOK' /\ tx' \in TxType /\ pc' \in Labels
                                   /\ StepsOK' /\ CountsOK' /\ EnvOK'
BY DEF TypeOK, FilesOK, TxType, StepsOK, CountsOK, EnvOK

\* Updates of the transaction's variables.
LEMMA TxUpdates ==
    ASSUME NEW t \in TxType, NEW S \in SUBSET Plans, NEW j \in Plans, NEW b \in BOOLEAN,
           NEW f \in Files \cup {Empty}, NEW r \in {"inner", "clean", "item", "rest"}
    PROVE  /\ [t EXCEPT !.todo = S] \in TxType
           /\ [t EXCEPT !.records = S] \in TxType
           /\ [t EXCEPT !.moved = S] \in TxType
           /\ [t EXCEPT !.pub[j] = f] \in TxType
           /\ [t EXCEPT !.job = j] \in TxType
           /\ [t EXCEPT !.cur = j] \in TxType
           /\ [t EXCEPT !.ret = r] \in TxType
           /\ [t EXCEPT !.partial = b] \in TxType
           /\ [t EXCEPT !.created = b] \in TxType
           /\ [t EXCEPT !.backup = b] \in TxType
           /\ [t EXCEPT !.reported = b] \in TxType
BY DEF TxType

\* The continuations lead to labels, with variables of the transaction.
LEMMA Continuations ==
    ASSUME NEW t \in TxType, TypeOK
    PROVE  /\ Reported(t) \in TxType
           /\ Rollback(t) => tx' \in TxType /\ pc' \in Labels
           /\ RestoreOwn(t) => tx' \in TxType /\ pc' \in Labels
           /\ Restored(t) => tx' \in TxType /\ pc' \in Labels
           /\ NotRestored(t) => tx' \in TxType /\ pc' \in Labels
           /\ SourceBack(t) => tx' \in TxType /\ pc' \in Labels
           /\ SourceNotBack(t) => tx' \in TxType /\ pc' \in Labels
           /\ Visited(t) => tx' \in TxType /\ pc' \in Labels
<1>0. Reported(t) \in TxType
  BY DEF Reported, TxType
<1>1. Rollback(t) => tx' \in TxType /\ pc' \in Labels
  BY DEF Rollback, Goto, TxType, Labels
<1>2. RestoreOwn(t) => tx' \in TxType /\ pc' \in Labels
  BY DEF RestoreOwn, Goto, TxType, Labels
<1>3. Restored(t) => tx' \in TxType /\ pc' \in Labels
  <2>1. t.ret \in {"inner", "clean", "item", "rest"}
    BY DEF TxType
  <2>2. [t EXCEPT !.todo = @ \ {t.job}] \in TxType
    BY DEF TxType
  <2> QED BY <2>1, <2>2 DEF Restored, Goto, Labels
<1>4. NotRestored(t) => tx' \in TxType /\ pc' \in Labels
  <2>1. t.ret \in {"inner", "clean", "item", "rest"}
    BY DEF TxType
  <2>2. [Reported(t) EXCEPT !.todo = @ \ {t.job}] \in TxType
    BY <1>0 DEF TxType
  <2> QED BY <1>0, <2>1, <2>2 DEF NotRestored, Goto, Labels
<1>5. SourceBack(t) => tx' \in TxType /\ pc' \in Labels
  BY DEF SourceBack, Goto, TxType, Labels
<1>6. SourceNotBack(t) => tx' \in TxType /\ pc' \in Labels
  BY <1>0 DEF SourceNotBack, Goto, Labels
<1>7. Visited(t) => tx' \in TxType /\ pc' \in Labels
  BY DEF Visited, Goto, TxType, Labels
<1> QED BY <1>0, <1>1, <1>2, <1>3, <1>4, <1>5, <1>6, <1>7

LEMMA TypeStep == TypeOK /\ [Next]_vars => TypeOK'
<1> SUFFICES ASSUME TypeOK, [Next]_vars PROVE TypeOK'
  OBVIOUS
<1>a. /\ FilesOK /\ tx \in TxType /\ pc \in Labels /\ StepsOK /\ CountsOK /\ EnvOK
      /\ tx.cur \in Plans /\ tx.job \in Plans
  BY TypeParts DEF TxType
<1>b. Empty \in Files \cup {Empty}
  OBVIOUS
<1>1. CASE Preflight
  <2>1. FilesOK'
    BY <1>1, <1>a DEF Preflight, FilesOK
  <2>2. tx' \in TxType /\ pc' \in Labels
    BY <1>1, <1>a, Continuations DEF Preflight, Goto, TxType, Labels, Ended
  <2>3. CountsOK'
    BY <1>1, <1>a, CallCounts DEF Preflight, CountsOK
  <2>4. StepsOK' /\ EnvOK'
    BY <1>1, <1>a DEF Preflight, env, StepsOK, EnvOK
  <2> QED BY <2>1, <2>2, <2>3, <2>4, TypePartsNext
<1>2. CASE Record
  <2>1. FilesOK'
    BY <1>2, <1>a, PlanNames DEF Record, FilesOK
  <2>2. tx' \in TxType /\ pc' \in Labels
    BY <1>2, <1>a, Continuations DEF Record, Goto, TxType, Labels, Ended
  <2>3. CountsOK'
    BY <1>2, <1>a, DbCallCounts DEF Record, CountsOK
  <2>4. StepsOK' /\ EnvOK'
    BY <1>2, <1>a DEF Record, env, StepsOK, EnvOK
  <2> QED BY <2>1, <2>2, <2>3, <2>4, TypePartsNext
<1>3. CASE Fingerprint
  <2>1. FilesOK'
    BY <1>3, <1>a DEF Fingerprint, FilesOK
  <2>2. tx' \in TxType /\ pc' \in Labels
    BY <1>3, <1>a, Continuations DEF Fingerprint, Goto, TxType, Labels, Ended
  <2>3. CountsOK'
    BY <1>3, <1>a, CallCounts DEF Fingerprint, CountsOK
  <2>4. StepsOK' /\ EnvOK'
    BY <1>3, <1>a DEF Fingerprint, env, StepsOK, EnvOK
  <2> QED BY <2>1, <2>2, <2>3, <2>4, TypePartsNext
<1>4. CASE BackUp
  <2>1. FilesOK'
    BY <1>4, <1>a, PlanNames, RenameTyped DEF BackUp, FilesOK
  <2>2. tx' \in TxType /\ pc' \in Labels
    BY <1>4, <1>a DEF BackUp, Goto, TxType, Labels, Ended
  <2>3. CountsOK'
    BY <1>4, <1>a, CallCounts DEF BackUp, CountsOK
  <2>4. StepsOK' /\ EnvOK'
    BY <1>4, <1>a DEF BackUp, env, StepsOK, EnvOK
  <2> QED BY <2>1, <2>2, <2>3, <2>4, TypePartsNext
<1>5. CASE CheckBackup
  <2>1. FilesOK'
    BY <1>5, <1>a DEF CheckBackup, FilesOK
  <2>2. tx' \in TxType /\ pc' \in Labels
    <3>1. [tx EXCEPT !.backup = TRUE] \in TxType
      BY <1>a, TxUpdates
    <3>2. [tx EXCEPT !.job = tx.cur, !.ret = "inner"] \in TxType
      BY <1>a DEF TxType
    <3> QED BY <1>5, <1>a, <3>1, <3>2 DEF CheckBackup, Goto, Labels
  <2>3. CountsOK'
    BY <1>5, <1>a, CallCounts DEF CheckBackup, CountsOK
  <2>4. StepsOK' /\ EnvOK'
    BY <1>5, <1>a DEF CheckBackup, env, StepsOK, EnvOK
  <2> QED BY <2>1, <2>2, <2>3, <2>4, TypePartsNext
<1>6. CASE ReplaceInPlace
  <2>1. FilesOK'
    BY <1>6, <1>a, PlanNames, RenameTyped DEF ReplaceInPlace, FilesOK
  <2>2. tx' \in TxType /\ pc' \in Labels
    <3>1. [tx EXCEPT !.pub[tx.cur] = Src(tx.cur), !.moved = @ \cup {tx.cur}] \in TxType
      BY <1>a, PlanNames DEF TxType
    <3> QED BY <1>6, <1>a, <3>1 DEF ReplaceInPlace, Goto, Labels
  <2>3. CountsOK'
    BY <1>6, <1>a, CallCounts DEF ReplaceInPlace, CountsOK
  <2>4. StepsOK' /\ EnvOK'
    BY <1>6, <1>a DEF ReplaceInPlace, env, StepsOK, EnvOK
  <2> QED BY <2>1, <2>2, <2>3, <2>4, TypePartsNext
<1>7. CASE Identify
  <2>1. FilesOK'
    BY <1>7, <1>a DEF Identify, FilesOK
  <2>2. tx' \in TxType /\ pc' \in Labels
    <3>1. fs[Source(tx.cur)] \in Files \cup {Empty}
      BY <1>a, PlanNames DEF FilesOK
    <3>2. [tx EXCEPT !.pub[tx.cur] = fs[Source(tx.cur)]] \in TxType
      BY <1>a, <3>1, TxUpdates
    <3> QED BY <1>7, <1>a, <3>2 DEF Identify, Goto, Labels
  <2>3. CountsOK'
    BY <1>7, <1>a, CallCounts DEF Identify, CountsOK
  <2>4. StepsOK' /\ EnvOK'
    BY <1>7, <1>a DEF Identify, env, StepsOK, EnvOK
  <2> QED BY <2>1, <2>2, <2>3, <2>4, TypePartsNext
<1>8. CASE Copy
  <2>1. FilesOK'
    BY <1>8, <1>a, PlanNames DEF Copy, FilesOK
  <2>2. tx' \in TxType /\ pc' \in Labels
    <3>1. [tx EXCEPT !.partial = TRUE, !.pub[tx.cur] = Copied(tx.cur)] \in TxType
      BY <1>a, PlanNames DEF TxType
    <3> QED BY <1>8, <1>a, <3>1 DEF Copy, Goto, Labels
  <2>3. CountsOK'
    BY <1>8, <1>a, CallCounts DEF Copy, CountsOK
  <2>4. StepsOK' /\ EnvOK'
    BY <1>8, <1>a DEF Copy, env, StepsOK, EnvOK
  <2> QED BY <2>1, <2>2, <2>3, <2>4, TypePartsNext
<1>9. CASE CopyAbandoned
  <2>1. FilesOK'
    BY <1>9, <1>a, PlanNames DEF CopyAbandoned, FilesOK
  <2>2. tx' \in TxType /\ pc' \in Labels
    BY <1>9, <1>a DEF CopyAbandoned, Goto, TxType, Labels, Ended
  <2>3. CountsOK'
    BY <1>9, <1>a, LocalMoveAssumption DEF CopyAbandoned, CountsOK
  <2>4. StepsOK' /\ EnvOK'
    BY <1>9, <1>a DEF CopyAbandoned, env, StepsOK, EnvOK
  <2> QED BY <2>1, <2>2, <2>3, <2>4, TypePartsNext
<1>10. CASE Publish
  <2>1. FilesOK'
    BY <1>10, <1>a, PlanNames, RenameTyped DEF Publish, FilesOK
  <2>2. tx' \in TxType /\ pc' \in Labels
    <3>1. Published(tx.cur) \in TxType
      BY <1>a DEF Published, TxType
    <3> QED BY <1>10, <1>a, <3>1 DEF Publish, Goto, Labels
  <2>3. CountsOK'
    BY <1>10, <1>a, CallCounts DEF Publish, CountsOK
  <2>4. StepsOK' /\ EnvOK'
    BY <1>10, <1>a DEF Publish, env, StepsOK, EnvOK
  <2> QED BY <2>1, <2>2, <2>3, <2>4, TypePartsNext
<1>11. CASE Verify
  <2>1. FilesOK'
    BY <1>11, <1>a DEF Verify, FilesOK
  <2>2. tx' \in TxType /\ pc' \in Labels
    BY <1>11, <1>a DEF Verify, Goto, TxType, Labels, Ended
  <2>3. CountsOK'
    BY <1>11, <1>a, CallCounts DEF Verify, CountsOK
  <2>4. StepsOK' /\ EnvOK'
    BY <1>11, <1>a DEF Verify, env, StepsOK, EnvOK
  <2> QED BY <2>1, <2>2, <2>3, <2>4, TypePartsNext
<1>12. CASE Retire
  <2>1. FilesOK'
    BY <1>12, <1>a, PlanNames, RenameTyped DEF Retire, FilesOK
  <2>2. tx' \in TxType /\ pc' \in Labels
    BY <1>12, <1>a DEF Retire, Goto, TxType, Labels, Ended
  <2>3. CountsOK'
    BY <1>12, <1>a, CallCounts DEF Retire, CountsOK
  <2>4. StepsOK' /\ EnvOK'
    BY <1>12, <1>a DEF Retire, env, StepsOK, EnvOK
  <2> QED BY <2>1, <2>2, <2>3, <2>4, TypePartsNext
<1>13. CASE UnlinkRetired
  <2>1. FilesOK'
    BY <1>13, <1>a, PlanNames, RemoveTyped DEF UnlinkRetired, FilesOK
  <2>2. tx' \in TxType /\ pc' \in Labels
    BY <1>13, <1>a DEF UnlinkRetired, Goto, TxType, Labels, Ended
  <2>3. CountsOK'
    BY <1>13, <1>a, CallCounts DEF UnlinkRetired, CountsOK
  <2>4. StepsOK' /\ EnvOK'
    BY <1>13, <1>a DEF UnlinkRetired, env, StepsOK, EnvOK
  <2> QED BY <2>1, <2>2, <2>3, <2>4, TypePartsNext
<1>14. CASE Unretire
  <2>1. FilesOK'
    BY <1>14, <1>a, PlanNames, RenameTyped DEF Unretire, FilesOK
  <2>2. tx' \in TxType /\ pc' \in Labels
    BY <1>14, <1>a, Continuations DEF Unretire, Goto, TxType, Labels, Ended
  <2>3. CountsOK'
    BY <1>14, <1>a, CallCounts DEF Unretire, CountsOK
  <2>4. StepsOK' /\ EnvOK'
    BY <1>14, <1>a DEF Unretire, env, StepsOK, EnvOK
  <2> QED BY <2>1, <2>2, <2>3, <2>4, TypePartsNext
<1>15. CASE Finish
  <2>1. FilesOK'
    BY <1>15, <1>a, PlanNames DEF Finish, FilesOK
  <2>2. tx' \in TxType /\ pc' \in Labels
    <3>1. [tx EXCEPT !.todo = tx.records] \in TxType
      BY <1>a DEF TxType
    <3>2. ~IsLast(tx.cur) => tx.cur + 1 \in Plans
      BY <1>a, LocalMoveAssumption DEF IsLast, Plans
    <3>3. ~IsLast(tx.cur) => [tx EXCEPT !.cur = tx.cur + 1, !.created = FALSE, !.backup = FALSE] \in TxType
      BY <1>a, <3>2 DEF TxType
    <3> QED BY <1>15, <1>a, <3>1, <3>3 DEF Finish, Goto, Labels
  <2>3. CountsOK'
    BY <1>15, <1>a, DbCallCounts DEF Finish, CountsOK
  <2>4. StepsOK' /\ EnvOK'
    BY <1>15, <1>a DEF Finish, env, StepsOK, EnvOK
  <2> QED BY <2>1, <2>2, <2>3, <2>4, TypePartsNext
<1>16. CASE Commit
  <2>1. CASE \E j \in tx.todo, ok \in BOOLEAN :
            /\ Call(fs[Backup(j)] \in {Prev(j), Empty}, TRUE, ok)
            /\ IF ok THEN /\ Remove(Backup(j))
                          /\ Goto("commit", [tx EXCEPT !.todo = @ \ {j}, !.records = @ \ {j}])
                     ELSE Goto("commit", [tx EXCEPT !.todo = @ \ {j}]) /\ UNCHANGED fs
    <3>1. PICK j \in tx.todo, ok \in BOOLEAN :
            /\ Call(fs[Backup(j)] \in {Prev(j), Empty}, TRUE, ok)
            /\ IF ok THEN /\ Remove(Backup(j))
                          /\ Goto("commit", [tx EXCEPT !.todo = @ \ {j}, !.records = @ \ {j}])
                     ELSE Goto("commit", [tx EXCEPT !.todo = @ \ {j}]) /\ UNCHANGED fs
      BY <2>1
    <3>2. j \in Plans
      BY <1>a DEF TxType
    <3>3. FilesOK'
      BY <1>a, <3>1, <3>2, PlanNames, RemoveTyped DEF FilesOK
    <3>4. /\ [tx EXCEPT !.todo = @ \ {j}, !.records = @ \ {j}] \in TxType
          /\ [tx EXCEPT !.todo = @ \ {j}] \in TxType
      BY <1>a DEF TxType
    <3>5. tx' \in TxType /\ pc' \in Labels
      BY <3>1, <3>4 DEF Goto, Labels
    <3>6. CountsOK'
      BY <1>a, <3>1, LocalMoveAssumption DEF CountsOK, Call
    <3>7. StepsOK' /\ EnvOK'
      BY <1>16, <1>a DEF Commit, env, StepsOK, EnvOK
    <3> QED BY <3>3, <3>5, <3>6, <3>7, TypePartsNext
  <2>2. CASE /\ tx.todo = {}
             /\ Goto(FinalStatus(tx), tx)
             /\ UNCHANGED <<fs, faults, dbFaults>>
    <3>1. FilesOK' /\ CountsOK' /\ StepsOK' /\ EnvOK'
      BY <1>16, <1>a, <2>2 DEF Commit, env, StepsOK, EnvOK, FilesOK, CountsOK
    <3>2. tx' \in TxType /\ pc' \in Labels
      BY <1>a, <2>2 DEF Goto, FinalStatus, Labels, Ended
    <3> QED BY <3>1, <3>2, TypePartsNext
  <2> QED BY <1>16, <2>1, <2>2 DEF Commit
<1>17. CASE CleanPartial
  <2>1. FilesOK'
    BY <1>17, <1>a, PlanNames, RemoveTyped DEF CleanPartial, FilesOK
  <2>2. tx' \in TxType /\ pc' \in Labels
    BY <1>17, <1>a, Continuations DEF CleanPartial, Goto, TxType, Labels, Ended
  <2>3. CountsOK'
    BY <1>17, <1>a, CallCounts DEF CleanPartial, CountsOK
  <2>4. StepsOK' /\ EnvOK'
    BY <1>17, <1>a DEF CleanPartial, env, StepsOK, EnvOK
  <2> QED BY <2>1, <2>2, <2>3, <2>4, TypePartsNext
<1>18. CASE DropCheck
  <2>1. FilesOK'
    BY <1>18, <1>a DEF DropCheck, FilesOK
  <2>2. tx' \in TxType /\ pc' \in Labels
    BY <1>18, <1>a, Continuations DEF DropCheck, Goto, TxType, Labels, Ended
  <2>3. CountsOK'
    BY <1>18, <1>a, LocalMoveAssumption DEF DropCheck, CountsOK, Call
  <2>4. StepsOK' /\ EnvOK'
    BY <1>18, <1>a DEF DropCheck, env, StepsOK, EnvOK
  <2> QED BY <2>1, <2>2, <2>3, <2>4, TypePartsNext
<1>19. CASE Drop
  <2>1. FilesOK'
    BY <1>19, <1>a, PlanNames, RemoveTyped DEF Drop, FilesOK
  <2>2. tx' \in TxType /\ pc' \in Labels
    BY <1>19, <1>a, Continuations DEF Drop, Goto, TxType, Labels, Ended
  <2>3. CountsOK'
    BY <1>19, <1>a, CallCounts DEF Drop, CountsOK
  <2>4. StepsOK' /\ EnvOK'
    BY <1>19, <1>a DEF Drop, env, StepsOK, EnvOK
  <2> QED BY <2>1, <2>2, <2>3, <2>4, TypePartsNext
<1>20. CASE RecordFailure
  <2>1. FilesOK'
    BY <1>20, <1>a, PlanNames DEF RecordFailure, FilesOK
  <2>2. tx' \in TxType /\ pc' \in Labels
    <3>1. [tx EXCEPT !.reported = FALSE] \in TxType
      BY <1>a, TxUpdates
    <3>2. Rollback(tx) \/ Rollback([tx EXCEPT !.reported = FALSE])
      BY <1>20 DEF RecordFailure
    <3> QED BY <1>a, <3>1, <3>2, Continuations
  <2>3. CountsOK'
    BY <1>20, <1>a, DbCallCounts DEF RecordFailure, CountsOK
  <2>4. StepsOK' /\ EnvOK'
    BY <1>20, <1>a DEF RecordFailure, env, StepsOK, EnvOK
  <2> QED BY <2>1, <2>2, <2>3, <2>4, TypePartsNext
<1>21. CASE RestoreCheck
  <2>1. FilesOK'
    BY <1>21, <1>a DEF RestoreCheck, FilesOK
  <2>2. tx' \in TxType /\ pc' \in Labels
    BY <1>21, <1>a, Continuations DEF RestoreCheck, Goto, TxType, Labels, Ended
  <2>3. CountsOK'
    BY <1>21, <1>a, CallCounts DEF RestoreCheck, CountsOK
  <2>4. StepsOK' /\ EnvOK'
    BY <1>21, <1>a DEF RestoreCheck, env, StepsOK, EnvOK
  <2> QED BY <2>1, <2>2, <2>3, <2>4, TypePartsNext
<1>22. CASE RestoreRename
  <2>1. FilesOK'
    BY <1>22, <1>a, PlanNames, RenameTyped DEF RestoreRename, FilesOK
  <2>2. tx' \in TxType /\ pc' \in Labels
    BY <1>22, <1>a, Continuations DEF RestoreRename, Goto, TxType, Labels, Ended
  <2>3. CountsOK'
    BY <1>22, <1>a, CallCounts DEF RestoreRename, CountsOK
  <2>4. StepsOK' /\ EnvOK'
    BY <1>22, <1>a DEF RestoreRename, env, StepsOK, EnvOK
  <2> QED BY <2>1, <2>2, <2>3, <2>4, TypePartsNext
<1>23. CASE RestoreVerify
  <2>1. FilesOK'
    BY <1>23, <1>a DEF RestoreVerify, FilesOK
  <2>2. tx' \in TxType /\ pc' \in Labels
    BY <1>23, <1>a, Continuations DEF RestoreVerify, Goto, TxType, Labels, Ended
  <2>3. CountsOK'
    BY <1>23, <1>a, CallCounts DEF RestoreVerify, CountsOK
  <2>4. StepsOK' /\ EnvOK'
    BY <1>23, <1>a DEF RestoreVerify, env, StepsOK, EnvOK
  <2> QED BY <2>1, <2>2, <2>3, <2>4, TypePartsNext
<1>24. CASE UndoNext
  <2>1. FilesOK'
    BY <1>24, <1>a DEF UndoNext, FilesOK
  <2>2. tx' \in TxType /\ pc' \in Labels
    BY <1>24, <1>a DEF UndoNext, Goto, Leftovers, TxType, Labels, Ended
  <2>3. CountsOK'
    BY <1>24, <1>a DEF UndoNext, CountsOK
  <2>4. StepsOK' /\ EnvOK'
    BY <1>24, <1>a DEF UndoNext, env, StepsOK, EnvOK
  <2> QED BY <2>1, <2>2, <2>3, <2>4, TypePartsNext
<1>25. CASE UndoCheck
  <2>1. FilesOK'
    BY <1>25, <1>a DEF UndoCheck, FilesOK
  <2>2. tx' \in TxType /\ pc' \in Labels
    BY <1>25, <1>a, Continuations DEF UndoCheck, Goto, TxType, Labels, Ended
  <2>3. CountsOK'
    BY <1>25, <1>a, CallCounts DEF UndoCheck, CountsOK
  <2>4. StepsOK' /\ EnvOK'
    BY <1>25, <1>a DEF UndoCheck, env, StepsOK, EnvOK
  <2> QED BY <2>1, <2>2, <2>3, <2>4, TypePartsNext
<1>26. CASE UndoRename
  <2>1. FilesOK'
    BY <1>26, <1>a, PlanNames, RenameTyped DEF UndoRename, FilesOK
  <2>2. tx' \in TxType /\ pc' \in Labels
    BY <1>26, <1>a, Continuations DEF UndoRename, Goto, TxType, Labels, Ended
  <2>3. CountsOK'
    BY <1>26, <1>a, CallCounts DEF UndoRename, CountsOK
  <2>4. StepsOK' /\ EnvOK'
    BY <1>26, <1>a DEF UndoRename, env, StepsOK, EnvOK
  <2> QED BY <2>1, <2>2, <2>3, <2>4, TypePartsNext
<1>27. CASE UndoCopy
  <2>1. FilesOK'
    BY <1>27, <1>a, PlanNames DEF UndoCopy, FilesOK
  <2>2. tx' \in TxType /\ pc' \in Labels
    BY <1>27, <1>a, Continuations DEF UndoCopy, Goto, TxType, Labels, Ended
  <2>3. CountsOK'
    BY <1>27, <1>a, CallCounts DEF UndoCopy, CountsOK
  <2>4. StepsOK' /\ EnvOK'
    BY <1>27, <1>a DEF UndoCopy, env, StepsOK, EnvOK
  <2> QED BY <2>1, <2>2, <2>3, <2>4, TypePartsNext
<1>28. CASE UndoPublish
  <2>1. FilesOK'
    BY <1>28, <1>a, PlanNames, RenameTyped, RemoveTyped DEF UndoPublish, FilesOK
  <2>2. tx' \in TxType /\ pc' \in Labels
    BY <1>28, <1>a, Continuations DEF UndoPublish, Goto, TxType, Labels, Ended
  <2>3. CountsOK'
    BY <1>28, <1>a, CallCounts DEF UndoPublish, CountsOK
  <2>4. StepsOK' /\ EnvOK'
    BY <1>28, <1>a DEF UndoPublish, env, StepsOK, EnvOK
  <2> QED BY <2>1, <2>2, <2>3, <2>4, TypePartsNext
<1>29. CASE UndoDropCheck
  <2>1. FilesOK'
    BY <1>29, <1>a DEF UndoDropCheck, FilesOK
  <2>2. tx' \in TxType /\ pc' \in Labels
    BY <1>29, <1>a, Continuations DEF UndoDropCheck, Goto, TxType, Labels, Ended
  <2>3. CountsOK'
    BY <1>29, <1>a, LocalMoveAssumption DEF UndoDropCheck, CountsOK, Call
  <2>4. StepsOK' /\ EnvOK'
    BY <1>29, <1>a DEF UndoDropCheck, env, StepsOK, EnvOK
  <2> QED BY <2>1, <2>2, <2>3, <2>4, TypePartsNext
<1>30. CASE UndoDrop
  <2>1. FilesOK'
    BY <1>30, <1>a, PlanNames, RemoveTyped DEF UndoDrop, FilesOK
  <2>2. tx' \in TxType /\ pc' \in Labels
    BY <1>30, <1>a, Continuations DEF UndoDrop, Goto, TxType, Labels, Ended
  <2>3. CountsOK'
    BY <1>30, <1>a, CallCounts DEF UndoDrop, CountsOK
  <2>4. StepsOK' /\ EnvOK'
    BY <1>30, <1>a DEF UndoDrop, env, StepsOK, EnvOK
  <2> QED BY <2>1, <2>2, <2>3, <2>4, TypePartsNext
<1>31. CASE RecordUndone
  <2>1. FilesOK'
    BY <1>31, <1>a, PlanNames DEF RecordUndone, FilesOK
  <2>2. tx' \in TxType /\ pc' \in Labels
    BY <1>31, <1>a, Continuations DEF RecordUndone, Goto, TxType, Labels, Ended
  <2>3. CountsOK'
    BY <1>31, <1>a, DbCallCounts DEF RecordUndone, CountsOK
  <2>4. StepsOK' /\ EnvOK'
    BY <1>31, <1>a DEF RecordUndone, env, StepsOK, EnvOK
  <2> QED BY <2>1, <2>2, <2>3, <2>4, TypePartsNext
<1>32. CASE RecordUndoFailure
  <2>1. FilesOK'
    BY <1>32, <1>a, PlanNames DEF RecordUndoFailure, FilesOK
  <2>2. tx' \in TxType /\ pc' \in Labels
    BY <1>32, <1>a, Continuations DEF RecordUndoFailure, Goto, TxType, Labels, Ended
  <2>3. CountsOK'
    BY <1>32, <1>a, DbCallCounts DEF RecordUndoFailure, CountsOK
  <2>4. StepsOK' /\ EnvOK'
    BY <1>32, <1>a DEF RecordUndoFailure, env, StepsOK, EnvOK
  <2> QED BY <2>1, <2>2, <2>3, <2>4, TypePartsNext
<1>33. CASE RestoreRest
  <2>1. FilesOK'
    BY <1>33, <1>a DEF RestoreRest, FilesOK
  <2>2. tx' \in TxType /\ pc' \in Labels
    <3>1. \A j \in Plans : [tx EXCEPT !.job = j, !.ret = "rest"] \in TxType
      BY <1>a DEF TxType
    <3>2. tx.todo \subseteq Plans
      BY <1>a DEF TxType
    <3> QED BY <1>33, <1>a, <3>1, <3>2 DEF RestoreRest, Goto, Labels, Ended
  <2>3. CountsOK'
    BY <1>33, <1>a DEF RestoreRest, CountsOK
  <2>4. StepsOK' /\ EnvOK'
    BY <1>33, <1>a DEF RestoreRest, env, StepsOK, EnvOK
  <2> QED BY <2>1, <2>2, <2>3, <2>4, TypePartsNext
<1>34. ASSUME NEW n \in Visible, NEW k \in Foreigners, Create(n, k) PROVE TypeOK'
  <2>1. FilesOK' /\ gone' \subseteq Files /\ made' \subseteq Files
    <3>1. n \in Names /\ fs[n] \in Files \cup {Empty}
      BY <1>a DEF FilesOK, Names
    <3>2. Content(fs[n]) \in Files \cup {Empty}
      BY <3>1, ContentTyped
    <3>3. Ext(k) \in Files
      BY DEF Ext, Files
    <3> QED BY <1>34, <1>a, <3>1, <3>2, <3>3 DEF Create, FilesOK, EnvOK
  <2> QED BY <1>34, <1>a, <2>1, TypePartsNext DEF Create, StepsOK, CountsOK, EnvOK
<1>35. ASSUME NEW n \in Visible, Delete(n) PROVE TypeOK'
  <2>1. FilesOK' /\ gone' \subseteq Files
    <3>1. n \in Names /\ fs[n] \in Files
      BY <1>35, <1>a DEF FilesOK, Names, Delete
    <3>2. Content(fs[n]) \in Files
      BY <3>1, ContentTyped
    <3> QED BY <1>35, <1>a, <3>1, <3>2, RemoveTyped DEF Delete, EnvOK, FilesOK, Remove
  <2>2. removals' \in 0 .. MaxRemovals
    BY <1>35, <1>a, LocalMoveAssumption DEF Delete, EnvOK
  <2> QED BY <1>35, <1>a, <2>1, <2>2, TypePartsNext DEF Delete, StepsOK, CountsOK, EnvOK
<1>36. CASE UNCHANGED vars
  BY <1>36 DEF vars, TypeOK
<1> QED BY <1>1, <1>2, <1>3, <1>4, <1>5, <1>6, <1>7, <1>8, <1>9, <1>10, <1>11, <1>12,
          <1>13, <1>14, <1>15, <1>16, <1>17, <1>18, <1>19, <1>20, <1>21, <1>22, <1>23, <1>24,
          <1>25, <1>26, <1>27, <1>28, <1>29, <1>30, <1>31, <1>32, <1>33, <1>34, <1>35, <1>36
  DEF Next, Transaction, MoveOne, Handle, RestoreBackup, RollBack, Others

-----------------------------------------------------------------------------
(* The steps of a plan that is being moved.                                *)

\* What the invariant says of the plan at hand.
LEMMA AtHand ==
    ASSUME IInv, Forward \/ Handling
    PROVE  /\ tx.cur \in Plans /\ tx \in TxType /\ FilesOK
           /\ PlanOK(tx.cur) /\ Sound(tx.cur)
           /\ step[tx.cur] \notin {"rolled_back", "completed"}
           /\ Forward => MovingOK(tx.cur)
           /\ Handling => HandlingOK(tx.cur)
BY TypeParts DEF IInv, PlanOK, Plans, TypeOK

\* Nothing is renamed and nothing registered: the plan's files and marks are what they were.
LEMMA NothingMoves ==
    ASSUME NEW p \in Plans, UNCHANGED <<fs, env>>,
           tx'.pub = tx.pub, tx'.moved = tx.moved, tx'.records = tx.records
    PROVE  Still(p)
BY OwnNames DEF Still

\* The transaction gives up before the plan at hand has moved anything.
LEMMA GivesUp ==
    ASSUME IInv, TypeOK', Forward, Untouched(tx.cur), Rollback(tx), UNCHANGED <<fs, step, env>>,
           dbFaults # 0 => dbFaults' # 0
    PROVE  IInv'
<1>1. /\ tx'.moved = tx.moved /\ tx'.todo = tx.moved /\ tx'.records = tx.records
      /\ tx'.cur = tx.cur /\ tx'.pub = tx.pub /\ tx'.reported = tx.reported /\ pc' = "undo_next"
  BY AtHand DEF Rollback, Goto, TxType
<1>2. Untouched(tx.cur)'
  BY <1>1, AtHand, NothingMoves, StillFrame
<1>3. Undone(tx.cur)' /\ tx.cur \notin tx.moved
  BY <1>1, <1>2, AtHand DEF Undone, Untouched
<1> QED BY <1>1, <1>3, AtHand, RollbackBegins

\* A step that moves nothing while the plan is moved.
LEMMA MovesOn ==
    ASSUME IInv, TypeOK', Forward, Forward', UNCHANGED <<fs, env>>, tx'.cur = tx.cur,
           tx'.moved = tx.moved, tx'.records = tx.records,
           \A i \in Plans \ {tx.cur} : tx'.pub[i] = tx.pub[i] /\ step'[i] = step[i],
           step'[tx.cur] \notin {"rolled_back", "completed"}, 
           tx'.reported = tx.reported, dbFaults # 0 => dbFaults' # 0,
           MovingOK(tx.cur)'
    PROVE  IInv'
<1>1. tx.cur \in Plans /\ Sound(tx.cur)
  BY AtHand
<1>2. Sound(tx.cur)'
  BY <1>1, Phases DEF Sound, AtSource, AtTarget, AtRetired, AtOld, Safe, Holds, Old, Target,
                      Replaces, env
<1>3. Within(tx.cur)
  BY <1>1 DEF Within
<1>4. ~Handling' /\ pc' \notin Restoring
  BY PhasesNext DEF Forward, Moving, Early, Restoring
<1> QED BY <1>2, <1>3, <1>4, BusyStep

\* The call of a plan fails and the handler takes over.
LEMMA Aborts ==
    ASSUME IInv, TypeOK', Forward, pc' = "clean", UNCHANGED <<fs, step, env>>, tx' = tx,
           dbFaults # 0 => dbFaults' # 0,
           pc \in {"backup", "publish", "rename", "verify", "retire", "finish"}
    PROVE  IInv'
<1>1. tx.cur \in Plans /\ Sound(tx.cur) /\ MovingOK(tx.cur)
  BY AtHand
<1>2. Still(tx.cur) /\ Within(tx.cur)
  BY <1>1, NothingMoves DEF Within
<1>3. Sound(tx.cur)'
  BY <1>1, <1>2, StillFrame, Phases
<1>4. Handling' /\ ~Forward' /\ pc' \notin Restoring
  BY DEF Handling, Forward, Moving, Early, Cleaning, Restoring
<1>5. /\ tx.cur \in tx.moved => Placed(tx.cur) /\ BackedUp(tx.cur) /\ ~tx.partial
      /\ tx.cur \notin tx.moved => /\ AtSource(tx.cur) /\ NothingAside(tx.cur)
                                   /\ Replaces(tx.cur) => BackedUp(tx.cur) \/ AtOld(tx.cur)
                                   /\ tx.created \/ tx.backup => BackedUp(tx.cur)
      /\ tx.backup => Replaces(tx.cur)
      /\ tx.created \/ tx.partial => cross[tx.cur]
      /\ ~tx.reported
  <2>1. CASE pc = "backup"
    BY <1>1, <2>1 DEF MovingOK, Untouched, Flags, Early
  <2>2. CASE pc \in {"publish", "rename"}
    BY <1>1, <2>2 DEF MovingOK, Unpublished, Moving, Early
  <2>3. CASE pc \in {"verify", "retire"}
    BY <1>1, <2>3 DEF MovingOK, Flags, Moving, Early, Placed
  <2>4. CASE pc = "finish"
    BY <1>1, <2>4 DEF MovingOK, Moving, Early, Placed
  <2> QED BY <2>1, <2>2, <2>3, <2>4
<1>6. HandlingOK(tx.cur)'
  <2>1. /\ tx.cur \in tx.moved => Placed(tx.cur)' /\ BackedUp(tx.cur)'
        /\ tx.cur \notin tx.moved => /\ AtSource(tx.cur)' /\ NothingAside(tx.cur)'
                                     /\ Replaces(tx.cur)' => BackedUp(tx.cur)' \/ AtOld(tx.cur)'
                                     /\ tx.created \/ tx.backup => BackedUp(tx.cur)'
        /\ tx.backup => Replaces(tx.cur)'
        /\ cross' = cross
    BY <1>1, <1>2, <1>5, StillFrame DEF env
  <2> QED BY <1>5, <2>1 DEF HandlingOK, Cleaning, NothingAside, BackedUp
<1> QED BY <1>2, <1>3, <1>4, <1>6, AtHand, BusyStep

LEMMA PreflightKeeps == IInv /\ Preflight => IInv'
<1> SUFFICES ASSUME IInv, Preflight PROVE IInv'
  OBVIOUS
<1>1. TypeOK'
  BY TypeStep DEF IInv, Next, Transaction, MoveOne
<1>2. Forward /\ Untouched(tx.cur) /\ Flags(FALSE, FALSE) /\ ~tx.backup /\ ~tx.reported
  BY AtHand DEF MovingOK, Preflight, Early, Forward, Moving
<1>3. UNCHANGED <<fs, step, env>> /\ dbFaults' = dbFaults
  BY DEF Preflight, Call
<1>4. CASE Goto("record", tx)
  <2>1. tx' = tx /\ pc' = "record" /\ Still(tx.cur)
    BY <1>2, <1>3, <1>4, AtHand, NothingMoves DEF Goto
  <2>2. MovingOK(tx.cur)'
    BY <1>2, <2>1, AtHand, StillFrame DEF MovingOK, Flags, Early
  <2> QED BY <1>1, <1>2, <1>3, <2>1, <2>2, AtHand, MovesOn DEF Forward, Moving, Early
<1>5. CASE Rollback(tx)
  BY <1>1, <1>2, <1>3, <1>5, GivesUp
<1> QED BY <1>4, <1>5 DEF Preflight

LEMMA RecordKeeps == IInv /\ Record => IInv'
<1> SUFFICES ASSUME IInv, Record PROVE IInv'
  OBVIOUS
<1>1. TypeOK'
  BY TypeStep DEF IInv, Next, Transaction, MoveOne
<1>2. Forward /\ Untouched(tx.cur) /\ Flags(FALSE, FALSE) /\ ~tx.backup /\ ~tx.reported
  BY AtHand DEF MovingOK, Record, Early, Forward, Moving
<1>3. UNCHANGED <<fs, env>> /\ (dbFaults # 0 => dbFaults' # 0)
  BY DbCallCounts, TypeParts DEF Record, IInv, CountsOK
<1>4. CASE Goto("fingerprint", tx) /\ step' = [step EXCEPT ![tx.cur] = "running"]
  <2>1. tx' = tx /\ pc' = "fingerprint" /\ Still(tx.cur)
    BY <1>2, <1>3, <1>4, AtHand, NothingMoves DEF Goto
  <2>2. MovingOK(tx.cur)'
    BY <1>2, <2>1, AtHand, StillFrame DEF MovingOK, Flags, Early
  <2>3. step'[tx.cur] = "running" /\ \A i \in Plans \ {tx.cur} : step'[i] = step[i]
    BY <1>2, <1>4, AtHand DEF IInv, TypeOK
  <2> QED BY <1>1, <1>2, <1>3, <2>1, <2>2, <2>3, MovesOn DEF Forward, Moving, Early
<1>5. CASE Rollback(tx) /\ UNCHANGED step
  BY <1>1, <1>2, <1>3, <1>5, GivesUp
<1> QED BY <1>4, <1>5 DEF Record

LEMMA FingerprintKeeps == IInv /\ Fingerprint => IInv'
<1> SUFFICES ASSUME IInv, Fingerprint PROVE IInv'
  OBVIOUS
<1>1. TypeOK'
  BY TypeStep DEF IInv, Next, Transaction, MoveOne
<1>2. Forward /\ Untouched(tx.cur) /\ Flags(FALSE, FALSE) /\ ~tx.backup /\ ~tx.reported
  BY AtHand DEF MovingOK, Fingerprint, Early, Forward, Moving
<1>3. UNCHANGED <<fs, step, env>> /\ dbFaults' = dbFaults
  BY DEF Fingerprint, Call
<1>4. CASE Goto(IF Replaces(tx.cur) THEN "backup" ELSE "publish", tx)
  <2>1. tx' = tx /\ pc' = (IF Replaces(tx.cur) THEN "backup" ELSE "publish") /\ Still(tx.cur)
    BY <1>2, <1>3, <1>4, AtHand, NothingMoves DEF Goto
  <2>2. Untouched(tx.cur)' /\ Replaces(tx.cur)' = Replaces(tx.cur)
    BY <1>2, <2>1, AtHand, StillFrame
  <2>3. MovingOK(tx.cur)'
    BY <1>2, <2>1, <2>2 DEF MovingOK, Flags, Early, Unpublished, Untouched, BackedUp, Moving
  <2> QED BY <1>1, <1>2, <1>3, <2>1, <2>3, AtHand, MovesOn DEF Forward, Moving, Early
<1>5. CASE Rollback(tx)
  BY <1>1, <1>2, <1>3, <1>5, GivesUp
<1> QED BY <1>4, <1>5 DEF Fingerprint

LEMMA BackUpKeeps == IInv /\ BackUp => IInv'
<1> SUFFICES ASSUME IInv, BackUp PROVE IInv'
  OBVIOUS
<1>1. TypeOK'
  BY TypeStep DEF IInv, Next, Transaction, MoveOne
<1>2. /\ Forward /\ tx.cur \in Plans
      /\ Untouched(tx.cur) /\ Flags(FALSE, FALSE) /\ ~tx.backup /\ ~tx.reported /\ Replaces(tx.cur)
  BY AtHand DEF MovingOK, BackUp, Early, Forward, Moving
<1>3. UNCHANGED <<step, env>> /\ dbFaults' = dbFaults
  BY DEF BackUp, Call
<1>4. CASE Rename(Old(tx.cur), Backup(tx.cur))
           /\ Goto("check_backup", [tx EXCEPT !.records = @ \cup {tx.cur}])
  <2>1. /\ pc' = "check_backup" /\ tx'.records = tx.records \cup {tx.cur}
        /\ tx'.cur = tx.cur /\ tx'.moved = tx.moved /\ tx'.pub = tx.pub
        /\ tx'.partial = tx.partial /\ tx'.created = tx.created /\ tx'.backup = tx.backup
        /\ tx'.reported = tx.reported
    BY <1>2, <1>4, AtHand DEF Goto, TxType
  <2>2. /\ Old(tx.cur) \in NamesOf(tx.cur) /\ Backup(tx.cur) \in NamesOf(tx.cur)
        /\ Old(tx.cur) \notin {Source(tx.cur), Partial(tx.cur), Retired(tx.cur), Backup(tx.cur), Undo(tx.cur)}
    BY <1>2, OwnNames DEF NamesOf
  <2>3. /\ fs'[Backup(tx.cur)] = fs[Old(tx.cur)]
        /\ \A n \in Names \ NamesOf(tx.cur) : fs'[n] = fs[n]
        /\ fs'[Source(tx.cur)] = fs[Source(tx.cur)] /\ fs'[Partial(tx.cur)] = fs[Partial(tx.cur)]
        /\ fs'[Retired(tx.cur)] = fs[Retired(tx.cur)] /\ fs'[Undo(tx.cur)] = fs[Undo(tx.cur)]
    BY <1>2, <1>4, <2>2, AtHand, OwnNames, RenameWithin DEF FilesOK, NamesOf
  <2>4. Within(tx.cur)
    BY <1>2, <1>3, <2>1, <2>3 DEF Within
  <2>5. AtSource(tx.cur)' /\ NothingAside(tx.cur)' /\ Replaces(tx.cur)'
    BY <1>2, <1>3, <2>1, <2>3 DEF Untouched, AtSource, Safe, Holds, NothingAside, Replaces, env
  <2>6. fs'[Backup(tx.cur)] = Prev(tx.cur) \/ Prev(tx.cur) \in gone
    BY <1>2, <2>3, FileKinds DEF Untouched, AtOld, Safe, Holds
  <2>7. Sound(tx.cur)'
    BY <1>3, <2>1, <2>5, <2>6 DEF Sound, AtOld, Safe, env
  <2>8. MovingOK(tx.cur)'
    BY <1>2, <1>3, <2>1, <2>3, <2>5, <2>6 DEF MovingOK, Early, Moving, Flags, Unpublished, Untouched, env
  <2>9. Forward' /\ ~Handling' /\ pc' \notin Restoring
    BY <2>1 DEF Forward, Handling, Moving, Early, Cleaning, Restoring
  <2> QED BY <1>1, <1>2, <1>3, <2>1, <2>4, <2>7, <2>8, <2>9, AtHand, BusyStep
<1>5. CASE Goto("clean", tx) /\ UNCHANGED fs
  BY <1>1, <1>2, <1>3, <1>5, Aborts DEF BackUp, Goto
<1> QED BY <1>4, <1>5 DEF BackUp

LEMMA CheckBackupKeeps == IInv /\ CheckBackup => IInv'
<1> SUFFICES ASSUME IInv, CheckBackup PROVE IInv'
  OBVIOUS
<1>1. TypeOK'
  BY TypeStep DEF IInv, Next, Transaction, MoveOne
<1>2. /\ Forward /\ tx.cur \in Plans
      /\ Unpublished(tx.cur) /\ fs[Partial(tx.cur)] = Empty
      /\ ~tx.partial /\ ~tx.backup /\ ~tx.reported /\ Replaces(tx.cur) /\ tx.cur \in tx.records
      /\ Sound(tx.cur)
  BY AtHand DEF MovingOK, CheckBackup, Early, Forward, Moving
<1>3. UNCHANGED <<fs, step, env>> /\ dbFaults' = dbFaults
  BY DEF CheckBackup, Call
<1>4. CASE fs[Backup(tx.cur)] = Prev(tx.cur) /\ Goto("publish", [tx EXCEPT !.backup = TRUE])
  <2>1. /\ pc' = "publish" /\ tx'.records = tx.records
        /\ tx'.cur = tx.cur /\ tx'.moved = tx.moved /\ tx'.pub = tx.pub
        /\ tx'.partial = tx.partial /\ tx'.created = tx.created /\ tx'.backup = TRUE
        /\ tx'.reported = tx.reported
    BY <1>2, <1>4, AtHand DEF Goto, TxType
  <2>2. AtSource(tx.cur)' /\ NothingAside(tx.cur)' /\ Replaces(tx.cur)' /\ fs'[Partial(tx.cur)] = Empty
    BY <1>2, <1>3, <2>1, NothingMoves, StillFrame DEF Unpublished
  <2>3. BackedUp(tx.cur)'
    BY <1>2, <1>3, <1>4, <2>1 DEF BackedUp
  <2>4. MovingOK(tx.cur)'
    BY <1>2, <1>3, <2>1, <2>2, <2>3 DEF MovingOK, Early, Moving, Unpublished
  <2> QED BY <1>1, <1>2, <1>3, <2>1, <2>4, AtHand, MovesOn DEF Forward, Moving, Early
<1>5. CASE Goto("restore", [tx EXCEPT !.job = tx.cur, !.ret = "inner"])
  <2>1. /\ pc' = "restore" /\ tx'.records = tx.records /\ tx'.ret = "inner" /\ tx'.job = tx.cur
        /\ tx'.cur = tx.cur /\ tx'.moved = tx.moved /\ tx'.pub = tx.pub
        /\ tx'.partial = tx.partial /\ tx'.created = tx.created /\ tx'.backup = tx.backup
        /\ tx'.reported = tx.reported
    BY <1>2, <1>5, AtHand DEF Goto, TxType
  <2>2. Still(tx.cur) /\ Within(tx.cur)
    BY <1>2, <1>3, <2>1, NothingMoves DEF Within
  <2>3. AtSource(tx.cur)' /\ NothingAside(tx.cur)' /\ Replaces(tx.cur)' /\ Sound(tx.cur)'
    BY <1>2, <2>1, <2>2, StillFrame, Phases DEF Unpublished
  <2>4. HandlingOK(tx.cur)'
    BY <1>2, <2>1, <2>3 DEF HandlingOK, Unpublished, NothingAside, Cleaning
  <2>5. RestoringOK(tx.cur)'
    BY <1>2, <2>1 DEF RestoringOK
  <2>6. Handling' /\ ~Forward'
    BY <2>1 DEF Handling, Forward, Moving, Early, Cleaning, Restoring
  <2> QED BY <1>1, <1>2, <1>3, <2>1, <2>2, <2>3, <2>4, <2>5, <2>6, AtHand, BusyStep DEF Unpublished
<1> QED BY <1>4, <1>5 DEF CheckBackup, Call

LEMMA ReplaceInPlaceKeeps == IInv /\ ReplaceInPlace => IInv'
<1> SUFFICES ASSUME IInv, ReplaceInPlace PROVE IInv'
  OBVIOUS
<1>1. TypeOK'
  BY TypeStep DEF IInv, Next, Transaction, MoveOne
<1>2. /\ Forward /\ tx.cur \in Plans /\ ~cross[tx.cur]
      /\ Unpublished(tx.cur) /\ fs[Partial(tx.cur)] = Empty /\ ~tx.partial /\ ~tx.reported
      /\ BackedUp(tx.cur) /\ (tx.backup <=> Replaces(tx.cur)) /\ Sound(tx.cur)
  BY AtHand DEF MovingOK, ReplaceInPlace, Early, Forward, Moving
<1>3. UNCHANGED <<step, env>> /\ dbFaults' = dbFaults
  BY DEF ReplaceInPlace, Call
<1>4. CASE /\ Rename(Source(tx.cur), Target(tx.cur))
           /\ Goto("verify", [tx EXCEPT !.pub[tx.cur] = Src(tx.cur), !.moved = @ \cup {tx.cur}])
  <2>1. /\ pc' = "verify" /\ tx'.records = tx.records /\ tx'.cur = tx.cur
        /\ tx'.moved = tx.moved \cup {tx.cur} /\ tx'.pub = [tx.pub EXCEPT ![tx.cur] = Src(tx.cur)]
        /\ tx'.partial = tx.partial /\ tx'.created = tx.created /\ tx'.backup = tx.backup
        /\ tx'.reported = tx.reported
    BY <1>2, <1>4, AtHand DEF Goto, TxType
  <2>2. /\ tx'.pub[tx.cur] = Src(tx.cur)
        /\ \A i \in Plans \ {tx.cur} : tx'.pub[i] = tx.pub[i]
    BY <1>2, <2>1, AtHand DEF TxType
  <2>3. /\ fs'[Source(tx.cur)] = Empty /\ fs'[Target(tx.cur)] = fs[Source(tx.cur)]
        /\ \A n \in Names \ NamesOf(tx.cur) : fs'[n] = fs[n]
        /\ fs'[Partial(tx.cur)] = fs[Partial(tx.cur)] /\ fs'[Backup(tx.cur)] = fs[Backup(tx.cur)]
        /\ fs'[Retired(tx.cur)] = fs[Retired(tx.cur)] /\ fs'[Undo(tx.cur)] = fs[Undo(tx.cur)]
    BY <1>2, <1>4, AtHand, OwnNames, RenameWithin DEF FilesOK, NamesOf
  <2>4. Within(tx.cur)
    BY <1>2, <1>3, <2>1, <2>2, <2>3 DEF Within
  <2>5. Placed(tx.cur)'
    BY <1>2, <1>3, <2>1, <2>2, <2>3, FileKinds
    DEF Placed, Unpublished, AtSource, AtTarget, Safe, Holds, NothingAside, Known, env
  <2>6. BackedUp(tx.cur)' /\ (tx'.backup <=> Replaces(tx.cur)')
    BY <1>2, <1>3, <2>1, <2>3 DEF BackedUp, Replaces, env
  <2>7. Sound(tx.cur)'
    BY <1>2, <2>1, <2>3, <2>5, <2>6, <1>3 DEF Sound, BackedUp, Placed, Replaces, env
  <2>8. MovingOK(tx.cur)'
    BY <1>2, <1>3, <2>1, <2>5, <2>6 DEF MovingOK, Early, Moving, Flags, Unpublished, env
  <2>9. Forward' /\ ~Handling' /\ pc' \notin Restoring
    BY <2>1 DEF Forward, Handling, Moving, Early, Cleaning, Restoring
  <2> QED BY <1>1, <1>2, <1>3, <2>1, <2>4, <2>7, <2>8, <2>9, AtHand, BusyStep
<1>5. CASE Goto("clean", tx) /\ UNCHANGED fs
  BY <1>1, <1>2, <1>3, <1>5, Aborts DEF ReplaceInPlace, Goto
<1> QED BY <1>4, <1>5 DEF ReplaceInPlace

LEMMA IdentifyKeeps == IInv /\ Identify => IInv'
<1> SUFFICES ASSUME IInv, Identify PROVE IInv'
  OBVIOUS
<1>1. TypeOK'
  BY TypeStep DEF IInv, Next, Transaction, MoveOne
<1>2. /\ Forward /\ tx.cur \in Plans /\ ~cross[tx.cur] /\ kind[tx.cur] # "replace_same"
      /\ Unpublished(tx.cur) /\ fs[Partial(tx.cur)] = Empty /\ ~tx.partial /\ ~tx.reported
      /\ BackedUp(tx.cur) /\ (tx.backup <=> Replaces(tx.cur)) /\ Sound(tx.cur)
  BY AtHand DEF MovingOK, Identify, Early, Forward, Moving
<1>3. UNCHANGED <<step, env, fs>> /\ dbFaults' = dbFaults
  BY DEF Identify, Call
<1>4. CASE /\ fs[Source(tx.cur)] # Empty
           /\ Goto("rename", [tx EXCEPT !.pub[tx.cur] = fs[Source(tx.cur)]])
  <2>1. /\ pc' = "rename" /\ tx'.records = tx.records /\ tx'.cur = tx.cur
        /\ tx'.moved = tx.moved /\ tx'.pub = [tx.pub EXCEPT ![tx.cur] = fs[Source(tx.cur)]]
        /\ tx'.partial = tx.partial /\ tx'.created = tx.created /\ tx'.backup = tx.backup
        /\ tx'.reported = tx.reported
    BY <1>2, <1>4, AtHand DEF Goto, TxType
  <2>2. /\ tx'.pub[tx.cur] = fs[Source(tx.cur)]
        /\ \A i \in Plans \ {tx.cur} : tx'.pub[i] = tx.pub[i]
    BY <1>2, <2>1, AtHand DEF TxType
  <2>3. Known(tx.cur)'
    BY <1>2, <1>3, <1>4, <2>1, <2>2 DEF Known, Unpublished, AtSource, Safe, Holds, env
  <2>4. Unpublished(tx.cur)' /\ BackedUp(tx.cur)' /\ (tx'.backup <=> Replaces(tx.cur)')
    BY <1>2, <1>3, <2>1
    DEF Unpublished, AtSource, Safe, Holds, NothingAside, BackedUp, Replaces, env
  <2>5. MovingOK(tx.cur)'
    BY <1>2, <1>3, <2>1, <2>3, <2>4 DEF MovingOK, Early, Moving, env
  <2> QED BY <1>1, <1>2, <1>3, <2>1, <2>2, <2>5, AtHand, MovesOn DEF Forward, Moving, Early
<1>5. CASE Goto("clean", tx)
  BY <1>1, <1>2, <1>3, <1>5, Aborts DEF Identify, Goto
<1> QED BY <1>4, <1>5 DEF Identify, Call

LEMMA CopyKeeps == IInv /\ Copy => IInv'
<1> SUFFICES ASSUME IInv, Copy PROVE IInv'
  OBVIOUS
<1>1. TypeOK'
  BY TypeStep DEF IInv, Next, Transaction, MoveOne
<1>2. /\ Forward /\ tx.cur \in Plans /\ cross[tx.cur]
      /\ Unpublished(tx.cur) /\ ~tx.partial /\ ~tx.reported
      /\ BackedUp(tx.cur) /\ (tx.backup <=> Replaces(tx.cur)) /\ Sound(tx.cur)
  BY AtHand DEF MovingOK, Copy, Early, Forward, Moving
<1>3. UNCHANGED <<step, env>> /\ dbFaults' = dbFaults
  BY DEF Copy, Call
<1>4. CASE /\ fs' = [fs EXCEPT ![Partial(tx.cur)] = Copied(tx.cur)]
           /\ Goto("rename", [tx EXCEPT !.partial = TRUE, !.pub[tx.cur] = Copied(tx.cur)])
  <2>1. /\ pc' = "rename" /\ tx'.records = tx.records /\ tx'.cur = tx.cur
        /\ tx'.moved = tx.moved /\ tx'.pub = [tx.pub EXCEPT ![tx.cur] = Copied(tx.cur)]
        /\ tx'.partial = TRUE /\ tx'.created = tx.created /\ tx'.backup = tx.backup
        /\ tx'.reported = tx.reported
    BY <1>2, <1>4, AtHand DEF Goto, TxType
  <2>2. /\ tx'.pub[tx.cur] = Copied(tx.cur)
        /\ \A i \in Plans \ {tx.cur} : tx'.pub[i] = tx.pub[i]
    BY <1>2, <2>1, AtHand DEF TxType
  <2>3. /\ \A n \in Names \ {Partial(tx.cur)} : fs'[n] = fs[n]
        /\ fs'[Partial(tx.cur)] = Copied(tx.cur)
    BY <1>2, <1>4, AtHand, PlanNames DEF FilesOK
  <2>4. Within(tx.cur)
    BY <1>2, <1>3, <2>1, <2>2, <2>3, OwnNames DEF Within, NamesOf
  <2>5. /\ fs'[Source(tx.cur)] = fs[Source(tx.cur)] /\ fs'[Target(tx.cur)] = fs[Target(tx.cur)]
        /\ fs'[Retired(tx.cur)] = fs[Retired(tx.cur)] /\ fs'[Undo(tx.cur)] = fs[Undo(tx.cur)]
        /\ fs'[Backup(tx.cur)] = fs[Backup(tx.cur)]
    BY <1>2, <2>3, OwnNames DEF NamesOf
  <2>6. /\ AtSource(tx.cur)' /\ NothingAside(tx.cur)' /\ BackedUp(tx.cur)'
        /\ (tx'.backup <=> Replaces(tx.cur)')
    BY <1>2, <1>3, <2>1, <2>5
    DEF Unpublished, AtSource, Safe, Holds, NothingAside, BackedUp, Replaces, env
  <2>7. Sound(tx.cur)'
    BY <1>2, <1>3, <2>1, <2>5, <2>6 DEF Sound, BackedUp, Replaces, env
  <2>8. MovingOK(tx.cur)'
    BY <1>2, <1>3, <2>1, <2>2, <2>3, <2>6 DEF MovingOK, Early, Moving, Known, Unpublished, env
  <2>9. Forward' /\ ~Handling' /\ pc' \notin Restoring
    BY <2>1 DEF Forward, Handling, Moving, Early, Cleaning, Restoring
  <2> QED BY <1>1, <1>2, <1>3, <2>1, <2>4, <2>7, <2>8, <2>9, AtHand, BusyStep
<1>5. CASE Goto("clean", tx) /\ UNCHANGED fs
  BY <1>1, <1>2, <1>3, <1>5, Aborts DEF Copy, Goto
<1> QED BY <1>4, <1>5 DEF Copy

LEMMA CopyAbandonedKeeps == IInv /\ CopyAbandoned => IInv'
<1> SUFFICES ASSUME IInv, CopyAbandoned PROVE IInv'
  OBVIOUS
<1>1. TypeOK'
  BY TypeStep DEF IInv, Next, Transaction, MoveOne
<1>2. /\ Forward /\ tx.cur \in Plans /\ cross[tx.cur]
      /\ Unpublished(tx.cur) /\ ~tx.partial /\ ~tx.reported
      /\ BackedUp(tx.cur) /\ (tx.backup <=> Replaces(tx.cur)) /\ Sound(tx.cur)
  BY AtHand DEF MovingOK, CopyAbandoned, Early, Forward, Moving
<1>3. UNCHANGED <<step, env>> /\ dbFaults' = dbFaults /\ pc' = "clean" /\ tx' = tx
  BY DEF CopyAbandoned, Goto
<1>4. \A n \in Names \ {Partial(tx.cur)} : fs'[n] = fs[n]
  BY <1>2, AtHand, PlanNames DEF FilesOK, CopyAbandoned
<1>5. Within(tx.cur)
  BY <1>2, <1>3, <1>4, OwnNames DEF Within, NamesOf
<1>6. /\ fs'[Source(tx.cur)] = fs[Source(tx.cur)] /\ fs'[Target(tx.cur)] = fs[Target(tx.cur)]
      /\ fs'[Retired(tx.cur)] = fs[Retired(tx.cur)] /\ fs'[Undo(tx.cur)] = fs[Undo(tx.cur)]
      /\ fs'[Backup(tx.cur)] = fs[Backup(tx.cur)]
  BY <1>2, <1>4, OwnNames DEF NamesOf
<1>7. /\ AtSource(tx.cur)' /\ NothingAside(tx.cur)' /\ BackedUp(tx.cur)'
      /\ (tx'.backup <=> Replaces(tx.cur)')
  BY <1>2, <1>3, <1>6
  DEF Unpublished, AtSource, Safe, Holds, NothingAside, BackedUp, Replaces, env
<1>8. Sound(tx.cur)'
  BY <1>2, <1>3, <1>6, <1>7 DEF Sound, BackedUp, Replaces, env
<1>9. HandlingOK(tx.cur)'
  BY <1>2, <1>3, <1>7 DEF HandlingOK, Unpublished, NothingAside, BackedUp, Cleaning
<1>10. Handling' /\ ~Forward' /\ pc' \notin Restoring
  BY <1>3 DEF Forward, Handling, Moving, Early, Cleaning, Restoring
<1> QED BY <1>1, <1>2, <1>3, <1>5, <1>8, <1>9, <1>10, AtHand, BusyStep

LEMMA PublishKeeps == IInv /\ Publish => IInv'
<1> SUFFICES ASSUME IInv, Publish PROVE IInv'
  OBVIOUS
<1> DEFINE from == IF cross[tx.cur] THEN Partial(tx.cur) ELSE Source(tx.cur)
<1>1. TypeOK'
  BY TypeStep DEF IInv, Next, Transaction, MoveOne
<1>2. /\ Forward /\ tx.cur \in Plans /\ Unpublished(tx.cur) /\ Known(tx.cur) /\ ~tx.reported
      /\ IF cross[tx.cur] THEN tx.partial /\ fs[Partial(tx.cur)] = Copied(tx.cur)
         ELSE ~tx.partial /\ fs[Partial(tx.cur)] = Empty /\ kind[tx.cur] # "replace_same"
      /\ BackedUp(tx.cur) /\ (tx.backup <=> Replaces(tx.cur)) /\ Sound(tx.cur)
  BY AtHand DEF MovingOK, Publish, Early, Forward, Moving
<1>3. UNCHANGED <<step, env>> /\ dbFaults' = dbFaults
  BY DEF Publish, Call
<1>4. CASE /\ fs[from] # Empty
           /\ Rename(from, Target(tx.cur)) /\ Goto("verify", Published(tx.cur))
  <2>1. /\ fs'[from] = Empty /\ fs'[Target(tx.cur)] = fs[from]
        /\ \A n \in Names \ NamesOf(tx.cur) : fs'[n] = fs[n]
        /\ fs'[Backup(tx.cur)] = fs[Backup(tx.cur)]
        /\ fs'[Retired(tx.cur)] = fs[Retired(tx.cur)] /\ fs'[Undo(tx.cur)] = fs[Undo(tx.cur)]
        /\ from # Source(tx.cur) => fs'[Source(tx.cur)] = fs[Source(tx.cur)]
        /\ from # Partial(tx.cur) => fs'[Partial(tx.cur)] = fs[Partial(tx.cur)]
    BY <1>2, <1>4, AtHand, OwnNames, RenameWithin DEF FilesOK, NamesOf
  <2>2. /\ pc' = "verify" /\ tx'.records = tx.records /\ tx'.cur = tx.cur /\ tx'.pub = tx.pub
        /\ tx'.backup = tx.backup /\ tx'.reported = tx.reported
        /\ IF cross[tx.cur]
           THEN tx'.moved = tx.moved /\ ~tx'.partial /\ tx'.created
           ELSE /\ tx'.moved = tx.moved \cup {tx.cur}
                /\ tx'.partial = tx.partial /\ tx'.created = tx.created
    BY <1>2, <1>4, AtHand DEF Goto, Published, TxType
  <2>3. Within(tx.cur)
    BY <1>2, <1>3, <2>1, <2>2 DEF Within
  <2>4. Known(tx.cur)' /\ NothingAside(tx.cur)' /\ fs'[Partial(tx.cur)] = Empty
    BY <1>2, <1>3, <2>1, <2>2 DEF Known, NothingAside, Unpublished, env
  <2>5. BackedUp(tx.cur)' /\ (tx'.backup <=> Replaces(tx.cur)')
    BY <1>2, <1>3, <2>1, <2>2 DEF BackedUp, Replaces, env
  <2>9. Forward' /\ ~Handling' /\ pc' \notin Restoring
    BY <2>2 DEF Forward, Handling, Moving, Early, Cleaning, Restoring
  <2>6. CASE cross[tx.cur]
    <3>2. AtSource(tx.cur)' /\ AtTarget(tx.cur)'
      BY <1>2, <1>3, <2>1, <2>2, <2>6, FileKinds, OwnNames
      DEF AtSource, AtTarget, Safe, Holds, Unpublished, env
    <3>3. Sound(tx.cur)' /\ MovingOK(tx.cur)'
      BY <1>2, <1>3, <2>1, <2>2, <2>4, <2>5, <2>6, <3>2
      DEF Sound, MovingOK, Early, Moving, Flags, Unpublished, BackedUp, Replaces, env
    <3> QED BY <1>1, <1>2, <1>3, <2>2, <2>3, <2>9, <3>3, AtHand, BusyStep
  <2>7. CASE ~cross[tx.cur]
    <3>1. AtTarget(tx.cur)' /\ fs'[Source(tx.cur)] # Src(tx.cur)
      BY <1>2, <1>3, <2>1, <2>2, <2>7, FileKinds
      DEF AtSource, AtTarget, Safe, Holds, Unpublished, env
    <3>2. Placed(tx.cur)'
      BY <1>2, <2>2, <2>4, <2>7, <3>1 DEF Placed
    <3>3. Sound(tx.cur)' /\ MovingOK(tx.cur)'
      BY <1>2, <1>3, <2>1, <2>2, <2>4, <2>5, <2>7, <3>1, <3>2
      DEF Sound, MovingOK, Early, Moving, Flags, Unpublished, BackedUp, Replaces, env
    <3> QED BY <1>1, <1>2, <1>3, <2>2, <2>3, <2>9, <3>3, AtHand, BusyStep
  <2> QED BY <2>6, <2>7
<1>5. CASE Goto("clean", tx) /\ UNCHANGED fs
  BY <1>1, <1>2, <1>3, <1>5, Aborts DEF Publish, Goto
<1> QED BY <1>4, <1>5 DEF Publish, Call

LEMMA VerifyKeeps == IInv /\ Verify => IInv'
<1> SUFFICES ASSUME IInv, Verify PROVE IInv'
  OBVIOUS
<1>1. TypeOK'
  BY TypeStep DEF IInv, Next, Transaction, MoveOne
<1>2. Forward /\ tx.cur \in Plans /\ MovingOK(tx.cur)
  BY AtHand DEF Verify, Early, Forward, Moving
<1>3. UNCHANGED <<step, env, fs>> /\ dbFaults' = dbFaults /\ tx' = tx
  BY DEF Verify, Call, Goto
<1>4. CASE pc' = IF cross[tx.cur] THEN "retire" ELSE "finish"
  <2>1. Still(tx.cur)
    BY <1>2, <1>3, NothingMoves
  <2>2. BackedUp(tx.cur) /\ (tx.backup <=> Replaces(tx.cur)) /\ ~tx.reported
    BY <1>2 DEF MovingOK, Verify, Moving, Early
  <2>3. BackedUp(tx.cur)' /\ (tx'.backup <=> Replaces(tx.cur)')
    BY <1>2, <1>3, <2>1, <2>2, StillFrame
  <2>4. CASE cross[tx.cur]
    <3>1. /\ AtSource(tx.cur) /\ AtTarget(tx.cur) /\ NothingAside(tx.cur) /\ fs[Partial(tx.cur)] = Empty
          /\ tx.cur \notin tx.moved /\ Known(tx.cur) /\ Flags(FALSE, TRUE)
      BY <1>2, <2>4 DEF MovingOK, Verify
    <3>2. AtSource(tx.cur)' /\ AtTarget(tx.cur)' /\ NothingAside(tx.cur)' /\ Known(tx.cur)'
      BY <1>2, <1>3, <2>1, <3>1, StillFrame
    <3> QED BY <1>3, <1>4, <2>2, <2>3, <2>4, <3>1, <3>2, <1>1, <1>2, AtHand, MovesOn
            DEF MovingOK, Moving, Early, Flags, Forward, env
  <2>5. CASE ~cross[tx.cur]
    <3>1. Placed(tx.cur) /\ Flags(FALSE, FALSE)
      BY <1>2, <2>5 DEF MovingOK, Verify
    <3>2. Placed(tx.cur)'
      BY <1>2, <1>3, <2>1, <3>1, StillFrame
    <3> QED BY <1>3, <1>4, <2>2, <2>3, <2>5, <3>1, <3>2, <1>1, <1>2, AtHand, MovesOn
            DEF MovingOK, Moving, Early, Flags, Forward, env
  <2> QED BY <2>4, <2>5
<1>5. CASE pc' = "clean"
  BY <1>1, <1>2, <1>3, <1>5, Aborts DEF Verify
<1> QED BY <1>4, <1>5 DEF Verify, Goto

LEMMA RetireKeeps == IInv /\ Retire => IInv'
<1> SUFFICES ASSUME IInv, Retire PROVE IInv'
  OBVIOUS
<1>1. TypeOK'
  BY TypeStep DEF IInv, Next, Transaction, MoveOne
<1>2. /\ Forward /\ tx.cur \in Plans /\ cross[tx.cur]
      /\ AtSource(tx.cur) /\ AtTarget(tx.cur) /\ NothingAside(tx.cur) /\ fs[Partial(tx.cur)] = Empty
      /\ tx.cur \notin tx.moved /\ Known(tx.cur) /\ Flags(FALSE, TRUE) /\ ~tx.reported
      /\ BackedUp(tx.cur) /\ (tx.backup <=> Replaces(tx.cur)) /\ Sound(tx.cur)
  BY AtHand DEF MovingOK, Retire, Early, Forward, Moving
<1>3. UNCHANGED <<step, env>> /\ dbFaults' = dbFaults
  BY DEF Retire, Call
<1>4. CASE Rename(Source(tx.cur), Retired(tx.cur)) /\ Goto("unlink_retired", tx)
  <2>1. /\ fs'[Source(tx.cur)] = Empty /\ fs'[Retired(tx.cur)] = fs[Source(tx.cur)]
        /\ \A n \in Names \ NamesOf(tx.cur) : fs'[n] = fs[n]
        /\ fs'[Backup(tx.cur)] = fs[Backup(tx.cur)] /\ fs'[Target(tx.cur)] = fs[Target(tx.cur)]
        /\ fs'[Undo(tx.cur)] = fs[Undo(tx.cur)] /\ fs'[Partial(tx.cur)] = fs[Partial(tx.cur)]
    BY <1>2, <1>4, AtHand, OwnNames, RenameWithin DEF FilesOK, NamesOf
  <2>2. pc' = "unlink_retired" /\ tx' = tx
    BY <1>4 DEF Goto
  <2>3. Within(tx.cur)
    BY <1>2, <1>3, <2>1, <2>2 DEF Within
  <2>4. Known(tx.cur)' /\ AtRetired(tx.cur)' /\ AtTarget(tx.cur)' /\ fs'[Source(tx.cur)] # Src(tx.cur)
    BY <1>2, <1>3, <2>1, <2>2, FileKinds DEF Known, AtSource, AtRetired, AtTarget, Safe, Holds, env
  <2>5. BackedUp(tx.cur)' /\ (tx'.backup <=> Replaces(tx.cur)')
    BY <1>2, <1>3, <2>1, <2>2 DEF BackedUp, Replaces, env
  <2>6. Sound(tx.cur)' /\ MovingOK(tx.cur)'
    BY <1>2, <1>3, <2>1, <2>2, <2>4, <2>5
    DEF Sound, MovingOK, Early, Moving, Flags, NothingAside, BackedUp, Replaces, env
  <2>7. Forward' /\ ~Handling' /\ pc' \notin Restoring
    BY <2>2 DEF Forward, Handling, Moving, Early, Cleaning, Restoring
  <2> QED BY <1>1, <1>2, <1>3, <2>2, <2>3, <2>6, <2>7, AtHand, BusyStep
<1>5. CASE Goto("clean", tx) /\ UNCHANGED fs
  BY <1>1, <1>2, <1>3, <1>5, Aborts DEF Retire, Goto
<1> QED BY <1>4, <1>5 DEF Retire

LEMMA UnlinkRetiredKeeps == IInv /\ UnlinkRetired => IInv'
<1> SUFFICES ASSUME IInv, UnlinkRetired PROVE IInv'
  OBVIOUS
<1>1. TypeOK'
  BY TypeStep DEF IInv, Next, Transaction, MoveOne
<1>2. /\ Forward /\ tx.cur \in Plans /\ cross[tx.cur]
      /\ AtRetired(tx.cur) /\ AtTarget(tx.cur) /\ fs[Source(tx.cur)] # Src(tx.cur)
      /\ fs[Undo(tx.cur)] = Empty /\ fs[Partial(tx.cur)] = Empty
      /\ tx.cur \notin tx.moved /\ Known(tx.cur) /\ Flags(FALSE, TRUE) /\ ~tx.reported
      /\ BackedUp(tx.cur) /\ (tx.backup <=> Replaces(tx.cur)) /\ Sound(tx.cur)
  BY AtHand DEF MovingOK, UnlinkRetired, Early, Forward, Moving
<1>3. UNCHANGED <<step, env>> /\ dbFaults' = dbFaults
  BY DEF UnlinkRetired, Call
<1>4. CASE Remove(Retired(tx.cur)) /\ Goto("finish", [tx EXCEPT !.moved = @ \cup {tx.cur}])
  <2>1. /\ fs'[Retired(tx.cur)] = Empty /\ fs'[Source(tx.cur)] = fs[Source(tx.cur)]
        /\ \A n \in Names \ NamesOf(tx.cur) : fs'[n] = fs[n]
        /\ fs'[Backup(tx.cur)] = fs[Backup(tx.cur)] /\ fs'[Target(tx.cur)] = fs[Target(tx.cur)]
        /\ fs'[Undo(tx.cur)] = fs[Undo(tx.cur)] /\ fs'[Partial(tx.cur)] = fs[Partial(tx.cur)]
    BY <1>2, <1>4, AtHand, OwnNames, RemoveWithin DEF FilesOK, NamesOf
  <2>2. /\ pc' = "finish" /\ tx'.records = tx.records /\ tx'.cur = tx.cur /\ tx'.pub = tx.pub
        /\ tx'.moved = tx.moved \cup {tx.cur}
        /\ tx'.partial = tx.partial /\ tx'.created = tx.created /\ tx'.backup = tx.backup
        /\ tx'.reported = tx.reported
    BY <1>2, <1>4, AtHand DEF Goto, TxType
  <2>3. Within(tx.cur)
    BY <1>2, <1>3, <2>1, <2>2 DEF Within
  <2>4. Placed(tx.cur)'
    BY <1>2, <1>3, <2>1, <2>2 DEF Placed, Known, AtTarget, Safe, Holds, NothingAside, env
  <2>5. BackedUp(tx.cur)' /\ (tx'.backup <=> Replaces(tx.cur)')
    BY <1>2, <1>3, <2>1, <2>2 DEF BackedUp, Replaces, env
  <2>6. Sound(tx.cur)' /\ MovingOK(tx.cur)'
    BY <1>2, <1>3, <2>1, <2>2, <2>4, <2>5
    DEF Sound, MovingOK, Early, Moving, Flags, Placed, BackedUp, Replaces, env
  <2>7. Forward' /\ ~Handling' /\ pc' \notin Restoring
    BY <2>2 DEF Forward, Handling, Moving, Early, Cleaning, Restoring
  <2> QED BY <1>1, <1>2, <1>3, <2>2, <2>3, <2>6, <2>7, AtHand, BusyStep
<1>5. CASE Goto("unretire", tx) /\ UNCHANGED fs
  <2>1. pc' = "unretire" /\ tx' = tx /\ Still(tx.cur)
    BY <1>2, <1>3, <1>5, NothingMoves DEF Goto
  <2>2. /\ AtRetired(tx.cur)' /\ AtTarget(tx.cur)' /\ Known(tx.cur)' /\ BackedUp(tx.cur)'
        /\ (tx'.backup <=> Replaces(tx.cur)')
    BY <1>2, <2>1, StillFrame
  <2>3. MovingOK(tx.cur)'
    BY <1>2, <1>3, <1>5, <2>1, <2>2 DEF MovingOK, Moving, Early, Flags, env
  <2> QED BY <1>1, <1>2, <1>3, <1>5, <2>1, <2>3, AtHand, MovesOn DEF Forward, Moving, Early
<1> QED BY <1>4, <1>5 DEF UnlinkRetired

LEMMA UnretireKeeps == IInv /\ Unretire => IInv'
<1> SUFFICES ASSUME IInv, Unretire PROVE IInv'
  OBVIOUS
<1>1. TypeOK'
  BY TypeStep DEF IInv, Next, Transaction, MoveOne
<1>2. /\ Forward /\ tx.cur \in Plans /\ cross[tx.cur]
      /\ AtRetired(tx.cur) /\ AtTarget(tx.cur)
      /\ fs[Undo(tx.cur)] = Empty /\ fs[Partial(tx.cur)] = Empty
      /\ tx.cur \notin tx.moved /\ Flags(FALSE, TRUE) /\ ~tx.reported
      /\ BackedUp(tx.cur) /\ (tx.backup <=> Replaces(tx.cur)) /\ Sound(tx.cur)
  BY AtHand DEF MovingOK, Unretire, Early, Forward, Moving
<1>3. UNCHANGED <<step, env>> /\ dbFaults' = dbFaults
  BY DEF Unretire, Call
<1>6. pc' = "clean" => Handling' /\ ~Forward' /\ pc' \notin Restoring
  BY DEF Forward, Handling, Moving, Early, Cleaning, Restoring
<1>4. CASE Rename(Retired(tx.cur), Source(tx.cur)) /\ Goto("clean", tx)
  <2>1. /\ fs'[Retired(tx.cur)] = Empty /\ fs'[Source(tx.cur)] = fs[Retired(tx.cur)]
        /\ \A n \in Names \ NamesOf(tx.cur) : fs'[n] = fs[n]
        /\ fs'[Backup(tx.cur)] = fs[Backup(tx.cur)] /\ fs'[Target(tx.cur)] = fs[Target(tx.cur)]
        /\ fs'[Undo(tx.cur)] = fs[Undo(tx.cur)] /\ fs'[Partial(tx.cur)] = fs[Partial(tx.cur)]
    BY <1>2, <1>4, AtHand, OwnNames, RenameWithin DEF FilesOK, NamesOf
  <2>2. pc' = "clean" /\ tx' = tx
    BY <1>4 DEF Goto
  <2>3. Within(tx.cur)
    BY <1>2, <1>3, <2>1, <2>2 DEF Within
  <2>4. AtSource(tx.cur)' /\ NothingAside(tx.cur)' /\ BackedUp(tx.cur)' /\ (tx'.backup <=> Replaces(tx.cur)')
    BY <1>2, <1>3, <2>1, <2>2
    DEF AtSource, AtRetired, Safe, Holds, NothingAside, BackedUp, Replaces, env
  <2>5. Sound(tx.cur)' /\ HandlingOK(tx.cur)'
    BY <1>2, <1>3, <2>1, <2>2, <2>4
    DEF Sound, HandlingOK, Flags, Cleaning, NothingAside, BackedUp, Replaces, env
  <2> QED BY <1>1, <1>2, <1>3, <1>6, <2>2, <2>3, <2>5, AtHand, BusyStep
<1>5. CASE Goto("clean", Reported(tx)) /\ UNCHANGED fs
  <2>1. /\ pc' = "clean" /\ tx'.records = tx.records /\ tx'.cur = tx.cur /\ tx'.pub = tx.pub
        /\ tx'.moved = tx.moved /\ tx'.partial = tx.partial /\ tx'.created = tx.created
        /\ tx'.backup = tx.backup /\ tx'.reported
    BY <1>2, <1>5, AtHand DEF Goto, Reported, TxType
  <2>2. Still(tx.cur) /\ Within(tx.cur)
    BY <1>2, <1>3, <1>5, <2>1, NothingMoves DEF Within
  <2>3. /\ AtRetired(tx.cur)' /\ BackedUp(tx.cur)' /\ (tx'.backup <=> Replaces(tx.cur)')
        /\ Sound(tx.cur)'
    BY <1>2, <2>1, <2>2, StillFrame, Phases
  <2>4. HandlingOK(tx.cur)'
    BY <1>2, <1>3, <1>5, <2>1, <2>3 DEF HandlingOK, Flags, Cleaning, Blamed, BackedUp, env
  <2> QED BY <1>1, <1>2, <1>3, <1>6, <2>1, <2>2, <2>3, <2>4, AtHand, BusyStep
<1> QED BY <1>4, <1>5 DEF Unretire

\* The plan is completed, and is not the last one: the next one becomes the plan at hand.
LEMMA FinishKeeps == IInv /\ Finish => IInv'
<1> SUFFICES ASSUME IInv, Finish PROVE IInv'
  OBVIOUS
<1>1. TypeOK'
  BY TypeStep DEF IInv, Next, Transaction, MoveOne
<1>2. /\ Forward /\ tx.cur \in Plans /\ Placed(tx.cur) /\ BackedUp(tx.cur)
      /\ ~tx.partial /\ ~tx.reported /\ Sound(tx.cur)
  BY AtHand DEF MovingOK, Finish, Early, Forward, Moving
<1>3. UNCHANGED <<fs, env>> /\ (dbFaults # 0 => dbFaults' # 0)
  BY DbCallCounts, TypeParts DEF Finish, IInv, CountsOK
<1>4. CASE /\ step' = [step EXCEPT ![tx.cur] = "completed"]
           /\ IsLast(tx.cur) /\ Goto("commit", [tx EXCEPT !.todo = tx.records])
  <2>1. /\ pc' = "commit" /\ tx'.records = tx.records /\ tx'.pub = tx.pub
        /\ tx'.moved = tx.moved /\ tx'.todo = tx.records
    BY <1>2, <1>4, AtHand DEF Goto, TxType
  <2>2. /\ Committed' /\ ~Forward' /\ ~Handling' /\ ~InRollback' /\ ~AtJob' /\ ~AtRest'
        /\ pc' \notin Restoring
    BY <2>1 DEF Forward, Handling, Moving, Early, Cleaning, Restoring, InRollback, AtJob, Undoing,
                AtRest, Committed
  <2>3. ASSUME NEW i \in Plans PROVE PlanOK(i)'
    <3>1. i <= tx.cur
      BY <1>4, LocalMoveAssumption DEF IsLast, Plans
    <3>2. Placed(i) /\ BackedUp(i) /\ PlanOK(i)
      BY <1>2, <3>1 DEF IInv, PlanOK, Plans
    <3>3. Still(i)
      BY <1>3, <2>1, NothingMoves
    <3>4. Placed(i)' /\ BackedUp(i)' /\ Sound(i)' /\ fs'[Backup(i)] = fs[Backup(i)]
      BY <2>2, <3>2, <3>3, StillFrame DEF PlanOK
    <3>5. step'[i] # "rolled_back"
      BY <1>2, <1>4, <3>2 DEF IInv, TypeOK, PlanOK
    <3>6. i \in tx'.records => fs'[Backup(i)] # Empty
      BY <2>1, <3>2, <3>4, FileKinds DEF BackedUp, PlanOK, Sound
    <3> QED BY <2>2, <3>4, <3>5, <3>6 DEF PlanOK
  <2> QED BY <1>1, <2>1, <2>2, <2>3 DEF IInv
<1>5. CASE /\ step' = [step EXCEPT ![tx.cur] = "completed"]
           /\ ~IsLast(tx.cur)
           /\ Goto("preflight", [tx EXCEPT !.cur = tx.cur + 1, !.created = FALSE, !.backup = FALSE])
  <2>1. /\ pc' = "preflight" /\ tx'.records = tx.records /\ tx'.pub = tx.pub
        /\ tx'.moved = tx.moved /\ tx'.cur = tx.cur + 1
        /\ ~tx'.created /\ ~tx'.backup /\ tx'.partial = tx.partial /\ tx'.reported = tx.reported
    BY <1>2, <1>5, AtHand DEF Goto, TxType
  <2>2. /\ Forward' /\ ~Handling' /\ ~InRollback' /\ ~AtJob' /\ ~AtRest' /\ ~Committed'
        /\ pc' \notin Restoring
    BY <2>1 DEF Forward, Handling, Moving, Early, Cleaning, Restoring, InRollback, AtJob, Undoing,
                AtRest, Committed
  <2>3. ASSUME NEW i \in Plans
        PROVE  /\ PlanOK(i)'
               /\ i = tx.cur + 1 => Untouched(i)'
    <3>1. PlanOK(i) /\ Still(i)
      BY <1>3, <2>1, NothingMoves DEF IInv
    <3>2. i <= tx.cur => Placed(i) /\ BackedUp(i)
      BY <1>2, <3>1 DEF PlanOK, Plans
    <3>3. i > tx.cur => Untouched(i) /\ step[i] # "completed"
      BY <1>2, <3>1 DEF PlanOK, Plans
    <3>4. /\ i <= tx.cur => Placed(i)' /\ BackedUp(i)'
          /\ i > tx.cur => Untouched(i)'
          /\ Sound(i)'
      BY <1>2, <3>1, <3>2, <3>3, StillFrame, Phases DEF PlanOK
    <3>5. step'[i] # "rolled_back" /\ (step'[i] = "completed" => i <= tx.cur)
      BY <1>2, <1>5, <3>1, <3>3 DEF IInv, TypeOK, PlanOK, Plans
    <3> QED BY <1>2, <2>1, <2>2, <3>4, <3>5 DEF PlanOK, Plans
  <2>4. MovingOK(tx.cur)'
    <3>1. tx'.cur \in Plans
      BY <1>1 DEF TypeOK
    <3>2. Untouched(tx.cur)'
      BY <2>1, <2>3, <3>1
    <3> QED BY <1>2, <2>1, <3>2 DEF MovingOK, Early, Moving, Flags
  <2> QED BY <1>1, <2>2, <2>1, <2>3, <2>4 DEF IInv
<1>6. CASE Goto("clean", tx) /\ UNCHANGED step
  BY <1>1, <1>2, <1>3, <1>6, Aborts DEF Finish, Goto
<1> QED BY <1>4, <1>5, <1>6 DEF Finish

-----------------------------------------------------------------------------
(* The steps of a plan whose move is being given up.                       *)

\* The old version's turn, or the record's.
LEMMA OwnTurn ==
    ASSUME IInv, TypeOK', Handling, pc \in {"drop_check", "drop"}, UNCHANGED <<step, env>>,
           dbFaults' = dbFaults, NEW t, t = tx \/ t = Reported(tx), RestoreOwn(t),
           UNCHANGED fs \/ (pc = "drop" /\ Remove(Target(tx.cur)))
    PROVE  IInv'
<1>1. /\ tx.cur \in Plans /\ tx \in TxType /\ FilesOK /\ HandlingOK(tx.cur) /\ Sound(tx.cur)
      /\ step[tx.cur] \notin {"rolled_back", "completed"}
  BY AtHand
<1>2. /\ tx'.cur = tx.cur /\ tx'.moved = tx.moved /\ tx'.records = tx.records /\ tx'.pub = tx.pub
      /\ tx'.partial = tx.partial /\ tx'.created = tx.created /\ tx'.backup = tx.backup
      /\ tx.reported => tx'.reported
      /\ IF tx.cur \notin tx.moved /\ tx.backup
         THEN pc' = "restore" /\ tx'.job = tx.cur /\ tx'.ret = "clean"
         ELSE pc' = "record_failure"
  <2>1. /\ t \in TxType /\ t.cur = tx.cur /\ t.moved = tx.moved /\ t.records = tx.records
        /\ t.pub = tx.pub /\ t.partial = tx.partial /\ t.created = tx.created /\ t.backup = tx.backup
        /\ tx.reported => t.reported
    BY <1>1 DEF Reported, TxType
  <2>2. CASE tx.cur \notin tx.moved /\ tx.backup
    <3>1. Goto("restore", [t EXCEPT !.job = t.cur, !.ret = "clean"])
      BY <2>1, <2>2 DEF RestoreOwn
    <3> QED BY <2>1, <2>2, <3>1 DEF Goto, TxType
  <2>3. CASE ~(tx.cur \notin tx.moved /\ tx.backup)
    <3>1. Goto("record_failure", t)
      BY <2>1, <2>3 DEF RestoreOwn
    <3> QED BY <2>1, <2>3, <3>1 DEF Goto
  <2> QED BY <2>2, <2>3
<1>3. /\ \A n \in Names \ NamesOf(tx.cur) : fs'[n] = fs[n]
      /\ fs'[Source(tx.cur)] = fs[Source(tx.cur)] /\ fs'[Backup(tx.cur)] = fs[Backup(tx.cur)]
      /\ fs'[Retired(tx.cur)] = fs[Retired(tx.cur)] /\ fs'[Undo(tx.cur)] = fs[Undo(tx.cur)]
  BY <1>1, OwnNames, RemoveWithin DEF FilesOK, NamesOf
<1>4. Within(tx.cur)
  BY <1>1, <1>2, <1>3 DEF Within
<1>5. Handling' /\ ~Forward'
  BY <1>2 DEF Forward, Handling, Moving, Early, Cleaning, Restoring
<1>6. BackedUp(tx.cur)' <=> BackedUp(tx.cur)
  BY <1>2, <1>3 DEF BackedUp, Replaces, env
<1>7. CASE tx.cur \in tx.moved
  <2>1. UNCHANGED fs /\ Still(tx.cur)
    BY <1>1, <1>2, <1>7, NothingMoves DEF HandlingOK
  <2>2. Sound(tx.cur)' /\ Placed(tx.cur)' /\ Replaces(tx.cur)' = Replaces(tx.cur)
    BY <1>1, <1>2, <1>7, <2>1, StillFrame, Phases DEF HandlingOK
  <2>3. HandlingOK(tx.cur)'
    BY <1>1, <1>2, <1>6, <1>7, <2>2 DEF HandlingOK, env
  <2> QED BY <1>1, <1>2, <1>4, <1>5, <1>7, <2>2, <2>3, BusyStep DEF Restoring
<1>8. CASE tx.cur \notin tx.moved
  <2>1. /\ AtSource(tx.cur) => AtSource(tx.cur)'
        /\ AtRetired(tx.cur) => AtRetired(tx.cur)'
        /\ Replaces(tx.cur)' = Replaces(tx.cur)
    BY <1>2, <1>3 DEF AtSource, AtRetired, Safe, Holds, Replaces, env
  <2>2. Replaces(tx.cur) => AtOld(tx.cur)' \/ fs'[Backup(tx.cur)] = Prev(tx.cur)
    <3>1. CASE UNCHANGED fs
      <4>1. Still(tx.cur)
        BY <1>1, <1>2, <3>1, NothingMoves
      <4> QED BY <1>1, <1>2, <1>3, <4>1, StillFrame, Phases DEF Sound
    <3>2. CASE pc = "drop"
      BY <1>1, <1>3, <1>8, <3>2 DEF HandlingOK, BackedUp, Cleaning
    <3> QED BY <3>1, <3>2
  <2>3. ~Blamed' /\ Replaces(tx.cur) /\ tx.cur \notin tx.records => AtOld(tx.cur)'
    BY <1>1, <1>3, <1>8, <2>2, FileKinds DEF Sound
  <2>4. Sound(tx.cur)'
    BY <1>1, <1>2, <1>3, <1>8, <2>1, <2>2 DEF Sound, HandlingOK
  <2>5. HandlingOK(tx.cur)'
    BY <1>1, <1>2, <1>3, <1>8, <2>1, <2>3 DEF HandlingOK, Cleaning, env
  <2>6. pc' \in Restoring => RestoringOK(tx.cur)'
    BY <1>1, <1>2, <1>8 DEF Restoring, RestoringOK, HandlingOK, BackedUp, Cleaning
  <2> QED BY <1>1, <1>2, <1>4, <1>5, <1>8, <2>4, <2>5, <2>6, BusyStep DEF Restoring
<1> QED BY <1>7, <1>8

LEMMA CleanPartialKeeps == IInv /\ CleanPartial => IInv'
<1> SUFFICES ASSUME IInv, CleanPartial PROVE IInv'
  OBVIOUS
<1>1. TypeOK'
  BY TypeStep DEF IInv, Next, Transaction, Handle
<1>2. /\ Handling /\ tx.cur \in Plans /\ HandlingOK(tx.cur) /\ Sound(tx.cur)
  BY AtHand DEF CleanPartial, Handling, Cleaning
<1>3. UNCHANGED <<step, env>> /\ dbFaults' = dbFaults
  BY DEF CleanPartial, Call
<1>4. pc' = "drop_check" /\ (tx' = tx \/ tx' = Reported(tx))
  BY DEF CleanPartial, Goto
<1>5. /\ tx'.cur = tx.cur /\ tx'.moved = tx.moved /\ tx'.records = tx.records /\ tx'.pub = tx.pub
      /\ tx'.partial = tx.partial /\ tx'.created = tx.created /\ tx'.backup = tx.backup
      /\ tx.reported => tx'.reported
  BY <1>4, <1>2, AtHand DEF Reported, TxType
<1>6. Handling' /\ ~Forward' /\ pc' \notin Restoring
  BY <1>4 DEF Forward, Handling, Moving, Early, Cleaning, Restoring
<1>7. CASE UNCHANGED fs
  <2>1. Still(tx.cur) /\ Within(tx.cur)
    BY <1>2, <1>3, <1>5, <1>7, NothingMoves DEF Within
  <2>2. /\ Sound(tx.cur)' /\ BackedUp(tx.cur)' = BackedUp(tx.cur) /\ Placed(tx.cur)' = Placed(tx.cur)
        /\ AtSource(tx.cur)' = AtSource(tx.cur) /\ AtRetired(tx.cur)' = AtRetired(tx.cur)
        /\ AtOld(tx.cur)' = AtOld(tx.cur) /\ Replaces(tx.cur)' = Replaces(tx.cur)
    BY <1>2, <1>5, <2>1, StillFrame, Phases
  <2>3. HandlingOK(tx.cur)'
    BY <1>2, <1>3, <1>4, <1>5, <1>7, <2>2 DEF HandlingOK, Cleaning, CleanPartial, Blamed, env
  <2> QED BY <1>1, <1>2, <1>3, <1>5, <1>6, <2>1, <2>2, <2>3, AtHand, BusyStep
<1>8. CASE tx.partial /\ Remove(Partial(tx.cur))
  <2>1. /\ tx.cur \notin tx.moved
        /\ \A n \in Names \ NamesOf(tx.cur) : fs'[n] = fs[n]
        /\ fs'[Source(tx.cur)] = fs[Source(tx.cur)] /\ fs'[Backup(tx.cur)] = fs[Backup(tx.cur)]
        /\ fs'[Retired(tx.cur)] = fs[Retired(tx.cur)] /\ fs'[Undo(tx.cur)] = fs[Undo(tx.cur)]
        /\ fs'[Old(tx.cur)] = fs[Old(tx.cur)]
    BY <1>2, <1>8, AtHand, OwnNames, RemoveWithin DEF FilesOK, NamesOf, HandlingOK
  <2>2. Within(tx.cur)
    BY <1>2, <1>3, <1>5, <2>1 DEF Within
  <2>3. /\ BackedUp(tx.cur)' = BackedUp(tx.cur)
        /\ AtSource(tx.cur)' = AtSource(tx.cur) /\ AtRetired(tx.cur)' = AtRetired(tx.cur)
        /\ AtOld(tx.cur)' = AtOld(tx.cur) /\ Replaces(tx.cur)' = Replaces(tx.cur)
    BY <1>3, <1>5, <2>1
    DEF BackedUp, AtSource, AtRetired, AtOld, Old, Target, Safe, Holds, Replaces, env
  <2>4. Sound(tx.cur)'
    BY <1>2, <1>5, <2>1, <2>3, Phases DEF Sound, HandlingOK
  <2>5. HandlingOK(tx.cur)'
    BY <1>2, <1>3, <1>4, <1>5, <2>1, <2>3 DEF HandlingOK, Cleaning, CleanPartial, Blamed, env
  <2> QED BY <1>1, <1>2, <1>3, <1>5, <1>6, <2>2, <2>4, <2>5, AtHand, BusyStep
<1> QED BY <1>7, <1>8 DEF CleanPartial

LEMMA DropCheckKeeps == IInv /\ DropCheck => IInv'
<1> SUFFICES ASSUME IInv, DropCheck PROVE IInv'
  OBVIOUS
<1>1. TypeOK'
  BY TypeStep DEF IInv, Next, Transaction, Handle
<1>2. /\ Handling /\ tx.cur \in Plans /\ HandlingOK(tx.cur) /\ Sound(tx.cur) /\ pc = "drop_check"
  BY AtHand DEF DropCheck, Handling, Cleaning
<1>3. UNCHANGED <<fs, step, env>> /\ dbFaults' = dbFaults
  BY DEF DropCheck, Call
<1>4. CASE tx.created /\ tx.cur \notin tx.moved /\ ~tx.reported /\ Goto("drop", tx)
  <2>1. pc' = "drop" /\ tx' = tx /\ Still(tx.cur) /\ Within(tx.cur)
    BY <1>2, <1>3, <1>4, NothingMoves DEF Goto, Within
  <2>2. /\ Sound(tx.cur)' /\ BackedUp(tx.cur)' = BackedUp(tx.cur)
        /\ AtSource(tx.cur)' = AtSource(tx.cur) /\ AtRetired(tx.cur)' = AtRetired(tx.cur)
        /\ AtOld(tx.cur)' = AtOld(tx.cur) /\ Replaces(tx.cur)' = Replaces(tx.cur)
    BY <1>2, <2>1, StillFrame, Phases
  <2>3. HandlingOK(tx.cur)'
    BY <1>2, <1>3, <1>4, <2>1, <2>2 DEF HandlingOK, Cleaning, Blamed, env
  <2>4. Handling' /\ ~Forward' /\ pc' \notin Restoring
    BY <2>1 DEF Forward, Handling, Moving, Early, Cleaning, Restoring
  <2> QED BY <1>1, <1>2, <1>3, <2>1, <2>2, <2>3, <2>4, AtHand, BusyStep
<1>5. CASE RestoreOwn(tx)
  BY <1>1, <1>2, <1>3, <1>5, OwnTurn
<1>6. CASE RestoreOwn(Reported(tx))
  BY <1>1, <1>2, <1>3, <1>6, OwnTurn
<1> QED BY <1>4, <1>5, <1>6 DEF DropCheck

LEMMA DropKeeps == IInv /\ Drop => IInv'
<1> SUFFICES ASSUME IInv, Drop PROVE IInv'
  OBVIOUS
<1>1. TypeOK'
  BY TypeStep DEF IInv, Next, Transaction, Handle
<1>2. Handling /\ pc = "drop" /\ UNCHANGED <<step, env>> /\ dbFaults' = dbFaults
  BY DEF Drop, Handling, Cleaning, Call
<1>3. CASE Remove(Target(tx.cur)) /\ RestoreOwn(tx)
  BY <1>1, <1>2, <1>3, OwnTurn
<1>4. CASE UNCHANGED fs /\ RestoreOwn(Reported(tx))
  BY <1>1, <1>2, <1>4, OwnTurn
<1> QED BY <1>3, <1>4 DEF Drop

LEMMA RecordFailureKeeps == IInv /\ RecordFailure => IInv'
<1> SUFFICES ASSUME IInv, RecordFailure PROVE IInv'
  OBVIOUS
<1>1. TypeOK'
  BY TypeStep DEF IInv, Next, Transaction, Handle
<1>2. /\ Handling /\ tx.cur \in Plans /\ HandlingOK(tx.cur) /\ Sound(tx.cur) /\ pc = "record_failure"
  BY AtHand DEF RecordFailure, Handling, Cleaning
<1>3. UNCHANGED <<fs, env>> /\ (dbFaults # 0 => dbFaults' # 0)
  BY DbCallCounts, TypeParts DEF RecordFailure, IInv, CountsOK
<1>4. /\ tx'.moved = tx.moved /\ tx'.todo = tx.moved /\ tx'.records = tx.records
      /\ tx'.cur = tx.cur /\ tx'.pub = tx.pub /\ pc' = "undo_next"
      /\ tx.reported => tx'.reported \/ dbFaults' # 0
  <2>1. \/ tx' = [tx EXCEPT !.todo = tx.moved] /\ pc' = "undo_next"
        \/ /\ tx' = [[tx EXCEPT !.reported = FALSE] EXCEPT !.todo = [tx EXCEPT !.reported = FALSE].moved]
           /\ pc' = "undo_next" /\ dbFaults' # 0
    BY DbCallCounts, TypeParts DEF RecordFailure, IInv, CountsOK, Rollback, Goto
  <2> QED BY <1>2, <2>1, AtHand DEF TxType
<1>5. /\ \A i \in Plans \ {tx.cur} : step'[i] = step[i]
      /\ step'[tx.cur] \notin {"rolled_back", "completed"}
  BY <1>2, AtHand DEF RecordFailure, IInv, TypeOK
<1>6. ASSUME tx.cur \notin tx.moved PROVE Undone(tx.cur)'
  <2>1. Still(tx.cur)
    BY <1>2, <1>3, <1>4, NothingMoves
  <2>2. /\ AtSource(tx.cur)' = AtSource(tx.cur) /\ NothingAside(tx.cur)' = NothingAside(tx.cur)
        /\ AtOld(tx.cur)' = AtOld(tx.cur) /\ Replaces(tx.cur)' = Replaces(tx.cur)
    BY <1>2, <1>4, <2>1, StillFrame
  <2> QED BY <1>2, <1>3, <1>4, <1>5, <1>6, <2>2 DEF Undone, Blamed, HandlingOK, NothingAside
<1>7. tx.cur \in tx.moved => Placed(tx.cur) /\ BackedUp(tx.cur)
  BY <1>2 DEF HandlingOK
<1> QED BY <1>1, <1>2, <1>3, <1>4, <1>5, <1>6, <1>7, RollbackBegins

-----------------------------------------------------------------------------
(* The restoration of an old version, whoever asked for it.                *)

\* What the transaction's variables keep during a restoration.
Kept == /\ tx'.cur = tx.cur /\ tx'.moved = tx.moved /\ tx'.pub = tx.pub /\ tx'.job = tx.job
        /\ tx'.ret = tx.ret /\ tx'.partial = tx.partial /\ tx'.created = tx.created
        /\ tx'.backup = tx.backup

\* It goes on, or it is over and whoever asked takes the result.
GoesOn == pc' \in Restoring /\ tx' = tx
Done(pcs, records, fine) ==
    /\ Kept /\ tx'.records = records
    /\ pc' = CASE tx.ret = "inner" -> "clean"
               [] tx.ret = "clean" -> "record_failure"
               [] tx.ret = "item"  -> pcs
               [] tx.ret = "rest"  -> "rest"
    /\ tx'.todo = IF tx.ret = "rest" THEN tx.todo \ {tx.job} ELSE tx.todo
    /\ tx.reported => tx'.reported
    /\ fine => tx'.reported = tx.reported
    /\ ~fine /\ tx.ret # "inner" => tx'.reported

\* What the invariant says of the backup at hand.
LEMMA BackupAtHand ==
    ASSUME IInv, pc \in Restoring
    PROVE  /\ tx.job \in Plans /\ tx \in TxType /\ FilesOK
           /\ Sound(tx.job) /\ RestoringOK(tx.job) /\ Replaces(tx.job)
           /\ tx.ret \in {"inner", "clean", "item", "rest"} /\ ~Committed
           /\ tx.ret \in {"inner", "clean"} => Handling
           /\ tx.ret = "item" => AtJob
           /\ tx.ret = "rest" => AtRest
<1>1. tx.job \in Plans /\ tx \in TxType /\ FilesOK /\ tx.ret \in {"inner", "clean", "item", "rest"}
  BY TypeParts DEF IInv, TypeOK
<1>2. ~Committed
  BY DEF Restoring, Committed
<1> QED BY <1>1, <1>2 DEF IInv, PlanOK, Sound, RestoringOK, Handling, AtJob, AtRest

LEMMA RestoreEnds ==
    ASSUME NEW t \in TxType, tx \in TxType, t.ret = tx.ret, t.job = tx.job, t.cur = tx.cur,
           t.moved = tx.moved, t.pub = tx.pub, t.partial = tx.partial, t.created = tx.created,
           t.backup = tx.backup, t.todo = tx.todo, t.reported = tx.reported
    PROVE  /\ Restored(t) => Done("record_undone", t.records, TRUE)
           /\ NotRestored(t) => Done("record_undo_failure", t.records, FALSE)
<1>1. tx.ret \in {"inner", "clean", "item", "rest"}
  BY DEF TxType
<1>2. ASSUME Restored(t) PROVE Done("record_undone", t.records, TRUE)
  <2>1. CASE tx.ret = "rest"
    <3>1. Goto("rest", [t EXCEPT !.todo = @ \ {t.job}])
      BY <1>2, <2>1 DEF Restored
    <3> QED BY <2>1, <3>1 DEF Goto, Done, Kept, TxType
  <2>2. CASE tx.ret # "rest"
    <3>1. tx' = t
      BY <1>1, <1>2, <2>2 DEF Restored, Goto
    <3>2. pc' = CASE tx.ret = "inner" -> "clean"
                  [] tx.ret = "clean" -> "record_failure"
                  [] tx.ret = "item"  -> "record_undone"
                  [] tx.ret = "rest"  -> "rest"
      BY <1>1, <1>2, <2>2 DEF Restored, Goto
    <3> QED BY <2>2, <3>1, <3>2 DEF Done, Kept
  <2> QED BY <2>1, <2>2
<1>3. ASSUME NotRestored(t) PROVE Done("record_undo_failure", t.records, FALSE)
  <2>0. /\ Reported(t) = [t EXCEPT !.reported = TRUE]
        /\ Reported(t) \in TxType
    BY DEF Reported, TxType
  <2>1. CASE tx.ret = "rest"
    <3>1. Goto("rest", [Reported(t) EXCEPT !.todo = @ \ {t.job}])
      BY <1>3, <2>1 DEF NotRestored
    <3> QED BY <2>0, <2>1, <3>1 DEF Goto, Done, Kept, TxType
  <2>2. CASE tx.ret # "rest"
    <3>1. tx' = IF tx.ret = "inner" THEN t ELSE Reported(t)
      BY <1>1, <1>3, <2>2 DEF NotRestored, Goto
    <3>2. pc' = CASE tx.ret = "inner" -> "clean"
                  [] tx.ret = "clean" -> "record_failure"
                  [] tx.ret = "item"  -> "record_undo_failure"
                  [] tx.ret = "rest"  -> "rest"
      BY <1>1, <1>3, <2>2 DEF NotRestored, Goto
    <3> QED BY <2>0, <2>2, <3>1, <3>2 DEF Done, Kept, TxType
  <2> QED BY <2>1, <2>2
<1> QED BY <1>2, <1>3

\* Every outcome keeps the invariant.
LEMMA RestoreStep ==
    ASSUME IInv, TypeOK', pc \in Restoring, UNCHANGED <<step, env>>, dbFaults' = dbFaults,
           \A n \in Names \ NamesOf(tx.job) : fs'[n] = fs[n],
           fs'[Source(tx.job)] = fs[Source(tx.job)],
           fs'[Retired(tx.job)] = fs[Retired(tx.job)], fs'[Undo(tx.job)] = fs[Undo(tx.job)],
           Sound(tx.job)',
           \/ GoesOn /\ RestoringOK(tx.job)'
           \/ Done("record_undone", tx.records \ {tx.job}, TRUE) /\ AtOld(tx.job)'
           \/ Done("record_undo_failure", tx.records, FALSE)
    PROVE  IInv'
<1>1. /\ tx.job \in Plans /\ tx \in TxType /\ FilesOK
      /\ Sound(tx.job) /\ RestoringOK(tx.job) /\ Replaces(tx.job)
      /\ tx.ret \in {"inner", "clean", "item", "rest"} /\ ~Committed
      /\ tx.ret \in {"inner", "clean"} => Handling
      /\ tx.ret = "item" => AtJob
      /\ tx.ret = "rest" => AtRest
  BY BackupAtHand
<1>2. Kept /\ tx'.records \in {tx.records, tx.records \ {tx.job}} /\ (tx.reported => tx'.reported)
  BY DEF GoesOn, Done, Kept
<1>3. Within(tx.job)
  BY <1>2 DEF Within, Kept
<1>4. /\ AtSource(tx.job)' = AtSource(tx.job) /\ AtRetired(tx.job)' = AtRetired(tx.job)
      /\ NothingAside(tx.job)' = NothingAside(tx.job) /\ Replaces(tx.job)'
  BY <1>1, <1>2 DEF Kept, AtSource, AtRetired, Safe, Holds, NothingAside, Replaces, env
<1>5. \/ tx.job \in tx'.records
      \/ AtOld(tx.job)'
  BY <1>1 DEF GoesOn, Done, RestoringOK
<1>6. CASE tx.ret \in {"inner", "clean"}
  <2>1. /\ Handling /\ HandlingOK(tx.cur) /\ tx.job = tx.cur /\ tx.cur \notin tx.moved
        /\ tx.ret = "inner" => ~tx.created /\ ~tx.partial /\ ~tx.backup
        /\ step[tx.cur] \notin {"rolled_back", "completed"}
    BY <1>1, <1>6, AtHand DEF IInv
  <2>2. /\ pc' \in Restoring \cup {"clean", "record_failure"}
        /\ pc' = "clean" => tx.ret = "inner"
    BY <1>6 DEF GoesOn, Done, Restoring
  <2>3. Handling' /\ ~Forward'
    BY <1>2, <1>6, <2>2 DEF Kept, Forward, Handling, Moving, Early, Cleaning, Restoring
  <2>4. HandlingOK(tx.cur)'
    BY <1>2, <1>4, <1>5, <2>1, <2>2 DEF HandlingOK, Kept, Cleaning, Restoring, NothingAside, Blamed, env
  <2>5. pc' \in Restoring => RestoringOK(tx.cur)'
    BY <1>2, <1>6, <2>1 DEF GoesOn, Done, Restoring, Kept
  <2> QED BY <1>1, <1>2, <1>3, <2>1, <2>2, <2>3, <2>4, <2>5, BusyStep DEF Kept
<1>7. CASE tx.ret = "item"
  <2>1. AtJob /\ JobOK(tx.job) /\ InRollback /\ tx.job \in tx.todo /\ tx.todo \subseteq tx.moved
    BY <1>1, <1>7, Phases DEF IInv
  <2>2. AtSource(tx.job) /\ NothingAside(tx.job)
    BY <2>1 DEF JobOK
  <2>3. pc' \in Restoring \cup {"record_undone", "record_undo_failure"} /\ tx'.todo = tx.todo
    BY <1>7 DEF GoesOn, Done, Restoring
  <2>4. AtJob'
    BY <1>2, <1>7, <2>3 DEF AtJob, Kept, Undoing
  <2>5. JobOK(tx.job)'
    <3>1. pc' = "record_undone" => tx.job \notin tx'.records /\ AtOld(tx.job)'
      BY <1>7 DEF GoesOn, Done, Restoring
    <3>2. pc' = "record_undo_failure" => tx'.reported
      BY <1>7 DEF GoesOn, Done, Restoring
    <3> QED BY <1>2, <1>4, <2>2, <2>3, <3>1, <3>2 DEF JobOK, Kept, Restoring
  <2>6. pc' \in Restoring => RestoringOK(tx.job)'
    BY <1>7 DEF GoesOn, Done, Restoring
  <2> QED BY <1>1, <1>2, <1>3, <1>4, <2>1, <2>2, <2>3, <2>4, <2>5, <2>6, JobStep DEF Kept
<1>8. CASE tx.ret = "rest"
  <2>1. AtRest /\ Undone(tx.job) /\ tx.job \in tx.todo
    BY <1>1, <1>8 DEF IInv, PlanOK
  <2>2. pc' \in Restoring \cup {"rest"} /\ pc # "failed"
    BY <1>8 DEF GoesOn, Done, Restoring
  <2>3. AtRest'
    BY <1>2, <1>8, <2>2 DEF AtRest, Kept
  <2>4. Undone(tx.job)'
    BY <1>2, <1>4, <1>5, <2>1 DEF Undone, Blamed, Kept
  <2>5. ~Blamed' => tx'.records = tx'.todo
    BY <1>8, <2>1, <2>2 DEF IInv, GoesOn, Done, Blamed, Kept
  <2>6. pc' \in Restoring => tx'.job \in tx'.todo /\ RestoringOK(tx.job)'
    BY <1>8, <2>1 DEF GoesOn, Done, Restoring
  <2>7. tx'.todo \subseteq tx'.records
    BY <1>8, <2>1, <2>2 DEF IInv, GoesOn, Done, Restoring
  <2> QED BY <1>1, <1>2, <1>3, <1>4, <2>1, <2>2, <2>3, <2>4, <2>5, <2>6, <2>7, RestStep
          DEF Kept, Restoring
<1> QED BY <1>1, <1>6, <1>7, <1>8

LEMMA RestoreCheckKeeps == IInv /\ RestoreCheck => IInv'
<1> SUFFICES ASSUME IInv, RestoreCheck PROVE IInv'
  OBVIOUS
<1>1. TypeOK'
  BY TypeStep DEF IInv, Next, Transaction, RestoreBackup
<1>2. pc \in Restoring /\ UNCHANGED <<fs, step, env>> /\ dbFaults' = dbFaults
  BY DEF RestoreCheck, Restoring, Call
<1>3. tx.job \in Plans /\ tx \in TxType /\ Sound(tx.job) /\ RestoringOK(tx.job)
  BY <1>2, BackupAtHand
<1>4. CASE /\ fs[Backup(tx.job)] = Prev(tx.job) /\ fs[Old(tx.job)] = Empty
           /\ Goto("restore_rename", tx)
  <2>1. GoesOn /\ pc' = "restore_rename"
    BY <1>4 DEF GoesOn, Goto, Restoring
  <2>2. RestoringOK(tx.job)'
    BY <1>2, <1>3, <1>4, <2>1, FileKinds DEF RestoringOK, GoesOn, Holds, Old, Target, env
  <2>3. Sound(tx.job)'
    BY <1>2, <1>3, <2>1, BackupAtHand, NothingMoves, StillFrame DEF GoesOn
  <2> QED BY <1>1, <1>2, <2>1, <2>2, <2>3, RestoreStep
<1>5. CASE NotRestored(tx)
  <2>1. Done("record_undo_failure", tx.records, FALSE)
    BY <1>3, <1>5, RestoreEnds
  <2>2. Sound(tx.job)'
    BY <1>2, <1>3, <2>1, BackupAtHand, NothingMoves, StillFrame DEF Done, Kept
  <2> QED BY <1>1, <1>2, <2>1, <2>2, RestoreStep
<1> QED BY <1>4, <1>5 DEF RestoreCheck, Call

LEMMA RestoreRenameKeeps == IInv /\ RestoreRename => IInv'
<1> SUFFICES ASSUME IInv, RestoreRename PROVE IInv'
  OBVIOUS
<1>1. TypeOK'
  BY TypeStep DEF IInv, Next, Transaction, RestoreBackup
<1>2. pc \in Restoring /\ pc = "restore_rename" /\ UNCHANGED <<step, env>> /\ dbFaults' = dbFaults
  BY DEF RestoreRename, Restoring, Call
<1>3. /\ tx.job \in Plans /\ tx \in TxType /\ FilesOK /\ Sound(tx.job) /\ RestoringOK(tx.job)
      /\ Replaces(tx.job)
  BY <1>2, BackupAtHand
<1>4. CASE Rename(Backup(tx.job), Old(tx.job)) /\ Goto("restore_verify", tx)
  <2>1. GoesOn /\ pc' = "restore_verify"
    BY <1>4 DEF GoesOn, Goto, Restoring
  <2>2. /\ Old(tx.job) \in NamesOf(tx.job) /\ Backup(tx.job) \in NamesOf(tx.job)
        /\ Old(tx.job) \notin {Source(tx.job), Retired(tx.job), Backup(tx.job), Undo(tx.job)}
    BY <1>3, OwnNames DEF NamesOf
  <2>3. /\ fs'[Backup(tx.job)] = Empty /\ fs'[Old(tx.job)] = fs[Backup(tx.job)]
        /\ \A n \in Names \ NamesOf(tx.job) : fs'[n] = fs[n]
        /\ fs'[Source(tx.job)] = fs[Source(tx.job)]
        /\ fs'[Retired(tx.job)] = fs[Retired(tx.job)] /\ fs'[Undo(tx.job)] = fs[Undo(tx.job)]
        /\ Old(tx.job) # Target(tx.job) => fs'[Target(tx.job)] = fs[Target(tx.job)]
    BY <1>3, <1>4, <2>2, OwnNames, RenameWithin DEF FilesOK, NamesOf
  <2>4. RestoringOK(tx.job)'
    BY <1>3, <2>1, <2>3 DEF RestoringOK, GoesOn
  <2>5. AtOld(tx.job)'
    BY <1>2, <1>3, <2>1, <2>3, FileKinds
    DEF RestoringOK, GoesOn, AtOld, Safe, Holds, Old, Target, env
  <2>6. /\ AtSource(tx.job) => AtSource(tx.job)'
        /\ AtRetired(tx.job) => AtRetired(tx.job)'
        /\ AtTarget(tx.job) => AtTarget(tx.job)'
    BY <1>2, <1>3, <2>1, <2>3
    DEF RestoringOK, GoesOn, AtSource, AtRetired, AtTarget, Safe, Holds, env
  <2>7. Sound(tx.job)'
    BY <1>2, <1>3, <2>1, <2>5, <2>6 DEF Sound, GoesOn, RestoringOK, Replaces, env
  <2> QED BY <1>1, <1>2, <2>1, <2>3, <2>4, <2>7, RestoreStep
<1>5. CASE NotRestored(tx) /\ UNCHANGED fs
  <2>1. Done("record_undo_failure", tx.records, FALSE)
    BY <1>3, <1>5, RestoreEnds
  <2>2. Sound(tx.job)'
    BY <1>2, <1>3, <1>5, <2>1, BackupAtHand, NothingMoves, StillFrame DEF Done, Kept
  <2> QED BY <1>1, <1>2, <1>5, <2>1, <2>2, RestoreStep
<1> QED BY <1>4, <1>5 DEF RestoreRename

LEMMA RestoreVerifyKeeps == IInv /\ RestoreVerify => IInv'
<1> SUFFICES ASSUME IInv, RestoreVerify PROVE IInv'
  OBVIOUS
<1>1. TypeOK'
  BY TypeStep DEF IInv, Next, Transaction, RestoreBackup
<1>2. /\ pc \in Restoring /\ pc = "restore_verify" /\ UNCHANGED <<fs, step, env>>
      /\ dbFaults' = dbFaults
  BY DEF RestoreVerify, Restoring, Call
<1>3. /\ tx.job \in Plans /\ tx \in TxType /\ Sound(tx.job) /\ RestoringOK(tx.job)
      /\ Replaces(tx.job)
  BY <1>2, BackupAtHand
<1>4. CASE fs[Old(tx.job)] = Prev(tx.job) /\ Restored([tx EXCEPT !.records = @ \ {tx.job}])
  <2>1. Done("record_undone", tx.records \ {tx.job}, TRUE)
    <3> DEFINE t == [tx EXCEPT !.records = @ \ {tx.job}]
    <3>1. /\ t \in TxType /\ t.records = tx.records \ {tx.job} /\ t.ret = tx.ret /\ t.job = tx.job
          /\ t.cur = tx.cur /\ t.moved = tx.moved /\ t.pub = tx.pub /\ t.partial = tx.partial
          /\ t.created = tx.created /\ t.backup = tx.backup /\ t.todo = tx.todo
          /\ t.reported = tx.reported
      BY <1>3 DEF TxType
    <3> HIDE DEF t
    <3>2. Restored(t)
      BY <1>4 DEF t
    <3>3. Done("record_undone", t.records, TRUE)
      BY <1>3, <3>1, <3>2, RestoreEnds
    <3> QED BY <3>1, <3>3
  <2>2. AtOld(tx.job)'
    BY <1>2, <1>3, <1>4, <2>1, FileKinds DEF AtOld, Safe, Holds, Old, Target, Done, Kept, env
  <2>3. Sound(tx.job)'
    BY <1>2, <1>3, <2>1, <2>2
    DEF Sound, Done, Kept, RestoringOK, AtSource, AtTarget, AtRetired, Safe, Holds, Replaces, env
  <2> QED BY <1>1, <1>2, <2>1, <2>2, <2>3, RestoreStep
<1>5. CASE NotRestored(tx)
  <2>1. Done("record_undo_failure", tx.records, FALSE)
    BY <1>3, <1>5, RestoreEnds
  <2>2. Sound(tx.job)'
    BY <1>2, <1>3, <2>1, BackupAtHand, NothingMoves, StillFrame DEF Done, Kept
  <2> QED BY <1>1, <1>2, <2>1, <2>2, RestoreStep
<1> QED BY <1>4, <1>5 DEF RestoreVerify, Call

-----------------------------------------------------------------------------
(* The entries of the rollback.                                            *)

\* What the invariant says of the entry at hand.
LEMMA EntryAtHand ==
    ASSUME IInv, AtJob
    PROVE  /\ tx.job \in Plans /\ tx \in TxType /\ FilesOK /\ CountsOK
           /\ Sound(tx.job) /\ JobOK(tx.job)
           /\ tx.job \in tx.todo /\ tx.job \in tx.moved /\ tx.todo \subseteq tx.moved
           /\ step[tx.job] # "rolled_back" /\ ~Committed
<1>1. tx.job \in Plans /\ tx \in TxType /\ FilesOK /\ CountsOK
  BY TypeParts DEF IInv, TypeOK
<1>2. InRollback /\ ~Committed
  BY Phases
<1> QED BY <1>1, <1>2 DEF IInv, PlanOK

\* Where _restore_one hands the entry over.
LEMMA HandOver ==
    ASSUME tx \in TxType
    PROVE  /\ SourceBack(tx) =>
                /\ pc' = IF tx.job \in tx.records THEN "restore" ELSE "record_undone"
                /\ tx'.job \in tx.records => tx'.ret = "item"
                /\ tx'.reported = tx.reported
           /\ SourceNotBack(tx) => pc' = "record_undo_failure" /\ tx'.reported
           /\ SourceBack(tx) \/ SourceNotBack(tx) =>
                /\ tx'.job = tx.job /\ tx'.todo = tx.todo /\ tx'.pub = tx.pub
                /\ tx'.moved = tx.moved /\ tx'.records = tx.records
                /\ tx.reported => tx'.reported
BY DEF SourceBack, SourceNotBack, Goto, Reported, TxType

\* Every outcome of a step of _restore_one keeps the invariant.
LEMMA EntryStep ==
    ASSUME IInv, TypeOK', AtJob, UNCHANGED <<step, env>>,
           dbFaults # 0 => dbFaults' # 0,
           \A n \in Names \ NamesOf(tx.job) : fs'[n] = fs[n],
           Sound(tx.job)',
           \/ SourceBack(tx) /\ AtSource(tx.job)' /\ NothingAside(tx.job)' /\ BackedUp(tx.job)'
           \/ SourceNotBack(tx)
           \/ tx' = tx /\ pc' \in Undoing /\ JobOK(tx.job)'
    PROVE  IInv'
<1>1. /\ tx.job \in Plans /\ tx \in TxType /\ tx.job \in tx.moved
      /\ step[tx.job] # "rolled_back"
  BY EntryAtHand
<1>2. /\ tx'.job = tx.job /\ tx'.todo = tx.todo /\ tx'.pub = tx.pub
      /\ tx'.moved = tx.moved /\ tx'.records = tx.records
      /\ tx.reported => tx'.reported
  BY <1>1, HandOver
<1>3. Within(tx.job)
  BY <1>1, <1>2 DEF Within
<1>4. AtJob' /\ JobOK(tx.job)' /\ (pc' \in Restoring => RestoringOK(tx.job)')
  <2>1. CASE SourceBack(tx) /\ AtSource(tx.job)' /\ NothingAside(tx.job)' /\ BackedUp(tx.job)'
    <3>1. /\ pc' = IF tx.job \in tx.records THEN "restore" ELSE "record_undone"
          /\ tx.job \in tx.records => tx'.ret = "item"
      BY <1>1, <1>2, <2>1, HandOver
    <3>2. tx.job \notin tx.records => ~Replaces(tx.job)'
      BY <1>2, <2>1 DEF BackedUp
    <3> QED BY <1>2, <2>1, <3>1, <3>2 DEF AtJob, JobOK, RestoringOK, Restoring, Undoing
  <2>2. CASE SourceNotBack(tx)
    BY <1>1, <2>2, HandOver DEF AtJob, JobOK, Restoring, Undoing
  <2>3. CASE tx' = tx /\ pc' \in Undoing /\ JobOK(tx.job)'
    BY <2>3 DEF AtJob, Restoring, Undoing
  <2> QED BY <2>1, <2>2, <2>3
<1> QED BY <1>1, <1>2, <1>3, <1>4, JobStep

\* A step of _restore_one that leaves the files alone.
LEMMA QuietEntryStep ==
    ASSUME IInv, TypeOK', AtJob, UNCHANGED <<fs, step, env>>,
           dbFaults # 0 => dbFaults' # 0,
           \/ SourceBack(tx) /\ AtSource(tx.job) /\ NothingAside(tx.job) /\ BackedUp(tx.job)
           \/ SourceNotBack(tx)
           \/ tx' = tx /\ pc' \in Undoing /\ JobOK(tx.job)'
    PROVE  IInv'
<1>1. tx.job \in Plans /\ tx \in TxType /\ Sound(tx.job) /\ ~Committed
  BY EntryAtHand
<1>2. tx'.job = tx.job /\ tx'.pub = tx.pub /\ tx'.moved = tx.moved /\ tx'.records = tx.records
  BY <1>1, HandOver
<1>3. Still(tx.job)
  BY <1>1, <1>2, NothingMoves
<1>4. /\ Sound(tx.job)' /\ AtSource(tx.job)' = AtSource(tx.job)
      /\ NothingAside(tx.job)' = NothingAside(tx.job) /\ BackedUp(tx.job)' = BackedUp(tx.job)
  BY <1>1, <1>2, <1>3, StillFrame
<1> QED BY <1>4, EntryStep

LEMMA UndoCheckKeeps == IInv /\ UndoCheck => IInv'
<1> SUFFICES ASSUME IInv, UndoCheck PROVE IInv'
  OBVIOUS
<1>1. TypeOK'
  BY TypeStep DEF IInv, Next, Transaction, RollBack
<1>2. pc = "undo" /\ AtJob /\ UNCHANGED <<fs, step, env>> /\ dbFaults' = dbFaults
  BY DEF UndoCheck, AtJob, Undoing, Call
<1>3. tx.job \in Plans /\ Placed(tx.job) /\ BackedUp(tx.job)
  BY <1>2, EntryAtHand DEF JobOK
<1>4. CASE SourceNotBack(tx)
  BY <1>1, <1>2, <1>4, QuietEntryStep
<1>5. CASE fs[Target(tx.job)] = Empty /\ SourceBack(tx)
  <2>1. AtSource(tx.job) /\ NothingAside(tx.job)
    BY <1>3, <1>5 DEF Placed, AtTarget, AtSource, Safe, Holds
  <2> QED BY <1>1, <1>2, <1>3, <1>5, <2>1, QuietEntryStep
<1>6. CASE Goto(IF cross[tx.job] THEN "undo_copy" ELSE "undo_rename", tx)
  <2>1. tx' = tx /\ pc' = (IF cross[tx.job] THEN "undo_copy" ELSE "undo_rename")
        /\ Still(tx.job)
    BY <1>2, <1>3, <1>6, NothingMoves DEF Goto
  <2>2. Placed(tx.job)' /\ BackedUp(tx.job)' /\ cross' = cross
    BY <1>3, <2>1, StillFrame DEF Still, env
  <2>3. JobOK(tx.job)' /\ pc' \in Undoing
    BY <2>1, <2>2 DEF JobOK, Restoring, Undoing
  <2> QED BY <1>1, <1>2, <2>1, <2>3, QuietEntryStep
<1> QED BY <1>4, <1>5, <1>6 DEF UndoCheck

LEMMA UndoRenameKeeps == IInv /\ UndoRename => IInv'
<1> SUFFICES ASSUME IInv, UndoRename PROVE IInv'
  OBVIOUS
<1>1. TypeOK'
  BY TypeStep DEF IInv, Next, Transaction, RollBack
<1>2. pc = "undo_rename" /\ AtJob /\ UNCHANGED <<step, env>> /\ dbFaults' = dbFaults
  BY DEF UndoRename, AtJob, Undoing, Call
<1>3. /\ tx.job \in Plans /\ FilesOK /\ tx \in TxType /\ Sound(tx.job) /\ ~Committed
      /\ Placed(tx.job) /\ BackedUp(tx.job) /\ ~cross[tx.job]
  BY <1>2, EntryAtHand DEF JobOK
<1>4. CASE SourceNotBack(tx) /\ UNCHANGED fs
  BY <1>1, <1>2, <1>4, QuietEntryStep
<1>5. CASE /\ Rename(Target(tx.job), Source(tx.job))
           /\ IF fs[Target(tx.job)] = tx.pub[tx.job] THEN SourceBack(tx) ELSE SourceNotBack(tx)
  <2>0. Source(tx.job) \in NamesOf(tx.job) /\ Target(tx.job) \in NamesOf(tx.job)
        /\ Source(tx.job) # Target(tx.job)
    BY <1>3, OwnNames DEF NamesOf
  <2>1. /\ fs'[Target(tx.job)] = Empty /\ fs'[Source(tx.job)] = fs[Target(tx.job)]
        /\ \A n \in Names \ NamesOf(tx.job) : fs'[n] = fs[n]
        /\ fs'[Retired(tx.job)] = fs[Retired(tx.job)] /\ fs'[Undo(tx.job)] = fs[Undo(tx.job)]
        /\ fs'[Backup(tx.job)] = fs[Backup(tx.job)]
    BY <1>3, <1>5, <2>0, OwnNames, RenameWithin DEF FilesOK, NamesOf
  <2>2. tx'.job = tx.job /\ tx'.pub = tx.pub /\ tx'.records = tx.records
    BY <1>3, <1>5, HandOver
  <2>3. /\ AtSource(tx.job)' /\ NothingAside(tx.job)'
        /\ BackedUp(tx.job)' /\ Replaces(tx.job)' = Replaces(tx.job)
    BY <1>2, <1>3, <2>1, <2>2
    DEF Placed, AtTarget, AtSource, Safe, Holds, NothingAside, BackedUp, Replaces, env
  <2>4. Sound(tx.job)'
    BY <1>2, <1>3, <2>1, <2>2, <2>3 DEF Sound, BackedUp, env
  <2> QED BY <1>1, <1>2, <1>5, <2>1, <2>3, <2>4, EntryStep
<1> QED BY <1>4, <1>5 DEF UndoRename

LEMMA UndoCopyKeeps == IInv /\ UndoCopy => IInv'
<1> SUFFICES ASSUME IInv, UndoCopy PROVE IInv'
  OBVIOUS
<1>1. TypeOK'
  BY TypeStep DEF IInv, Next, Transaction, RollBack
<1>2. pc = "undo_copy" /\ AtJob /\ UNCHANGED <<step, env>> /\ dbFaults' = dbFaults
  BY DEF UndoCopy, AtJob, Undoing, Call
<1>3. /\ tx.job \in Plans /\ FilesOK /\ tx \in TxType /\ Sound(tx.job) /\ ~Committed
      /\ Placed(tx.job) /\ BackedUp(tx.job) /\ cross[tx.job]
  BY <1>2, EntryAtHand DEF JobOK
<1>4. CASE SourceNotBack(tx) /\ UNCHANGED fs
  BY <1>1, <1>2, <1>4, QuietEntryStep
<1>5. CASE fs' = [fs EXCEPT ![Undo(tx.job)] = Recopied(tx.job)] /\ Goto("undo_publish", tx)
  <2>1. Undo(tx.job) \in Names /\ Undo(tx.job) \in NamesOf(tx.job)
    BY <1>3, OwnNames DEF NamesOf
  <2>2. /\ fs'[Undo(tx.job)] = Recopied(tx.job)
        /\ \A n \in Names \ {Undo(tx.job)} : fs'[n] = fs[n]
    BY <1>3, <1>5, <2>1 DEF FilesOK
  <2>3. /\ \A n \in Names \ NamesOf(tx.job) : fs'[n] = fs[n]
        /\ fs'[Source(tx.job)] = fs[Source(tx.job)] /\ fs'[Target(tx.job)] = fs[Target(tx.job)]
        /\ fs'[Retired(tx.job)] = fs[Retired(tx.job)] /\ fs'[Backup(tx.job)] = fs[Backup(tx.job)]
        /\ fs'[Old(tx.job)] = fs[Old(tx.job)]
    BY <1>3, <2>1, <2>2, OwnNames DEF NamesOf
  <2>4. tx' = tx /\ pc' = "undo_publish"
    BY <1>5 DEF Goto
  <2>5. /\ AtTarget(tx.job)' = AtTarget(tx.job) /\ BackedUp(tx.job)' = BackedUp(tx.job)
        /\ Replaces(tx.job)' = Replaces(tx.job)
    BY <1>2, <1>3, <2>3, <2>4 DEF AtTarget, BackedUp, Safe, Holds, Replaces, env
  <2>6. Sound(tx.job)'
    BY <1>2, <1>3, <2>3, <2>4, <2>5 DEF Sound, BackedUp, Placed, env
  <2>7. JobOK(tx.job)' /\ pc' \in Undoing
    BY <1>2, <1>3, <2>2, <2>3, <2>4, <2>5
    DEF JobOK, Placed, NothingAside, Restoring, Undoing, env
  <2> QED BY <1>1, <1>2, <2>3, <2>4, <2>6, <2>7, EntryStep
<1> QED BY <1>4, <1>5 DEF UndoCopy

LEMMA UndoPublishKeeps == IInv /\ UndoPublish => IInv'
<1> SUFFICES ASSUME IInv, UndoPublish PROVE IInv'
  OBVIOUS
<1>1. TypeOK'
  BY TypeStep DEF IInv, Next, Transaction, RollBack
<1>2. pc = "undo_publish" /\ AtJob /\ UNCHANGED <<step, env>> /\ dbFaults' = dbFaults
  BY DEF UndoPublish, AtJob, Undoing, Call
<1>3. /\ tx.job \in Plans /\ FilesOK /\ tx \in TxType /\ Sound(tx.job) /\ ~Committed
      /\ AtTarget(tx.job) /\ BackedUp(tx.job) /\ cross[tx.job]
      /\ fs[Retired(tx.job)] = Empty /\ fs[Undo(tx.job)] = Recopied(tx.job)
  BY <1>2, EntryAtHand DEF JobOK
<1>4. /\ Source(tx.job) \in NamesOf(tx.job) /\ Undo(tx.job) \in NamesOf(tx.job)
      /\ Source(tx.job) # Undo(tx.job)
  BY <1>3, OwnNames DEF NamesOf
<1>5. CASE Remove(Undo(tx.job)) /\ SourceNotBack(tx)
  <2>1. /\ \A n \in Names \ NamesOf(tx.job) : fs'[n] = fs[n]
        /\ fs'[Target(tx.job)] = fs[Target(tx.job)] /\ fs'[Backup(tx.job)] = fs[Backup(tx.job)]
    BY <1>3, <1>4, <1>5, OwnNames, RemoveWithin DEF FilesOK, NamesOf
  <2>2. tx'.job = tx.job /\ tx'.records = tx.records
    BY <1>3, <1>5, HandOver
  <2>3. AtTarget(tx.job)' /\ BackedUp(tx.job)' /\ Replaces(tx.job)' = Replaces(tx.job)
    BY <1>2, <1>3, <2>1, <2>2 DEF AtTarget, BackedUp, Safe, Holds, Replaces, env
  <2>4. Sound(tx.job)'
    BY <1>2, <1>3, <2>1, <2>2, <2>3 DEF Sound, BackedUp, env
  <2> QED BY <1>1, <1>2, <1>5, <2>1, <2>4, EntryStep
<1>6. CASE Rename(Undo(tx.job), Source(tx.job)) /\ Goto("undo_drop_check", tx)
  <2>1. /\ fs'[Undo(tx.job)] = Empty /\ fs'[Source(tx.job)] = Recopied(tx.job)
        /\ \A n \in Names \ NamesOf(tx.job) : fs'[n] = fs[n]
        /\ fs'[Retired(tx.job)] = fs[Retired(tx.job)]
        /\ fs'[Backup(tx.job)] = fs[Backup(tx.job)]
    BY <1>3, <1>4, <1>6, OwnNames, RenameWithin DEF FilesOK, NamesOf
  <2>2. tx' = tx /\ pc' = "undo_drop_check"
    BY <1>6 DEF Goto
  <2>3. /\ AtSource(tx.job)' /\ NothingAside(tx.job)'
        /\ BackedUp(tx.job)' /\ Replaces(tx.job)' = Replaces(tx.job)
    BY <1>2, <1>3, <2>1, <2>2, FileKinds
    DEF AtSource, Safe, Holds, NothingAside, BackedUp, Replaces, env
  <2>4. Sound(tx.job)'
    BY <1>2, <1>3, <2>1, <2>2, <2>3 DEF Sound, BackedUp, env
  <2>5. JobOK(tx.job)' /\ pc' \in Undoing
    BY <1>2, <1>3, <2>2, <2>3 DEF JobOK, Restoring, Undoing, env
  <2> QED BY <1>1, <1>2, <2>1, <2>2, <2>4, <2>5, EntryStep
<1> QED BY <1>5, <1>6 DEF UndoPublish

LEMMA UndoDropCheckKeeps == IInv /\ UndoDropCheck => IInv'
<1> SUFFICES ASSUME IInv, UndoDropCheck PROVE IInv'
  OBVIOUS
<1>1. TypeOK'
  BY TypeStep DEF IInv, Next, Transaction, RollBack
<1>2. pc = "undo_drop_check" /\ AtJob /\ UNCHANGED <<fs, step, env>> /\ dbFaults' = dbFaults
  BY DEF UndoDropCheck, AtJob, Undoing, Call
<1>3. /\ tx.job \in Plans /\ AtSource(tx.job) /\ NothingAside(tx.job) /\ BackedUp(tx.job)
      /\ cross[tx.job]
  BY <1>2, EntryAtHand DEF JobOK
<1>4. CASE SourceNotBack(tx) \/ SourceBack(tx)
  BY <1>1, <1>2, <1>3, <1>4, QuietEntryStep
<1>5. CASE Goto("undo_drop", tx)
  <2>1. tx' = tx /\ pc' = "undo_drop" /\ Still(tx.job)
    BY <1>2, <1>3, <1>5, NothingMoves DEF Goto
  <2>2. AtSource(tx.job)' /\ NothingAside(tx.job)' /\ BackedUp(tx.job)' /\ cross' = cross
    BY <1>3, <2>1, StillFrame DEF Still, env
  <2>3. JobOK(tx.job)' /\ pc' \in Undoing
    BY <1>3, <2>1, <2>2 DEF JobOK, Restoring, Undoing
  <2> QED BY <1>1, <1>2, <2>1, <2>3, QuietEntryStep
<1> QED BY <1>4, <1>5 DEF UndoDropCheck

LEMMA UndoDropKeeps == IInv /\ UndoDrop => IInv'
<1> SUFFICES ASSUME IInv, UndoDrop PROVE IInv'
  OBVIOUS
<1>1. TypeOK'
  BY TypeStep DEF IInv, Next, Transaction, RollBack
<1>2. pc = "undo_drop" /\ AtJob /\ UNCHANGED <<step, env>> /\ dbFaults' = dbFaults
  BY DEF UndoDrop, AtJob, Undoing, Call
<1>3. /\ tx.job \in Plans /\ FilesOK /\ tx \in TxType /\ Sound(tx.job) /\ ~Committed
      /\ AtSource(tx.job) /\ NothingAside(tx.job) /\ BackedUp(tx.job)
  BY <1>2, EntryAtHand DEF JobOK
<1>4. CASE SourceNotBack(tx) /\ UNCHANGED fs
  BY <1>1, <1>2, <1>4, QuietEntryStep
<1>5. CASE Remove(Target(tx.job)) /\ SourceBack(tx)
  <2>0. Target(tx.job) \in NamesOf(tx.job)
    BY DEF NamesOf
  <2>1. /\ \A n \in Names \ NamesOf(tx.job) : fs'[n] = fs[n]
        /\ fs'[Source(tx.job)] = fs[Source(tx.job)]
        /\ fs'[Retired(tx.job)] = fs[Retired(tx.job)] /\ fs'[Undo(tx.job)] = fs[Undo(tx.job)]
        /\ fs'[Backup(tx.job)] = fs[Backup(tx.job)]
    BY <1>3, <1>5, <2>0, OwnNames, RemoveWithin DEF FilesOK, NamesOf
  <2>2. tx'.job = tx.job /\ tx'.records = tx.records
    BY <1>3, <1>5, HandOver
  <2>3. /\ AtSource(tx.job)' /\ NothingAside(tx.job)'
        /\ BackedUp(tx.job)' /\ Replaces(tx.job)' = Replaces(tx.job)
    BY <1>2, <1>3, <2>1, <2>2
    DEF AtSource, Safe, Holds, NothingAside, BackedUp, Replaces, env
  <2>4. Sound(tx.job)'
    BY <1>2, <1>3, <2>1, <2>2, <2>3 DEF Sound, BackedUp, env
  <2> QED BY <1>1, <1>2, <1>5, <2>1, <2>3, <2>4, EntryStep
<1> QED BY <1>4, <1>5 DEF UndoDrop

-----------------------------------------------------------------------------
(* The records of the rollback, and its end.                               *)

\* An entry that is back, or of which the caller or a failed record tells, leaves the list.
LEMMA EntryRecorded ==
    ASSUME IInv, TypeOK', AtJob, UNCHANGED <<fs, env>>, dbFaults' = dbFaults,
           Visited(tx),
           \/ /\ step' = [step EXCEPT ![tx.job] = "rolled_back"]
              /\ AtSource(tx.job) /\ NothingAside(tx.job) /\ (Replaces(tx.job) => AtOld(tx.job))
           \/ step' = [step EXCEPT ![tx.job] = "failed"] /\ tx.reported
    PROVE  IInv'
<1>1. /\ tx.job \in Plans /\ tx \in TxType /\ Sound(tx.job) /\ ~Committed
      /\ step \in [Plans -> {"none", "running", "completed", "failed", "rolled_back"}]
  BY EntryAtHand DEF IInv, TypeOK
<1>2. /\ pc' = "undo_next" /\ tx'.todo = tx.todo \ {tx.job} /\ tx'.job = tx.job
      /\ tx'.pub = tx.pub /\ tx'.moved = tx.moved /\ tx'.records = tx.records
      /\ tx'.reported = tx.reported
  BY <1>1 DEF Visited, Goto, TxType
<1>3. /\ step'[tx.job] \in {"rolled_back", "failed"}
      /\ \A i \in Plans \ {tx.job} : step'[i] = step[i]
  BY <1>1
<1>4. Within(tx.job)
  BY <1>2, <1>3 DEF Within
<1>5. Still(tx.job)
  BY <1>1, <1>2, NothingMoves
<1>a. Sound(tx.job)'
  BY <1>1, <1>2, <1>5, StillFrame
<1>6. /\ AtSource(tx.job)' = AtSource(tx.job)
      /\ NothingAside(tx.job)' = NothingAside(tx.job) /\ AtOld(tx.job)' = AtOld(tx.job)
      /\ Replaces(tx.job)' = Replaces(tx.job)
  BY <1>1, <1>2, <1>5, StillFrame
<1>7. step'[tx.job] = "rolled_back" =>
          AtSource(tx.job) /\ NothingAside(tx.job) /\ (Replaces(tx.job) => AtOld(tx.job))
  BY <1>1
<1>8. step'[tx.job] = "failed" => tx'.reported
  BY <1>1, <1>2
<1>9. Undone(tx.job)'
  BY <1>2, <1>3, <1>6, <1>7, <1>8 DEF Undone, Blamed
<1> QED BY <1>1, <1>2, <1>a, <1>4, <1>6, <1>7, <1>9, JobEnds

LEMMA RecordUndoneKeeps == IInv /\ RecordUndone => IInv'
<1> SUFFICES ASSUME IInv, RecordUndone PROVE IInv'
  OBVIOUS
<1>1. TypeOK'
  BY TypeStep DEF IInv, Next, Transaction, RollBack
<1>2. pc = "record_undone" /\ AtJob /\ UNCHANGED <<fs, env>>
  BY DEF RecordUndone, AtJob, Undoing
<1>3. /\ CountsOK /\ AtSource(tx.job) /\ NothingAside(tx.job)
      /\ Replaces(tx.job) => AtOld(tx.job)
  BY <1>2, EntryAtHand DEF JobOK
<1>4. PICK ok \in BOOLEAN :
        /\ DbCall(ok)
        /\ IF ok THEN /\ step' = [step EXCEPT ![tx.job] = "rolled_back"]
                      /\ Visited(tx)
                 ELSE SourceNotBack(tx) /\ UNCHANGED step
  BY DEF RecordUndone
<1>5. /\ ok => dbFaults' = dbFaults
      /\ dbFaults # 0 => dbFaults' # 0
  BY <1>3, <1>4, DbCallCounts DEF CountsOK
<1>6. CASE ok
  BY <1>1, <1>2, <1>3, <1>4, <1>5, <1>6, EntryRecorded
<1>7. CASE ~ok
  BY <1>1, <1>2, <1>4, <1>5, <1>7, QuietEntryStep
<1> QED BY <1>6, <1>7

\* The rollback stops at a record it cannot write; all that is known is that it could not.
LEMMA RollbackStops ==
    ASSUME IInv, TypeOK', AtJob, UNCHANGED <<fs, step, env>>, dbFaults' # 0,
           pc' = "failed", tx' = [tx EXCEPT !.reported = FALSE]
    PROVE  IInv'
<1>1. tx \in TxType /\ InRollback /\ ~Committed
  BY Phases, EntryAtHand
<1>2. tx'.pub = tx.pub /\ tx'.moved = tx.moved /\ tx'.records = tx.records
  BY <1>1 DEF TxType
<1>3. ASSUME NEW i \in Plans PROVE PlanOK(i)'
  <2>1. PlanOK(i) /\ Still(i)
    BY <1>2, NothingMoves DEF IInv
  <2>2. Sound(i)' /\ AtSource(i)' = AtSource(i)
    BY <1>1, <2>1, StillFrame DEF PlanOK
  <2>3. Undone(i)'
    BY DEF Undone, Blamed
  <2>4. step[i] = "rolled_back" => AtSource(i)
    BY <2>1 DEF PlanOK
  <2> QED BY <2>2, <2>3, <2>4
          DEF PlanOK, Forward, Handling, InRollback, AtJob, AtRest, Committed, Moving, Early,
              Cleaning, Undoing, Restoring
<1> QED BY <1>3 DEF IInv, Forward, Handling, InRollback, AtJob, AtRest, Blamed, Moving, Early,
                    Cleaning, Undoing, Restoring

LEMMA RecordUndoFailureKeeps == IInv /\ RecordUndoFailure => IInv'
<1> SUFFICES ASSUME IInv, RecordUndoFailure PROVE IInv'
  OBVIOUS
<1>1. TypeOK'
  BY TypeStep DEF IInv, Next, Transaction, RollBack
<1>2. pc = "record_undo_failure" /\ AtJob /\ UNCHANGED <<fs, env>>
  BY DEF RecordUndoFailure, AtJob, Undoing
<1>3. CountsOK /\ tx.reported
  BY <1>2, EntryAtHand DEF JobOK
<1>4. PICK ok \in BOOLEAN :
        /\ DbCall(ok)
        /\ IF ok THEN /\ step' = [step EXCEPT ![tx.job] = "failed"]
                      /\ Visited(tx)
                 ELSE /\ Goto("failed", [tx EXCEPT !.reported = FALSE])
                      /\ UNCHANGED step
  BY DEF RecordUndoFailure
<1>5. /\ ok => dbFaults' = dbFaults
      /\ ~ok => dbFaults' # 0
  BY <1>3, <1>4, DbCallCounts DEF CountsOK
<1>6. CASE ok
  BY <1>1, <1>2, <1>3, <1>4, <1>5, <1>6, EntryRecorded
<1>7. CASE ~ok
  BY <1>1, <1>2, <1>4, <1>5, <1>7, RollbackStops DEF Goto
<1> QED BY <1>6, <1>7

LEMMA UndoNextKeeps == IInv /\ UndoNext => IInv'
<1> SUFFICES ASSUME IInv, UndoNext PROVE IInv'
  OBVIOUS
<1>1. TypeOK'
  BY TypeStep DEF IInv, Next, Transaction, RollBack
<1>2. /\ pc = "undo_next" /\ InRollback /\ ~AtJob /\ ~Committed /\ tx \in TxType
      /\ UNCHANGED <<fs, step, env, dbFaults>> /\ tx.todo \subseteq tx.moved
  BY TypeParts DEF IInv, UndoNext, InRollback, AtJob, Committed, Undoing, Restoring
<1>3. CASE tx.todo = {}
  <2>1. /\ pc' = "rest" /\ tx'.todo = tx.records /\ tx'.pub = tx.pub /\ tx'.moved = tx.moved
        /\ tx'.records = tx.records /\ tx'.reported = tx.reported
    BY <1>2, <1>3 DEF UndoNext, Goto, Leftovers, TxType
  <2>2. /\ AtRest' /\ ~Forward' /\ ~Handling' /\ ~InRollback' /\ ~AtJob' /\ ~Committed'
        /\ pc' \notin Restoring
    BY <2>1 DEF Forward, Handling, InRollback, AtJob, AtRest, Committed, Moving, Early,
                Cleaning, Undoing, Restoring
  <2>3. ASSUME NEW i \in Plans PROVE PlanOK(i)'
    <3>1. PlanOK(i) /\ Still(i)
      BY <1>2, <2>1, NothingMoves DEF IInv
    <3>2. Alone(i) /\ Undone(i)
      BY <1>2, <1>3, <2>1, <3>1 DEF Alone, PlanOK
    <3> QED BY <1>2, <2>2, <3>1, <3>2, Frame DEF PlanOK, Alone
  <2> QED BY <1>1, <2>1, <2>2, <2>3 DEF IInv, Committed
<1>4. CASE tx.todo # {}
  <2>1. PICK j \in tx.todo : Goto("undo", [tx EXCEPT !.job = j])
    BY <1>4 DEF UndoNext
  <2>2. /\ pc' = "undo" /\ tx'.job = j /\ tx'.todo = tx.todo /\ tx'.pub = tx.pub
        /\ tx'.moved = tx.moved /\ tx'.records = tx.records /\ tx'.reported = tx.reported
    BY <1>2, <2>1 DEF Goto, TxType
  <2>3. /\ InRollback' /\ AtJob' /\ ~Forward' /\ ~Handling' /\ ~AtRest' /\ ~Committed'
        /\ pc' \notin Restoring
    BY <2>2 DEF Forward, Handling, InRollback, AtJob, AtRest, Committed, Moving, Early,
                Cleaning, Undoing, Restoring
  <2>4. ASSUME NEW i \in Plans
        PROVE  PlanOK(i)' /\ (i \in tx.todo => Placed(i)' /\ BackedUp(i)')
    <3>1. PlanOK(i) /\ Still(i)
      BY <1>2, <2>2, NothingMoves DEF IInv
    <3>2. Alone(i)
      BY <1>2, <2>2, <3>1 DEF Alone
    <3> QED BY <1>2, <2>2, <2>3, <3>1, <3>2, Frame DEF PlanOK, Alone
  <2>5. JobOK(j)'
    BY <1>2, <2>2, <2>4 DEF JobOK, Restoring, TxType
  <2> QED BY <1>1, <1>2, <2>2, <2>3, <2>4, <2>5 DEF IInv, Committed, AtRest
<1> QED BY <1>3, <1>4

LEMMA RestoreRestKeeps == IInv /\ RestoreRest => IInv'
<1> SUFFICES ASSUME IInv, RestoreRest PROVE IInv'
  OBVIOUS
<1>1. TypeOK'
  BY TypeStep DEF IInv, Next, Transaction, RollBack
<1>2. /\ pc = "rest" /\ AtRest /\ ~Committed /\ tx \in TxType
      /\ UNCHANGED <<fs, step, env, dbFaults>>
      /\ ~Blamed => tx.records = tx.todo
      /\ tx.todo \subseteq tx.records
  BY TypeParts DEF IInv, RestoreRest, AtRest, Committed
<1>3. PICK p \in Plans : \/ tx.todo = {} /\ Goto("failed", tx)
                         \/ p \in tx.todo /\ Goto("restore", [tx EXCEPT !.job = p, !.ret = "rest"])
  <2>1. 1 \in Plans /\ tx.todo \subseteq Plans
    BY <1>2, LocalMoveAssumption DEF Plans, TxType
  <2> QED BY <2>1 DEF RestoreRest
<1>4. /\ tx'.todo = tx.todo /\ tx'.pub = tx.pub /\ tx'.moved = tx.moved
      /\ tx'.records = tx.records /\ tx'.reported = tx.reported
  BY <1>2, <1>3 DEF Goto, TxType
<1>5. \/ tx.todo = {} /\ pc' = "failed"
      \/ p \in tx.todo /\ pc' = "restore" /\ tx'.job = p /\ tx'.ret = "rest"
  BY <1>2, <1>3 DEF Goto, TxType
<1>6. AtRest' /\ (pc' \in Restoring => pc' = "restore" /\ tx'.job = p /\ p \in tx.todo)
  BY <1>5 DEF AtRest, Restoring
<1>7. Still(p) /\ Within(p) /\ Alone(p) /\ PlanOK(p)
  BY <1>2, <1>4, NothingMoves DEF Within, Alone, IInv
<1>8. Sound(p)' /\ Undone(p)' /\ AtSource(p)' = AtSource(p)
  BY <1>2, <1>7, Frame DEF PlanOK
<1>a. pc' \in Restoring => RestoringOK(p)'
  BY <1>2, <1>4, <1>6 DEF RestoringOK
<1>9. ~Blamed' => tx'.records = (IF pc' = "failed" THEN {} ELSE tx'.todo)
  BY <1>2, <1>4, <1>5 DEF Blamed
<1> QED BY <1>1, <1>2, <1>4, <1>6, <1>7, <1>8, <1>9, <1>a, RestStep

-----------------------------------------------------------------------------
(* The commit.                                                             *)

LEMMA CommitKeeps == IInv /\ Commit => IInv'
<1> SUFFICES ASSUME IInv, Commit PROVE IInv'
  OBVIOUS
<1>1. TypeOK'
  BY TypeStep DEF IInv, Next, Transaction
<1>2. /\ pc = "commit" /\ Committed /\ tx \in TxType /\ FilesOK /\ UNCHANGED <<step, env>>
      /\ dbFaults' = dbFaults /\ tx.todo \subseteq tx.records
  BY TypeParts DEF IInv, Commit, Committed, Call
<1>3. \A i \in Plans : /\ PlanOK(i) /\ Sound(i) /\ Placed(i) /\ step[i] # "rolled_back"
                       /\ i \in tx.records => fs[Backup(i)] # Empty
  BY <1>2 DEF IInv, PlanOK
<1>4. PICK removed \in SUBSET tx.todo, rest \in SUBSET tx.todo :
        /\ tx'.records = tx.records \ removed
        /\ tx'.todo = rest /\ removed \cap rest = {}
        /\ tx'.pub = tx.pub /\ tx'.moved = tx.moved
        /\ \/ removed = {} /\ UNCHANGED fs
           \/ \E j \in removed : removed = {j} /\ Remove(Backup(j))
        /\ \/ pc' = "commit"
           \/ pc' = "completed" /\ tx.records = {} /\ removed = {}
           \/ pc' = "requires_manual" /\ tx.records # {} /\ removed = {}
  <2>1. CASE tx.todo = {} /\ Goto(FinalStatus(tx), tx) /\ UNCHANGED fs
    <3> WITNESS {} \in SUBSET tx.todo, {} \in SUBSET tx.todo
    <3> QED BY <1>2, <2>1 DEF Goto, FinalStatus
  <2>2. ASSUME NEW j \in tx.todo, Remove(Backup(j)),
               Goto("commit", [tx EXCEPT !.todo = @ \ {j}, !.records = @ \ {j}])
        PROVE  \E removed \in SUBSET tx.todo, rest \in SUBSET tx.todo :
                 /\ tx'.records = tx.records \ removed
                 /\ tx'.todo = rest /\ removed \cap rest = {}
                 /\ tx'.pub = tx.pub /\ tx'.moved = tx.moved
                 /\ \/ removed = {} /\ UNCHANGED fs
                    \/ \E k \in removed : removed = {k} /\ Remove(Backup(k))
                 /\ \/ pc' = "commit"
                    \/ pc' = "completed" /\ tx.records = {} /\ removed = {}
                    \/ pc' = "requires_manual" /\ tx.records # {} /\ removed = {}
    <3>1. /\ tx'.records = tx.records \ {j} /\ tx'.todo = tx.todo \ {j}
          /\ tx'.pub = tx.pub /\ tx'.moved = tx.moved /\ pc' = "commit"
      BY <1>2, <2>2 DEF Goto, TxType
    <3> WITNESS {j} \in SUBSET tx.todo, tx.todo \ {j} \in SUBSET tx.todo
    <3> QED BY <2>2, <3>1
  <2>3. ASSUME NEW j \in tx.todo, UNCHANGED fs, Goto("commit", [tx EXCEPT !.todo = @ \ {j}])
        PROVE  \E removed \in SUBSET tx.todo, rest \in SUBSET tx.todo :
                 /\ tx'.records = tx.records \ removed
                 /\ tx'.todo = rest /\ removed \cap rest = {}
                 /\ tx'.pub = tx.pub /\ tx'.moved = tx.moved
                 /\ \/ removed = {} /\ UNCHANGED fs
                    \/ \E k \in removed : removed = {k} /\ Remove(Backup(k))
                 /\ \/ pc' = "commit"
                    \/ pc' = "completed" /\ tx.records = {} /\ removed = {}
                    \/ pc' = "requires_manual" /\ tx.records # {} /\ removed = {}
    <3>1. /\ tx'.records = tx.records /\ tx'.todo = tx.todo \ {j}
          /\ tx'.pub = tx.pub /\ tx'.moved = tx.moved /\ pc' = "commit"
      BY <1>2, <2>3 DEF Goto, TxType
    <3> WITNESS {} \in SUBSET tx.todo, tx.todo \ {j} \in SUBSET tx.todo
    <3> QED BY <2>3, <3>1
  <2> QED BY <2>1, <2>2, <2>3 DEF Commit
<1>5. /\ Committed' /\ ~Forward' /\ ~Handling' /\ ~InRollback' /\ ~AtJob' /\ ~AtRest'
      /\ pc' \notin Restoring
  BY <1>4 DEF Forward, Handling, Moving, Early, Cleaning, Restoring, InRollback, AtJob, Undoing,
              AtRest, Committed
<1>6. ASSUME NEW i \in Plans PROVE PlanOK(i)'
  <2>1. CASE i \notin removed
    <3>1. \A n \in NamesOf(i) : fs'[n] = fs[n]
      <4>1. ASSUME NEW j \in removed, Remove(Backup(j)), NEW n \in NamesOf(i)
            PROVE  fs'[n] = fs[n]
        <5>0. j \in tx.todo /\ j # i /\ tx.todo \subseteq Plans
          BY <1>2, <1>4, <2>1, <4>1 DEF TxType
        <5>a. Backup(j) \in NamesOf(j)
          BY DEF NamesOf
        <5>1. j \in Plans /\ n \in Names \ {Backup(j)} /\ Backup(j) \in NamesOf(j)
          BY <5>0, <5>a, OwnNames, OtherNames
        <5> QED BY <1>2, <4>1, <5>1, RemoveWithin DEF FilesOK
      <4> QED BY <1>4, <4>1
    <3>2. Still(i)
      BY <1>2, <1>4, <2>1, <3>1 DEF Still
    <3>3. Placed(i)' /\ Sound(i)' /\ fs'[Backup(i)] = fs[Backup(i)]
      BY <1>3, <1>5, <3>2, StillFrame
    <3> QED BY <1>2, <1>3, <1>4, <1>5, <3>3 DEF PlanOK
  <2>2. CASE i \in removed
    <3>1. Backup(i) \in NamesOf(i) /\ Remove(Backup(i))
      BY <1>4, <2>2 DEF NamesOf
    <3>2. /\ fs'[Backup(i)] = Empty
          /\ \A n \in Names \ {Backup(i)} : fs'[n] = fs[n]
      BY <1>2, <3>1, RemoveWithin DEF FilesOK
    <3>3. /\ fs'[Source(i)] = fs[Source(i)] /\ fs'[Target(i)] = fs[Target(i)]
          /\ fs'[Retired(i)] = fs[Retired(i)] /\ fs'[Undo(i)] = fs[Undo(i)]
          /\ fs'[Partial(i)] = fs[Partial(i)]
      BY <3>2, OwnNames DEF NamesOf
    <3>4. Placed(i)'
      BY <1>2, <1>3, <1>4, <3>3 DEF Placed, AtTarget, NothingAside, Known, Safe, Holds, env
    <3>5. i \notin tx'.records
      BY <1>4, <2>2
    <3>6. Sound(i)'
      BY <1>5, <3>2, <3>4, <3>5 DEF Sound, Placed
    <3> QED BY <1>2, <1>3, <1>5, <3>4, <3>5, <3>6 DEF PlanOK
  <2> QED BY <2>1, <2>2
<1>7. /\ pc' = "commit" => tx'.todo \subseteq tx'.records
      /\ pc' = "completed" => tx'.records = {}
      /\ pc' = "requires_manual" => tx'.records # {}
  BY <1>2, <1>4
<1> QED BY <1>1, <1>5, <1>6, <1>7 DEF IInv

-----------------------------------------------------------------------------
(* Other programs.                                                         *)

\* What other programs do: a visible name gets a new file or loses the one it had.
Meddling ==
    /\ UNCHANGED <<kind, cross, pc, tx, step, dbFaults>>
    /\ \E n \in Visible :
        /\ \A m \in Names \ {n} : fs'[m] = fs[m]
        /\ fs'[n] = Empty \/ \E k \in Foreigners : fs'[n] = Ext(k)
        /\ fs[n] # Empty => Content(fs[n]) \in gone'
    /\ gone \subseteq gone'

LEMMA OthersMeddle == TypeOK /\ Others => Meddling
<1> SUFFICES ASSUME TypeOK, Others PROVE Meddling
  OBVIOUS
<1>0. ASSUME NEW n \in Visible, fs[n] # Empty
      PROVE  Content(fs[n]) # Empty
  <2>1. fs[n] \in Files
    BY <1>0 DEF TypeOK, Names
  <2> QED BY <2>1 DEF Content, Files, Src, Empty
<1>1. ASSUME NEW n \in Visible, NEW k \in Foreigners, Create(n, k) PROVE Meddling
  BY <1>0, <1>1 DEF Create, Meddling, TypeOK, Names
<1>2. ASSUME NEW n \in Visible, Delete(n) PROVE Meddling
  BY <1>2 DEF Delete, Remove, Meddling, TypeOK, Names
<1> QED BY <1>1, <1>2 DEF Others

\* They destroy nothing without a trace, and touch no hidden name.
LEMMA MeddlingFrame ==
    ASSUME TypeOK, Meddling, NEW i \in Plans
    PROVE  /\ fs'[Partial(i)] = fs[Partial(i)] /\ fs'[Retired(i)] = fs[Retired(i)]
           /\ fs'[Backup(i)] = fs[Backup(i)] /\ fs'[Undo(i)] = fs[Undo(i)]
           /\ AtSource(i) => AtSource(i)'
           /\ AtTarget(i) => AtTarget(i)'
           /\ AtRetired(i) => AtRetired(i)'
           /\ AtOld(i) => AtOld(i)'
           /\ fs[Source(i)] # Src(i) => fs'[Source(i)] # Src(i)
           /\ ~Holds(Old(i), Src(i)) => ~Holds(Old(i), Src(i))'
           /\ Known(i) => Known(i)'
           /\ Replaces(i)' = Replaces(i)
<1>1. PICK n \in Visible :
        /\ \A m \in Names \ {n} : fs'[m] = fs[m]
        /\ fs'[n] = Empty \/ \E k \in Foreigners : fs'[n] = Ext(k)
        /\ fs[n] # Empty => Content(fs[n]) \in gone'
  BY DEF Meddling
<1>2. /\ {Source(i), Target(i), Partial(i), Retired(i), Backup(i), Undo(i)} \subseteq Names
      /\ Old(i) \in Names /\ Old(i)' = Old(i)
  BY OwnNames DEF NamesOf, Meddling, Old, Target
<1>3. ASSUME NEW m \in Names, NEW c, Safe(m, c)
      PROVE  c \in gone' \/ (fs'[m] # Empty /\ Content(fs'[m]) = c)
  BY <1>1, <1>3 DEF Safe, Holds, Meddling
<1>4. /\ fs'[Partial(i)] = fs[Partial(i)] /\ fs'[Retired(i)] = fs[Retired(i)]
      /\ fs'[Backup(i)] = fs[Backup(i)] /\ fs'[Undo(i)] = fs[Undo(i)]
  BY <1>1, <1>2, HiddenNames
<1>5. /\ AtSource(i) => AtSource(i)'
      /\ AtTarget(i) => AtTarget(i)'
      /\ AtRetired(i) => AtRetired(i)'
      /\ AtOld(i) => AtOld(i)'
  BY <1>2, <1>3 DEF AtSource, AtTarget, AtRetired, AtOld, Safe, Holds
<1>6. fs[Source(i)] # Src(i) => fs'[Source(i)] # Src(i)
  BY <1>1, <1>2, FileKinds DEF Src, Empty
<1>7. ~Holds(Old(i), Src(i)) => ~Holds(Old(i), Src(i))'
  BY <1>1, <1>2, FileKinds DEF Holds
<1>8. (Known(i) => Known(i)') /\ Replaces(i)' = Replaces(i)
  BY DEF Meddling, Known, Replaces
<1> QED BY <1>4, <1>5, <1>6, <1>7, <1>8

LEMMA MeddlingPlan ==
    ASSUME TypeOK, Meddling, NEW i \in Plans
    PROVE  /\ NothingAside(i)' = NothingAside(i)
           /\ BackedUp(i)' = BackedUp(i)
           /\ Placed(i) => Placed(i)'
           /\ Untouched(i) => Untouched(i)'
           /\ Undone(i) => Undone(i)'
           /\ Unpublished(i) => Unpublished(i)'
           /\ Sound(i) => Sound(i)'
<1> USE MeddlingFrame
<1>1. UNCHANGED <<kind, cross, pc, tx, step, dbFaults>>
  BY DEF Meddling
<1>2. NothingAside(i)' = NothingAside(i) /\ BackedUp(i)' = BackedUp(i)
  BY <1>1 DEF NothingAside, BackedUp
<1>3. Placed(i) => Placed(i)'
  BY <1>1, <1>2 DEF Placed
<1>4. Untouched(i) => Untouched(i)'
  BY <1>1, <1>2 DEF Untouched
<1>5. Undone(i) => Undone(i)'
  BY <1>1, <1>2 DEF Undone, Blamed
<1>6. Unpublished(i) => Unpublished(i)'
  BY <1>1, <1>2 DEF Unpublished
<1>7. Sound(i) => Sound(i)'
  BY <1>1 DEF Sound, Committed
<1> QED BY <1>2, <1>3, <1>4, <1>5, <1>6, <1>7

LEMMA OthersKeep == IInv /\ Others => IInv'
<1> SUFFICES ASSUME IInv, Others PROVE IInv'
  OBVIOUS
<1>1. TypeOK' /\ TypeOK /\ Meddling
  BY TypeStep, OthersMeddle DEF IInv, Next
<1>2. UNCHANGED <<kind, cross, pc, tx, step, dbFaults>> /\ gone \subseteq gone'
  BY <1>1 DEF Meddling
<1>3. /\ Forward' = Forward /\ Handling' = Handling /\ AtJob' = AtJob
      /\ InRollback' = InRollback /\ AtRest' = AtRest /\ Committed' = Committed
      /\ Blamed' = Blamed
  BY <1>2 DEF Forward, Handling, AtJob, InRollback, AtRest, Committed, Blamed
<1>4. ASSUME NEW i \in Plans PROVE PlanOK(i)'
  <2>1. PlanOK(i)
    BY DEF IInv
  <2> QED BY <1>1, <1>2, <1>3, <2>1, MeddlingFrame, MeddlingPlan DEF PlanOK
<1>5. tx.cur \in Plans /\ tx.job \in Plans
  BY DEF IInv, TypeOK
<1>6. Forward => MovingOK(tx.cur)'
  BY <1>1, <1>2, <1>5, MeddlingFrame, MeddlingPlan DEF IInv, MovingOK, Flags
<1>7. Handling => HandlingOK(tx.cur)'
  BY <1>1, <1>2, <1>3, <1>5, MeddlingFrame, MeddlingPlan DEF IInv, HandlingOK
<1>8. AtJob => JobOK(tx.job)'
  BY <1>1, <1>2, <1>5, MeddlingFrame, MeddlingPlan DEF IInv, JobOK
<1>9. pc \in Restoring => RestoringOK(tx.job)'
  BY <1>1, <1>2, <1>5, MeddlingFrame DEF IInv, RestoringOK
<1> QED BY <1>1, <1>2, <1>3, <1>4, <1>6, <1>7, <1>8, <1>9 DEF IInv

-----------------------------------------------------------------------------
(* The invariant.                                                          *)

LEMMA InitTyped == Init => TypeOK
<1> SUFFICES ASSUME Init PROVE TypeOK
  OBVIOUS
<1>1. 1 \in Plans
  BY LocalMoveAssumption DEF Plans
<1>2. FilesOK
  <2>1. ASSUME NEW n \in Names PROVE n[2] \in Plans
    BY DEF Names, Visible, Hidden
  <2>2. \A i \in Plans : Src(i) \in Files /\ Prev(i) \in Files
    BY FileKinds
  <2>3. \A n \in Names : (IF n[1] = "source" THEN Src(n[2])
                          ELSE IF \E i \in Plans : Replaces(i) /\ n = Old(i) THEN Prev(n[2])
                          ELSE Empty) \in Files \cup {Empty}
    BY <2>1, <2>2
  <2> QED BY <2>3 DEF Init, FilesOK
<1>3. tx \in TxType
  <2>1. Empty \in Files \cup {Empty}
    OBVIOUS
  <2>2. [i \in Plans |-> Empty] \in [Plans -> Files \cup {Empty}]
    BY <2>1
  <2> QED BY <1>1, <2>2 DEF Init, TxType
<1>4. StepsOK /\ CountsOK /\ EnvOK /\ pc \in Labels
  BY LocalMoveAssumption DEF Init, StepsOK, CountsOK, EnvOK, Labels
<1> QED BY <1>2, <1>3, <1>4, TypeParts

LEMMA InitInv == Init => IInv
<1> SUFFICES ASSUME Init PROVE IInv
  OBVIOUS
<1>1. TypeOK /\ 1 \in Plans /\ Plans \subseteq Int /\ \A i \in Plans : i >= 1
  BY InitTyped, LocalMoveAssumption DEF Plans
<1>2. /\ pc = "preflight" /\ tx.cur = 1 /\ Flags(FALSE, FALSE) /\ ~tx.backup /\ ~tx.reported
      /\ tx.moved = {} /\ tx.records = {}
  BY DEF Init, Flags
<1>3. /\ Forward /\ ~Handling /\ ~InRollback /\ ~AtJob /\ ~AtRest /\ ~Committed
      /\ pc \notin Restoring
  BY <1>2 DEF Forward, Handling, Moving, Early, Cleaning, Restoring, InRollback, AtJob, Undoing,
              AtRest, Committed
<1>4. ASSUME NEW i \in Plans PROVE Untouched(i) /\ Sound(i) /\ step[i] = "none"
  <2>1. /\ Source(i) \in Names /\ Retired(i) \in Names /\ Undo(i) \in Names
        /\ Partial(i) \in Names /\ Backup(i) \in Names /\ Old(i) \in Names
    BY OwnNames DEF NamesOf
  <2>2. fs[Source(i)] = Src(i)
    BY <2>1 DEF Init, Source
  <2>3. fs[Retired(i)] = Empty /\ fs[Undo(i)] = Empty /\ fs[Partial(i)] = Empty
        /\ fs[Backup(i)] = Empty
    BY <2>1 DEF Init, Retired, Undo, Partial, Backup, Old, Target
  <2>4. Replaces(i) => fs[Old(i)] = Prev(i)
    <3>1. Old(i)[1] # "source" /\ Old(i)[2] = i
      BY DEF Old, Target
    <3> QED BY <2>1, <3>1 DEF Init
  <2>5. AtSource(i) /\ (Replaces(i) => AtOld(i))
    BY <2>2, <2>4, FileKinds DEF AtSource, AtOld, Safe, Holds
  <2> QED BY <1>2, <1>3, <2>3, <2>5 DEF Untouched, NothingAside, Sound, Init
<1>5. \A i \in Plans : PlanOK(i)
  BY <1>1, <1>2, <1>3, <1>4 DEF PlanOK
<1>6. MovingOK(1)
  BY <1>1, <1>2, <1>4 DEF MovingOK, Early, Moving
<1> QED BY <1>1, <1>2, <1>3, <1>5, <1>6 DEF IInv, Committed

LEMMA StutterKeeps == IInv /\ UNCHANGED vars => IInv'
<1> SUFFICES ASSUME IInv, UNCHANGED vars PROVE IInv'
  OBVIOUS
<1> USE DEF vars
<1>1. /\ Forward' = Forward /\ Handling' = Handling /\ AtJob' = AtJob
      /\ InRollback' = InRollback /\ AtRest' = AtRest /\ Committed' = Committed
      /\ Blamed' = Blamed
  BY DEF Forward, Handling, AtJob, InRollback, AtRest, Committed, Blamed
<1>2. TypeOK'
  BY TypeStep DEF IInv
<1>3. \A i \in Plans : Still(i) /\ Alone(i)
  BY DEF Still, Alone, env
<1>4. ASSUME NEW i \in Plans PROVE PlanOK(i)'
  <2>1. PlanOK(i)
    BY DEF IInv
  <2> QED BY <1>1, <1>3, <2>1, Frame DEF PlanOK
<1>5. tx.cur \in Plans /\ tx.job \in Plans
  BY DEF IInv, TypeOK
<1>6. Forward => MovingOK(tx.cur)'
  BY <1>3, <1>5, StillFrame DEF IInv, MovingOK, Flags, Unpublished
<1>7. Handling => HandlingOK(tx.cur)'
  BY <1>1, <1>3, <1>5, StillFrame DEF IInv, HandlingOK
<1>8. AtJob => JobOK(tx.job)'
  BY <1>3, <1>5, StillFrame DEF IInv, JobOK
<1>9. pc \in Restoring => RestoringOK(tx.job)'
  BY DEF IInv, RestoringOK, Holds, Old, Target
<1> QED BY <1>1, <1>2, <1>4, <1>6, <1>7, <1>8, <1>9 DEF IInv

LEMMA NextKeeps == IInv /\ [Next]_vars => IInv'
BY PreflightKeeps, RecordKeeps, FingerprintKeeps, BackUpKeeps, CheckBackupKeeps,
   ReplaceInPlaceKeeps, IdentifyKeeps, CopyKeeps, CopyAbandonedKeeps, PublishKeeps, VerifyKeeps,
   RetireKeeps, UnlinkRetiredKeeps, UnretireKeeps, FinishKeeps, CommitKeeps,
   CleanPartialKeeps, DropCheckKeeps, DropKeeps, RecordFailureKeeps,
   RestoreCheckKeeps, RestoreRenameKeeps, RestoreVerifyKeeps,
   UndoNextKeeps, UndoCheckKeeps, UndoRenameKeeps, UndoCopyKeeps, UndoPublishKeeps,
   UndoDropCheckKeeps, UndoDropKeeps, RecordUndoneKeeps, RecordUndoFailureKeeps,
   RestoreRestKeeps, OthersKeep, StutterKeeps
   DEF Next, Transaction, MoveOne, Handle, RestoreBackup, RollBack

\* At every instant of a transaction, whatever fails and whatever other programs do, every plan
\* is in the state its phase promises.
THEOREM Invariant == Spec => []IInv
<1>1. Init => IInv
  BY InitInv
<1>2. IInv /\ [Next]_vars => IInv'
  BY NextKeeps
<1> QED BY <1>1, <1>2, PTL DEF Spec

-----------------------------------------------------------------------------
(* What it means for the user.                                             *)

\* The state has the types that its variables promise, whatever fails.
THEOREM TypeCorrect == Spec => []TypeOK
<1>1. IInv => TypeOK
  BY DEF IInv
<1> QED BY <1>1, Invariant, PTL

\* Media is never lost on both sides: at every instant of a transaction, so at every crash of
\* it, each source and, until the commit, each old version exists under some name, unless other
\* programs destroyed it.
THEOREM MediaAlwaysPreserved == Spec => []MediaPreserved
<1>1. IInv => MediaPreserved
  <2> SUFFICES ASSUME IInv, NEW i \in Plans
               PROVE  /\ Src(i) \in gone \/ Stored(Src(i))
                      /\ \/ ~Replaces(i)
                         \/ Prev(i) \in gone \/ Stored(Prev(i))
                         \/ pc \in {"commit", "completed", "requires_manual"}
    BY DEF MediaPreserved
  <2>1. Sound(i)
    BY DEF IInv, PlanOK
  <2>2. /\ {Source(i), Target(i), Retired(i), Old(i), Backup(i)} \subseteq Names
    BY OwnNames DEF NamesOf
  <2>3. Src(i) \in gone \/ Stored(Src(i))
    BY <2>1, <2>2 DEF Sound, AtSource, AtTarget, AtRetired, Safe, Stored
  <2>4. fs[Backup(i)] = Prev(i) => Holds(Backup(i), Prev(i))
    BY FileKinds DEF Holds
  <2>5. ~Replaces(i) \/ Committed \/ Prev(i) \in gone \/ Stored(Prev(i))
    BY <2>1, <2>2, <2>4 DEF Sound, AtOld, Safe, Stored
  <2> QED BY <2>3, <2>5 DEF Committed
<1> QED BY <1>1, Invariant, PTL

\* What execute reports is what became of the files: a completed move left every source in the
\* library and nothing hidden; a failure that reports no rollback error, with the step records
\* written, left every source and every old version in its place.
THEOREM OutcomeAlwaysTrue == Spec => []OutcomeIsTrue
<1>1. IInv => CommittedMeansMoved
  <2> SUFFICES ASSUME IInv, pc \in {"completed", "requires_manual"}
               PROVE  /\ \A i \in Plans :
                           /\ Safe(Target(i), Src(i))
                           /\ fs[Source(i)] # Src(i)
                           /\ \A n \in {Partial(i), Retired(i), Undo(i)} : fs[n] = Empty
                      /\ pc = "completed" <=> \A i \in Plans : fs[Backup(i)] = Empty
    BY DEF CommittedMeansMoved
  <2>1. \A i \in Plans : /\ Placed(i) /\ Sound(i)
                         /\ i \in tx.records => fs[Backup(i)] # Empty
    BY DEF IInv, PlanOK, Committed
  <2>2. tx.records \subseteq Plans
    BY DEF IInv, TypeOK
  <2>3. pc = "completed" <=> \A i \in Plans : fs[Backup(i)] = Empty
    BY <2>1, <2>2 DEF Sound, IInv
  <2> QED BY <2>1, <2>3 DEF Placed, AtTarget, NothingAside
<1>2. IInv => FailedMeansRestored
  <2> SUFFICES ASSUME IInv, dbFaults = 0, pc = "failed", ~tx.reported, NEW i \in Plans
               PROVE  /\ Safe(Source(i), Src(i))
                      /\ Replaces(i) => Safe(Old(i), Prev(i))
                      /\ \A n \in {Retired(i), Backup(i), Undo(i)} : fs[n] = Empty
    BY DEF FailedMeansRestored, FailureIsWhole
  <2>1. AtRest /\ ~Blamed
    BY DEF AtRest, Blamed
  <2>2. Undone(i) /\ Sound(i) /\ tx.records = {}
    BY <2>1 DEF IInv, PlanOK
  <2> QED BY <2>1, <2>2 DEF Undone, Sound, AtSource, AtOld, NothingAside
<1> QED BY <1>1, <1>2, Invariant, PTL DEF OutcomeIsTrue

\* The step records are evidence: at the end a row "completed" means that the file is in the
\* library, unless a record could not be written, and "rolled_back" that it is at its source.
THEOREM StepRecordsAlwaysTrue == Spec => []StepRecordsTrue
<1>1. IInv => StepRecordsTrue
  <2> SUFFICES ASSUME IInv, NEW i \in Plans
               PROVE  /\ pc \in Ended /\ step[i] = "completed" /\ dbFaults = 0 =>
                            Safe(Target(i), Src(i))
                      /\ step[i] = "rolled_back" => Safe(Source(i), Src(i))
    BY DEF StepRecordsTrue
  <2>1. PlanOK(i)
    BY DEF IInv
  <2>2. pc \in Ended => AtRest \/ Committed
    BY DEF Ended, AtRest, Committed
  <2> QED BY <2>1, <2>2 DEF PlanOK, Undone, Placed, AtTarget, AtSource
<1> QED BY <1>1, Invariant, PTL

-----------------------------------------------------------------------------
(* The files of other programs.                                            *)

\* A transaction that only renames within one filesystem.
OnlyRenames == \A i \in Plans : ~Replaces(i) /\ ~cross[i]

\* A step of it leaves the files alone or renames one to a free name.
LEMMA RenamesToFree ==
    ASSUME IInv, OnlyRenames, Transaction
    PROVE  /\ UNCHANGED env
           /\ \/ UNCHANGED fs
              \/ \E from, to \in Names : from # to /\ fs[to] = Empty /\ Rename(from, to)
<1>1. tx.cur \in Plans /\ tx.job \in Plans /\ tx.todo \subseteq Plans /\ tx.records \subseteq Plans
  BY DEF IInv, TypeOK
<1>2. /\ ~Replaces(tx.cur) /\ ~cross[tx.cur] /\ kind[tx.cur] = "move"
      /\ ~Replaces(tx.job) /\ ~cross[tx.job]
  BY <1>1 DEF OnlyRenames, Replaces
<1>3. /\ {Source(tx.cur), Target(tx.cur), Source(tx.job), Target(tx.job)} \subseteq Names
      /\ Source(tx.cur) # Target(tx.cur) /\ Source(tx.job) # Target(tx.job)
  BY <1>1, OwnNames DEF NamesOf
<1>4. /\ Forward => MovingOK(tx.cur)
      /\ Handling => HandlingOK(tx.cur)
      /\ AtJob => JobOK(tx.job)
  BY DEF IInv
<1>5. CASE MoveOne
  <2>1. CASE Preflight \/ Record \/ Fingerprint \/ CheckBackup \/ Identify \/ Verify \/ Finish
    BY <2>1 DEF Preflight, Record, Fingerprint, CheckBackup, Identify, Verify, Finish
  <2>2. ~BackUp
    BY <1>2, <1>4 DEF BackUp, MovingOK, Forward, Moving, Early
  <2>3. ~ReplaceInPlace /\ ~Copy /\ ~CopyAbandoned
    BY <1>2 DEF ReplaceInPlace, Copy, CopyAbandoned
  <2>4. ~Retire /\ ~UnlinkRetired /\ ~Unretire
    BY <1>2, <1>4 DEF Retire, UnlinkRetired, Unretire, MovingOK, Forward, Moving
  <2>5. CASE Publish
    BY <1>2, <1>3, <2>5 DEF Publish, Call, TargetAllows
  <2> QED BY <1>5, <2>1, <2>2, <2>3, <2>4, <2>5 DEF MoveOne
<1>6. CASE Handle
  <2>1. pc \in Cleaning => Handling
    BY DEF Handling
  <2>2. CASE DropCheck \/ RecordFailure
    BY <2>2 DEF DropCheck, RecordFailure
  <2>3. CASE CleanPartial
    BY <1>2, <1>4, <2>1, <2>3 DEF CleanPartial, HandlingOK, Cleaning
  <2>4. ~Drop
    BY <1>2, <1>4, <2>1 DEF Drop, HandlingOK, Cleaning
  <2> QED BY <1>6, <2>2, <2>3, <2>4 DEF Handle
<1>7. CASE RestoreBackup
  <2>1. pc \in Restoring => Replaces(tx.job)
    BY BackupAtHand
  <2> QED BY <1>2, <1>7, <2>1 DEF RestoreBackup, RestoreCheck, RestoreRename, RestoreVerify, Restoring
<1>8. CASE RollBack
  <2>1. CASE UndoNext \/ UndoCheck \/ UndoDropCheck \/ RecordUndone \/ RecordUndoFailure \/ RestoreRest
    BY <2>1 DEF UndoNext, UndoCheck, UndoDropCheck, RecordUndone, RecordUndoFailure, RestoreRest
  <2>2. CASE UndoRename
    BY <1>3, <2>2 DEF UndoRename, Call
  <2>3. ~UndoCopy /\ ~UndoPublish /\ ~UndoDrop
    BY <1>2, <1>4 DEF UndoCopy, UndoPublish, UndoDrop, JobOK, AtJob, Undoing
  <2> QED BY <1>8, <2>1, <2>2, <2>3 DEF RollBack
<1>9. CASE Commit
  <2>1. pc = "commit" /\ tx.todo \subseteq tx.records
    BY <1>9 DEF Commit, IInv
  <2>2. \A i \in Plans : i \notin tx.records
    BY DEF OnlyRenames, IInv, PlanOK, Sound
  <2>3. tx.todo = {}
    BY <1>1, <2>1, <2>2
  <2> QED BY <1>9, <2>3 DEF Commit
<1> QED BY <1>5, <1>6, <1>7, <1>8, <1>9 DEF Transaction

\* Such a step keeps every content.
LEMMA RenameStores ==
    ASSUME NEW from \in Names, NEW to \in Names, from # to, fs[to] = Empty, Rename(from, to),
           FilesOK, NEW c, Stored(c)
    PROVE  Stored(c)'
<1>1. PICK n \in Names : Holds(n, c)
  BY DEF Stored
<1>2. n # to
  BY <1>1 DEF Holds
<1>3. /\ fs'[to] = fs[from]
      /\ \A m \in Names \ {from, to} : fs'[m] = fs[m]
  BY DEF Rename, FilesOK
<1>4. CASE n = from
  BY <1>1, <1>3, <1>4 DEF Stored, Holds
<1>5. CASE n # from
  BY <1>1, <1>2, <1>3, <1>5 DEF Stored, Holds
<1> QED BY <1>4, <1>5

\* A file that another program creates during a move within one filesystem that replaces nothing
\* is neither overwritten nor deleted by it, even where the two race for a name.
THEOREM ForeignAlwaysPreserved == Spec => []ForeignPreserved
<1>1. Init => ForeignPreserved
  BY DEF Init, ForeignPreserved
<1>2. IInv /\ ForeignPreserved /\ [Next]_vars => ForeignPreserved'
  <2> SUFFICES ASSUME IInv, ForeignPreserved, [Next]_vars, OnlyRenames', NEW f \in made'
               PROVE  f \in gone' \/ Stored(f)'
    BY DEF ForeignPreserved, OnlyRenames, Replaces
  <2>0. TypeOK /\ FilesOK
    BY DEF IInv, TypeOK, FilesOK
  <2>1. CASE Transaction
    <3>1. UNCHANGED env
      <4>1. UNCHANGED <<kind, cross>>
        BY <2>1 DEF env, Transaction, MoveOne, Handle, RestoreBackup, RollBack, Preflight, Record,
           Fingerprint, BackUp, CheckBackup, ReplaceInPlace, Identify, Copy, CopyAbandoned, Publish,
           Verify, Retire, UnlinkRetired, Unretire, Finish, Commit, CleanPartial, DropCheck, Drop,
           RecordFailure, RestoreCheck, RestoreRename, RestoreVerify, UndoNext, UndoCheck,
           UndoRename, UndoCopy, UndoPublish, UndoDropCheck, UndoDrop, RecordUndone,
           RecordUndoFailure, RestoreRest
      <4>2. OnlyRenames
        BY <4>1 DEF OnlyRenames, Replaces
      <4> QED BY <2>1, <4>2, RenamesToFree
    <3>2. OnlyRenames
      BY <3>1 DEF OnlyRenames, Replaces, env
    <3>3. f \in made /\ (f \in gone \/ Stored(f))
      BY <3>1, <3>2 DEF ForeignPreserved, OnlyRenames, env
    <3>4. CASE UNCHANGED fs
      BY <3>1, <3>3, <3>4 DEF Stored, Holds, env
    <3>5. ASSUME NEW from \in Names, NEW to \in Names, from # to, fs[to] = Empty, Rename(from, to)
          PROVE  f \in gone' \/ Stored(f)'
      BY <2>0, <3>1, <3>3, <3>5, RenameStores DEF env
    <3> QED BY <2>1, <3>2, <3>4, <3>5, RenamesToFree
  <2>2. CASE Others
    <3>1. Meddling
      BY <2>0, <2>2, OthersMeddle
    <3>2. OnlyRenames
      BY <3>1 DEF OnlyRenames, Replaces, Meddling
    <3>3. ASSUME f \in made PROVE f \in gone' \/ Stored(f)'
      <4>1. f \in gone \/ Stored(f)
        BY <3>2, <3>3 DEF ForeignPreserved, OnlyRenames
      <4>2. CASE f \in gone
        BY <3>1, <4>2 DEF Meddling
      <4>3. ASSUME NEW m \in Names, Holds(m, f) PROVE f \in gone' \/ Stored(f)'
        BY <3>1, <4>3 DEF Meddling, Stored, Holds
      <4> QED BY <4>1, <4>2, <4>3 DEF Stored
    <3>4. ASSUME f \notin made PROVE Stored(f)'
      <4>1. PICK n \in Visible, k \in Foreigners : Create(n, k) /\ f = Ext(k)
        BY <2>2, <3>4 DEF Others, Create, Delete
      <4>2. n \in Names /\ fs'[n] = Ext(k)
        BY <2>0, <4>1 DEF Create, FilesOK, Names
      <4>3. Ext(k) # Empty /\ Content(Ext(k)) = Ext(k)
        BY DEF Ext, Empty, Content
      <4> QED BY <4>1, <4>2, <4>3 DEF Stored, Holds
    <3> QED BY <3>3, <3>4
  <2>3. CASE UNCHANGED vars
    BY <2>3 DEF vars, ForeignPreserved, OnlyRenames, Replaces, Stored, Holds
  <2> QED BY <2>1, <2>2, <2>3 DEF Next
<1> QED BY <1>1, <1>2, Invariant, PTL DEF Spec
=============================================================================
