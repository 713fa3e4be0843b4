----------------------------- MODULE LocalMove -----------------------------
(***************************************************************************)
(* One local-media move transaction: a list of plans, each of which brings *)
(* a source file into the library, by a rename on one filesystem or by     *)
(* copy, verification and retirement of the source across two, and may     *)
(* replace an old version, in place or under another name.  Every call on  *)
(* the file system is a step of its own, any of them may fail, and other   *)
(* programs create, replace and remove visible files in between.  Hidden   *)
(* names carry the operation token: nobody else touches them.              *)
(*                                                                         *)
(* A file is identified by (size, mtime, device, inode): a rename keeps    *)
(* the identity, a copy has a new one with the same content.               *)
(***************************************************************************)
EXTENDS Integers, FiniteSets

CONSTANTS
    N,           \* number of plans, executed in the order 1 .. N
    Shapes,      \* the <<kind, cross>> pairs that plans may have
    Foreigners,  \* files other programs may create, each once
    MaxFaults,   \* bound: failing calls on the file system
    MaxDbFaults, \* bound: failing writes of the step records
    MaxRemovals  \* bound: files other programs remove

Plans == 1 .. N
Kinds == {"move", "replace_same", "replace_other"}

ASSUME LocalMoveAssumption ==
    /\ N \in Nat \ {0}
    /\ Shapes \subseteq Kinds \X BOOLEAN
    /\ MaxFaults \in Nat
    /\ MaxDbFaults \in Nat
    /\ MaxRemovals \in Nat

VARIABLES
    kind,    \* the action of each plan; a replacement is in place or not
    cross,   \* whether its source and target are on two filesystems
    fs,      \* which file each name holds
    pc,      \* the next call of the transaction
    tx,      \* the transaction's own variables:
             \*   cur       the plan that _move_one is moving
             \*   partial   its local variable "partial" is set
             \*   created   its target_created, of a cross-filesystem move
             \*   backup    its local variable "backup" is set
             \*   pub       published_identity, by plan
             \*   moved     _moved
             \*   records   _replaced_backups
             \*   todo      entries a loop of rollback or commit has still to visit
             \*   job       the entry being visited
             \*   ret       who asked for the restoration of the job's backup
             \*   reported  rollback_errors is not empty
    step,    \* status of each plan's local_media_operation_steps row
    made,    \* files that other programs created
    gone,    \* contents of which other programs destroyed a copy
    faults, dbFaults, removals

vars == <<kind, cross, fs, pc, tx, step, made, gone, faults, dbFaults, removals>>
env  == <<kind, cross, made, gone, removals>>

-----------------------------------------------------------------------------
\* Names.
Source(i)  == <<"source", i>>
Target(i)  == <<"target", i>>
Old(i)     == IF kind[i] = "replace_other" THEN <<"old", i>> ELSE Target(i)
Partial(i) == <<"partial", i>>    \* .mediaflux-partial-<token>
Retired(i) == <<"retired", i>>    \* .mediaflux-retire-<token>
Backup(i)  == <<"backup", i>>     \* .mediaflux-replaced-<token>
Undo(i)    == <<"undo", i>>       \* .mediaflux-rollback-<token>

Visible == {"source", "target", "old"} \X Plans
Hidden  == {"partial", "retired", "backup", "undo"} \X Plans
Names   == Visible \cup Hidden

\* Files; a copy has the content of the source.
Empty       == <<"empty", 0>>
Src(i)      == <<"src", i>>
Prev(i)     == <<"prev", i>>
Copied(i)   == <<"copy", i>>
Recopied(i) == <<"recopy", i>>
Ext(k)      == <<"ext", k>>

Files == ({"src", "prev", "copy", "recopy"} \X Plans) \cup ({"ext"} \X Foreigners)

Content(f)  == IF f[1] \in {"copy", "recopy"} THEN Src(f[2]) ELSE f
Holds(n, c) == fs[n] # Empty /\ Content(fs[n]) = c
Stored(c)   == \E n \in Names : Holds(n, c)

Replaces(i) == kind[i] # "move"
Ended == {"completed", "requires_manual", "failed"}

\* rename(2): a file at "to" is overwritten.
Rename(from, to) == fs' = [fs EXCEPT ![to] = fs[from], ![from] = Empty]
Remove(n)        == fs' = [fs EXCEPT ![n] = Empty]

\* A call may succeed when "can" holds; when "sure" holds it fails only for
\* reasons outside the model (an I/O error, a disk that is full).
Call(can, sure, ok) ==
    /\ ok => can
    /\ ~ok /\ sure => faults < MaxFaults
    /\ faults' = IF ~ok /\ sure THEN faults + 1 ELSE faults
    /\ UNCHANGED dbFaults

\* A write of a step record.
DbCall(ok) ==
    /\ ~ok => dbFaults < MaxDbFaults
    /\ dbFaults' = IF ok THEN dbFaults ELSE dbFaults + 1
    /\ UNCHANGED faults

Goto(l, t) == pc' = l /\ tx' = t
Reported(t) == [t EXCEPT !.reported = TRUE]

\* Mutant: the entry of the plan that failed is left out.
RollbackEarlier(t) == Goto("undo_next", [t EXCEPT !.todo = t.moved \ {t.cur}])

\* _execute_locked's handler: rollback visits _moved from the last entry.
Rollback(t) == Goto("undo_next", [t EXCEPT !.todo = t.moved])

-----------------------------------------------------------------------------
\* The preview that planned the transaction saw the sources and old versions.
Init ==
    /\ kind \in [Plans -> Kinds]
    /\ cross \in [Plans -> BOOLEAN]
    /\ \A i \in Plans : <<kind[i], cross[i]>> \in Shapes
    /\ fs = [n \in Names |->
               IF n[1] = "source" THEN Src(n[2])
               ELSE IF \E i \in Plans : Replaces(i) /\ n = Old(i) THEN Prev(n[2])
               ELSE Empty]
    /\ pc = "preflight"
    /\ tx = [cur |-> 1, partial |-> FALSE, created |-> FALSE, backup |-> FALSE,
             pub |-> [i \in Plans |-> Empty], moved |-> {}, records |-> {},
             todo |-> {}, job |-> 1, ret |-> "inner", reported |-> FALSE]
    /\ step = [i \in Plans |-> "none"]
    /\ made = {}
    /\ gone = {}
    /\ faults = 0
    /\ dbFaults = 0
    /\ removals = 0

\* Other programs: the download client, a file manager, a media manager.
Create(n, k) ==
    /\ pc \notin Ended
    /\ Ext(k) \notin made
    /\ made' = made \cup {Ext(k)}
    /\ fs' = [fs EXCEPT ![n] = Ext(k)]
    /\ gone' = gone \cup ({Content(fs[n])} \ {Empty})
    /\ UNCHANGED <<kind, cross, pc, tx, step, faults, dbFaults, removals>>

Delete(n) ==
    /\ pc \notin Ended
    /\ fs[n] # Empty
    /\ removals < MaxRemovals
    /\ Remove(n)
    /\ gone' = gone \cup {Content(fs[n])}
    /\ removals' = removals + 1
    /\ UNCHANGED <<kind, cross, pc, tx, step, made, faults, dbFaults>>

-----------------------------------------------------------------------------
\* _move_one, up to the "try": a failure here has nothing of its own to undo.

\* Source, target and old version are what the preview saw.
Preflight ==
    LET i == tx.cur
        good == /\ fs[Source(i)] = Src(i)
                /\ kind[i] # "replace_same" => fs[Target(i)] = Empty
                /\ Replaces(i) => fs[Old(i)] = Prev(i)
    IN
    /\ pc = "preflight"
    /\ \E ok \in BOOLEAN :
        /\ Call(good, good, ok)
        /\ IF ok THEN Goto("record", tx) ELSE Rollback(tx)
    /\ UNCHANGED <<fs, step, env>>

\* _record_step.
Record ==
    /\ pc = "record"
    /\ \E ok \in BOOLEAN :
        /\ DbCall(ok)
        /\ IF ok THEN /\ Goto("fingerprint", tx)
                      /\ step' = [step EXCEPT ![tx.cur] = "running"]
                 ELSE Rollback(tx) /\ UNCHANGED step
    /\ UNCHANGED <<fs, env>>

\* The source is opened, compared with the snapshot and fingerprinted.
Fingerprint ==
    LET good == fs[Source(tx.cur)] = Src(tx.cur) IN
    /\ pc = "fingerprint"
    /\ \E ok \in BOOLEAN :
        /\ Call(good, good, ok)
        /\ IF ok THEN Goto(IF Replaces(tx.cur) THEN "backup" ELSE "publish", tx)
                 ELSE Rollback(tx)
    /\ UNCHANGED <<fs, step, env>>

-----------------------------------------------------------------------------
\* _backup_replaced_target.

BackUp ==
    LET i == tx.cur IN
    /\ pc = "backup"
    /\ \E ok \in BOOLEAN :
        /\ Call(fs[Old(i)] # Empty, fs[Old(i)] = Prev(i), ok)
        /\ IF ok THEN /\ Rename(Old(i), Backup(i))
                      /\ Goto("check_backup", [tx EXCEPT !.records = @ \cup {i}])
                 ELSE Goto("clean", tx) /\ UNCHANGED fs
    /\ UNCHANGED <<step, env>>

\* A backup that is not the expected file, or that cannot be read, is put back
\* at once; an error of that attempt is left to the rollback.
CheckBackup ==
    LET good == fs[Backup(tx.cur)] = Prev(tx.cur) IN
    /\ pc = "check_backup"
    /\ \E ok \in BOOLEAN :
        /\ Call(good, good, ok)
        /\ IF ok THEN Goto("publish", [tx EXCEPT !.backup = TRUE])
                 ELSE Goto("restore", [tx EXCEPT !.job = tx.cur, !.ret = "inner"])
    /\ UNCHANGED <<fs, step, env>>

-----------------------------------------------------------------------------
\* Publication on one filesystem consumes the source's directory entry, and is
\* registered for rollback at once.

\* os.replace over the place of the version that was just backed up.
ReplaceInPlace ==
    LET i == tx.cur IN
    /\ pc = "publish"
    /\ ~cross[i] /\ kind[i] = "replace_same"
    /\ \E ok \in BOOLEAN :
        /\ Call(fs[Source(i)] # Empty, fs[Source(i)] # Empty, ok)
        /\ IF ok THEN /\ Rename(Source(i), Target(i))
                      /\ Goto("verify", [tx EXCEPT !.pub[i] = Src(i),
                                                   !.moved = @ \cup {i}])
                 ELSE Goto("clean", tx) /\ UNCHANGED fs
    /\ UNCHANGED <<step, env>>

\* _publish_no_replace reads the identity of what it is about to rename.
Identify ==
    LET i == tx.cur IN
    /\ pc = "publish"
    /\ ~cross[i] /\ kind[i] # "replace_same"
    /\ \E ok \in BOOLEAN :
        /\ Call(fs[Source(i)] # Empty, fs[Source(i)] # Empty, ok)
        /\ IF ok THEN Goto("rename", [tx EXCEPT !.pub[i] = fs[Source(i)]])
                 ELSE Goto("clean", tx)
    /\ UNCHANGED <<fs, step, env>>

\* _copy_to_partial: the copy is complete and verified, or it is not kept.
Copy ==
    LET i == tx.cur
        good == fs[Source(i)] = Src(i)
    IN
    /\ pc = "publish"
    /\ cross[i]
    /\ \E ok \in BOOLEAN :
        /\ Call(good, good, ok)
        /\ IF ok THEN /\ fs' = [fs EXCEPT ![Partial(i)] = Copied(i)]
                      /\ Goto("rename", [tx EXCEPT !.partial = TRUE,
                                                   !.pub[i] = Copied(i)])
                 ELSE Goto("clean", tx) /\ UNCHANGED fs
    /\ UNCHANGED <<step, env>>

\* The copy fails and so does the removal of what was copied.
CopyAbandoned ==
    LET i == tx.cur IN
    /\ pc = "publish"
    /\ cross[i]
    /\ faults + 2 <= MaxFaults
    /\ faults' = faults + 2
    /\ fs' = [fs EXCEPT ![Partial(i)] = Copied(i)]
    /\ Goto("clean", tx)
    /\ UNCHANGED <<step, env, dbFaults>>

\* Mutant: publication overwrites.
MayOverwrite(i) == TRUE

\* Only a copy that replaces in place is published with os.replace.
TargetAllows(i) == kind[i] # "replace_same" => fs[Target(i)] = Empty

\* Mutant: a rename is registered for rollback only after its verification.
PublishedUnregistered(i) == [tx EXCEPT !.partial = FALSE, !.created = TRUE]

\* A rename has consumed the source: it is registered before anything can fail.
Published(i) ==
    IF cross[i] THEN [tx EXCEPT !.partial = FALSE, !.created = TRUE]
                ELSE [tx EXCEPT !.moved = @ \cup {i}]

\* renameat2(RENAME_NOREPLACE), or os.replace.
Publish ==
    LET i    == tx.cur
        from == IF cross[i] THEN Partial(i) ELSE Source(i)
        can  == fs[from] # Empty /\ TargetAllows(i)
    IN
    /\ pc = "rename"
    /\ \E ok \in BOOLEAN :
        /\ Call(can, can, ok)
        /\ IF ok THEN /\ Rename(from, Target(i))
                      /\ Goto("verify", Published(i))
                 ELSE Goto("clean", tx) /\ UNCHANGED fs
    /\ UNCHANGED <<step, env>>

\* The target is what was published, and that is the snapshot's file.
Verify ==
    LET i    == tx.cur
        good == fs[Target(i)] = tx.pub[i] /\ (cross[i] \/ tx.pub[i] = Src(i))
    IN
    /\ pc = "verify"
    /\ \E ok \in BOOLEAN :
        /\ Call(good, good, ok)
        /\ Goto(IF ~ok THEN "clean" ELSE IF cross[i] THEN "retire" ELSE "finish", tx)
    /\ UNCHANGED <<fs, step, env>>

-----------------------------------------------------------------------------
\* _retire_copied_source: the source goes to a hidden name, is compared once
\* more with the snapshot there, and is removed.

Retire ==
    LET i == tx.cur IN
    /\ pc = "retire"
    /\ \E ok \in BOOLEAN :
        /\ Call(fs[Source(i)] # Empty, fs[Source(i)] = Src(i), ok)
        /\ IF ok THEN Rename(Source(i), Retired(i)) /\ Goto("unlink_retired", tx)
                 ELSE Goto("clean", tx) /\ UNCHANGED fs
    /\ UNCHANGED <<step, env>>

UnlinkRetired ==
    LET i == tx.cur
        good == fs[Retired(i)] = Src(i)
    IN
    /\ pc = "unlink_retired"
    /\ \E ok \in BOOLEAN :
        /\ Call(good, good, ok)
        /\ IF ok THEN /\ Remove(Retired(i))
                      /\ Goto("finish", [tx EXCEPT !.moved = @ \cup {i}])
                 ELSE Goto("unretire", tx) /\ UNCHANGED fs
    /\ UNCHANGED <<step, env>>

\* Only the snapshot's file goes back, and over nothing.
Unretire ==
    LET i == tx.cur
        good == fs[Retired(i)] = Src(i) /\ fs[Source(i)] = Empty
    IN
    /\ pc = "unretire"
    /\ \E ok \in BOOLEAN :
        /\ Call(good, good, ok)
        /\ IF ok THEN Rename(Retired(i), Source(i)) /\ Goto("clean", tx)
                 ELSE Goto("clean", Reported(tx)) /\ UNCHANGED fs
    /\ UNCHANGED <<step, env>>

\* Mutant: one plan too many.
IsPastLast(i) == i > N

IsLast(i) == i = N

\* The plan is done: its record is completed and the next one begins; after the
\* last one the backups are removed.
Finish ==
    LET i == tx.cur IN
    /\ pc = "finish"
    /\ \E ok \in BOOLEAN :
        /\ DbCall(ok)
        /\ IF ok
           THEN /\ step' = [step EXCEPT ![i] = "completed"]
                /\ IF IsLast(i)
                   THEN Goto("commit", [tx EXCEPT !.todo = tx.records])
                   ELSE Goto("preflight", [tx EXCEPT !.cur = i + 1, !.created = FALSE,
                                                     !.backup = FALSE])
           ELSE Goto("clean", tx) /\ UNCHANGED step
    /\ UNCHANGED <<fs, env>>

FinalStatus(t) == IF t.records = {} THEN "completed" ELSE "requires_manual"

\* A backup that cannot be removed is a warning: the move is not undone.
Commit ==
    /\ pc = "commit"
    /\ \/ \E j \in tx.todo, ok \in BOOLEAN :
            /\ Call(fs[Backup(j)] \in {Prev(j), Empty}, TRUE, ok)
            /\ IF ok THEN /\ Remove(Backup(j))
                          /\ Goto("commit", [tx EXCEPT !.todo = @ \ {j},
                                                       !.records = @ \ {j}])
                     ELSE Goto("commit", [tx EXCEPT !.todo = @ \ {j}]) /\ UNCHANGED fs
       \/ /\ tx.todo = {}
          /\ Goto(FinalStatus(tx), tx)
          /\ UNCHANGED <<fs, faults, dbFaults>>
    /\ UNCHANGED <<step, env>>

-----------------------------------------------------------------------------
\* _move_one's handler.

\* Then, when the plan was not registered for rollback, its backup goes back.
RestoreOwn(t) ==
    IF t.cur \notin t.moved /\ t.backup
    THEN Goto("restore", [t EXCEPT !.job = t.cur, !.ret = "clean"])
    ELSE Goto("record_failure", t)

\* The published copy of a plan that was not registered for rollback goes,
\* unless the source could not be put back.
CleanPartial ==
    /\ pc = "clean"
    /\ \/ /\ ~tx.partial
          /\ Goto("drop_check", tx)
          /\ UNCHANGED <<fs, faults, dbFaults>>
       \/ /\ tx.partial
          /\ \E ok \in BOOLEAN :
                /\ Call(TRUE, TRUE, ok)
                /\ IF ok THEN Remove(Partial(tx.cur)) /\ Goto("drop_check", tx)
                         ELSE Goto("drop_check", Reported(tx)) /\ UNCHANGED fs
    /\ UNCHANGED <<step, env>>

\* _unlink_owned compares the identity, then removes whatever has the name.
DropCheck ==
    LET i == tx.cur IN
    /\ pc = "drop_check"
    /\ IF tx.created /\ i \notin tx.moved /\ ~tx.reported
       THEN \E ok \in BOOLEAN :
              /\ Call(fs[Target(i)] \in {tx.pub[i], Empty},
                      fs[Target(i)] \in {tx.pub[i], Empty}, ok)
              /\ IF ok /\ fs[Target(i)] # Empty THEN Goto("drop", tx)
                 ELSE RestoreOwn(IF ok THEN tx ELSE Reported(tx))
       ELSE RestoreOwn(tx) /\ UNCHANGED <<faults, dbFaults>>
    /\ UNCHANGED <<fs, step, env>>

Drop ==
    LET i == tx.cur IN
    /\ pc = "drop"
    /\ \E ok \in BOOLEAN :
        /\ Call(fs[Target(i)] # Empty, fs[Target(i)] # Empty, ok)
        /\ IF ok THEN Remove(Target(i)) /\ RestoreOwn(tx)
                 ELSE RestoreOwn(Reported(tx)) /\ UNCHANGED fs
    /\ UNCHANGED <<step, env>>

\* _finish_step(failed): when it raises, its exception replaces the one that
\* carries rollback_errors.
RecordFailure ==
    /\ pc = "record_failure"
    /\ \E ok \in BOOLEAN :
        /\ DbCall(ok)
        /\ IF ok THEN /\ step' = [step EXCEPT ![tx.cur] = "failed"]
                      /\ Rollback(tx)
                 ELSE /\ Rollback([tx EXCEPT !.reported = FALSE])
                      /\ UNCHANGED step
    /\ UNCHANGED <<fs, env>>

-----------------------------------------------------------------------------
\* _restore_replaced_backup of the job, for whoever asked.

Restored(t) ==
    CASE t.ret = "inner" -> Goto("clean", t)
      [] t.ret = "clean" -> Goto("record_failure", t)
      [] t.ret = "item"  -> Goto("record_undone", t)
      [] t.ret = "rest"  -> Goto("rest", [t EXCEPT !.todo = @ \ {t.job}])

NotRestored(t) ==
    CASE t.ret = "inner" -> Goto("clean", t)
      [] t.ret = "clean" -> Goto("record_failure", Reported(t))
      [] t.ret = "item"  -> Goto("record_undo_failure", Reported(t))
      [] t.ret = "rest"  -> Goto("rest", [Reported(t) EXCEPT !.todo = @ \ {t.job}])

RestoreCheck ==
    LET j == tx.job
        good == fs[Backup(j)] = Prev(j) /\ fs[Old(j)] = Empty
    IN
    /\ pc = "restore"
    /\ \E ok \in BOOLEAN :
        /\ Call(good, good, ok)
        /\ IF ok THEN Goto("restore_rename", tx) ELSE NotRestored(tx)
    /\ UNCHANGED <<fs, step, env>>

\* os.replace over a name that was free when it was looked at.
RestoreRename ==
    LET j == tx.job IN
    /\ pc = "restore_rename"
    /\ \E ok \in BOOLEAN :
        /\ Call(TRUE, TRUE, ok)
        /\ IF ok THEN Rename(Backup(j), Old(j)) /\ Goto("restore_verify", tx)
                 ELSE NotRestored(tx) /\ UNCHANGED fs
    /\ UNCHANGED <<step, env>>

RestoreVerify ==
    LET j == tx.job
        good == fs[Old(j)] = Prev(j)
    IN
    /\ pc = "restore_verify"
    /\ \E ok \in BOOLEAN :
        /\ Call(good, good, ok)
        /\ IF ok THEN Restored([tx EXCEPT !.records = @ \ {j}]) ELSE NotRestored(tx)
    /\ UNCHANGED <<fs, step, env>>

-----------------------------------------------------------------------------
\* rollback, entry by entry.

\* Backups whose plan is not in _moved, or whose restoration failed before.
Leftovers(t) == t.records

UndoNext ==
    /\ pc = "undo_next"
    /\ IF tx.todo = {}
       THEN Goto("rest", [tx EXCEPT !.todo = Leftovers(tx)])
       ELSE \E j \in tx.todo :
                /\ \A k \in tx.todo : k <= j
                /\ Goto("undo", [tx EXCEPT !.job = j])
    /\ UNCHANGED <<fs, step, env, faults, dbFaults>>

\* After _restore_one the old version that the entry replaced goes back.
SourceBack(t) ==
    IF t.job \in t.records THEN Goto("restore", [t EXCEPT !.ret = "item"])
                           ELSE Goto("record_undone", t)

\* Mutant: the record says rolled back.
RecordedAsUndone(t) == Goto("record_undone", Reported(t))

SourceNotBack(t) == Goto("record_undo_failure", Reported(t))

\* _restore_one: what is at the target must be what was published, and the
\* source's place must be free.
UndoCheck ==
    LET j == tx.job
        done == fs[Target(j)] = Empty /\ fs[Source(j)] # Empty
        good == done \/ (fs[Target(j)] = tx.pub[j] /\ fs[Source(j)] = Empty
                          /\ tx.pub[j] # Empty)
    IN
    /\ pc = "undo"
    /\ \E ok \in BOOLEAN :
        /\ Call(good, good, ok)
        /\ IF ~ok THEN SourceNotBack(tx)
           ELSE IF done THEN SourceBack(tx)
           ELSE Goto(IF cross[j] THEN "undo_copy" ELSE "undo_rename", tx)
    /\ UNCHANGED <<fs, step, env>>

\* RENAME_NOREPLACE back to the source, whose identity is then compared.
UndoRename ==
    LET j == tx.job
        can == fs[Target(j)] # Empty /\ fs[Source(j)] = Empty
    IN
    /\ pc = "undo_rename"
    /\ \E ok \in BOOLEAN :
        /\ Call(can, can, ok)
        /\ IF ok THEN /\ Rename(Target(j), Source(j))
                      /\ IF fs[Target(j)] = tx.pub[j] THEN SourceBack(tx)
                                                      ELSE SourceNotBack(tx)
                 ELSE SourceNotBack(tx) /\ UNCHANGED fs
    /\ UNCHANGED <<step, env>>

UndoCopy ==
    LET j == tx.job
        good == fs[Target(j)] = tx.pub[j]
    IN
    /\ pc = "undo_copy"
    /\ \E ok \in BOOLEAN :
        /\ Call(good, good, ok)
        /\ IF ok THEN /\ fs' = [fs EXCEPT ![Undo(j)] = Recopied(j)]
                      /\ Goto("undo_publish", tx)
                 ELSE SourceNotBack(tx) /\ UNCHANGED fs
    /\ UNCHANGED <<step, env>>

\* When the source's place is taken the copy is removed again.
UndoPublish ==
    LET j == tx.job
        can == fs[Source(j)] = Empty
    IN
    /\ pc = "undo_publish"
    /\ \E ok \in BOOLEAN :
        /\ Call(can, can, ok)
        /\ IF ok THEN Rename(Undo(j), Source(j)) /\ Goto("undo_drop_check", tx)
                 ELSE Remove(Undo(j)) /\ SourceNotBack(tx)
    /\ UNCHANGED <<step, env>>

UndoDropCheck ==
    LET j == tx.job
        good == fs[Target(j)] \in {tx.pub[j], Empty}
    IN
    /\ pc = "undo_drop_check"
    /\ \E ok \in BOOLEAN :
        /\ Call(good, good, ok)
        /\ IF ~ok THEN SourceNotBack(tx)
           ELSE IF fs[Target(j)] = Empty THEN SourceBack(tx)
           ELSE Goto("undo_drop", tx)
    /\ UNCHANGED <<fs, step, env>>

UndoDrop ==
    LET j == tx.job
        can == fs[Target(j)] # Empty
    IN
    /\ pc = "undo_drop"
    /\ \E ok \in BOOLEAN :
        /\ Call(can, can, ok)
        /\ IF ok THEN Remove(Target(j)) /\ SourceBack(tx)
                 ELSE SourceNotBack(tx) /\ UNCHANGED fs
    /\ UNCHANGED <<step, env>>

Visited(t) == Goto("undo_next", [t EXCEPT !.todo = @ \ {t.job}])

RecordUndone ==
    /\ pc = "record_undone"
    /\ \E ok \in BOOLEAN :
        /\ DbCall(ok)
        /\ IF ok THEN /\ step' = [step EXCEPT ![tx.job] = "rolled_back"]
                      /\ Visited(tx)
                 ELSE SourceNotBack(tx) /\ UNCHANGED step
    /\ UNCHANGED <<fs, env>>

\* When this record cannot be written the exception leaves rollback, the other
\* entries are not visited and the errors collected so far are dropped.
RecordUndoFailure ==
    /\ pc = "record_undo_failure"
    /\ \E ok \in BOOLEAN :
        /\ DbCall(ok)
        /\ IF ok THEN /\ step' = [step EXCEPT ![tx.job] = "failed"]
                      /\ Visited(tx)
                 ELSE /\ Goto("failed", [tx EXCEPT !.reported = FALSE])
                      /\ UNCHANGED step
    /\ UNCHANGED <<fs, env>>

RestoreRest ==
    /\ pc = "rest"
    /\ IF tx.todo = {} THEN Goto("failed", tx)
       ELSE \E j \in tx.todo : Goto("restore", [tx EXCEPT !.job = j, !.ret = "rest"])
    /\ UNCHANGED <<fs, step, env, faults, dbFaults>>

-----------------------------------------------------------------------------
MoveOne ==
    \/ Preflight \/ Record \/ Fingerprint
    \/ BackUp \/ CheckBackup
    \/ ReplaceInPlace \/ Identify \/ Copy \/ CopyAbandoned \/ Publish \/ Verify
    \/ Retire \/ UnlinkRetired \/ Unretire
    \/ Finish

Handle == CleanPartial \/ DropCheck \/ Drop \/ RecordFailure

RestoreBackup == RestoreCheck \/ RestoreRename \/ RestoreVerify

RollBack ==
    \/ UndoNext \/ UndoCheck \/ UndoRename
    \/ UndoCopy \/ UndoPublish \/ UndoDropCheck \/ UndoDrop
    \/ RecordUndone \/ RecordUndoFailure \/ RestoreRest

Transaction == MoveOne \/ Commit \/ Handle \/ RestoreBackup \/ RollBack

Others ==
    \/ \E n \in Visible, k \in Foreigners : Create(n, k)
    \/ \E n \in Visible : Delete(n)

Next == Transaction \/ Others

Spec == Init /\ [][Next]_vars

-----------------------------------------------------------------------------
Labels ==
    {"preflight", "record", "fingerprint", "backup", "check_backup", "publish",
     "rename", "verify", "retire", "unlink_retired", "unretire", "finish", "commit",
     "clean", "drop_check", "drop", "record_failure", "restore", "restore_rename",
     "restore_verify", "undo_next", "undo", "undo_rename", "undo_copy",
     "undo_publish", "undo_drop_check", "undo_drop", "record_undone",
     "record_undo_failure", "rest"} \cup Ended

TypeOK ==
    /\ kind \in [Plans -> Kinds]
    /\ cross \in [Plans -> BOOLEAN]
    /\ fs \in [Names -> Files \cup {Empty}]
    /\ pc \in Labels
    /\ tx \in [cur : Plans, partial : BOOLEAN, created : BOOLEAN, backup : BOOLEAN,
               pub : [Plans -> Files \cup {Empty}], moved : SUBSET Plans,
               records : SUBSET Plans, todo : SUBSET Plans, job : Plans,
               ret : {"inner", "clean", "item", "rest"}, reported : BOOLEAN]
    /\ step \in [Plans -> {"none", "running", "completed", "failed", "rolled_back"}]
    /\ made \subseteq Files
    /\ gone \subseteq Files
    /\ faults \in 0 .. MaxFaults
    /\ dbFaults \in 0 .. MaxDbFaults
    /\ removals \in 0 .. MaxRemovals

\* Safe(n, c): the content is under that name, unless others destroyed a copy.
Safe(n, c) == c \in gone \/ Holds(n, c)

\* "Never lost on both sides" (docs, move transaction): at every instant, so at
\* every crash, each source and each old version exists under some name, until
\* the transaction commits and gives up the old versions.
MediaPreserved ==
    \A i \in Plans :
        /\ Src(i) \in gone \/ Stored(Src(i))
        /\ \/ ~Replaces(i)
           \/ Prev(i) \in gone \/ Stored(Prev(i))
           \/ pc \in {"commit", "completed", "requires_manual"}

\* A file that another program created meanwhile is neither overwritten nor
\* deleted by a transaction that only renames within one filesystem.  (A
\* replacement in place, and the removal of a copy that is given up, check the
\* name first and act on it in a second call.)
ForeignPreserved ==
    (\A i \in Plans : ~Replaces(i) /\ ~cross[i]) => \A f \in made : f \in gone \/ Stored(f)

\* A failure without rollback_errors is a complete rollback: _execute_task lets
\* the download client resume on the strength of it.
FailureIsWhole ==
    pc = "failed" /\ ~tx.reported =>
        \A i \in Plans :
            /\ Safe(Source(i), Src(i))
            /\ Replaces(i) => Safe(Old(i), Prev(i))

\* So it is as long as the step records can be written, and no media stays under a hidden
\* name ("rather than silently leaving a hidden file").
FailedMeansRestored ==
    dbFaults = 0 =>
        /\ FailureIsWhole
        /\ pc = "failed" /\ ~tx.reported =>
              \A i \in Plans : \A n \in {Retired(i), Backup(i), Undo(i)} : fs[n] = Empty

\* Success means that every source is in the library and nowhere else; a hidden
\* old version that could not be removed asks for manual attention.
CommittedMeansMoved ==
    pc \in {"completed", "requires_manual"} =>
        /\ \A i \in Plans :
            /\ Safe(Target(i), Src(i))
            /\ fs[Source(i)] # Src(i)
            /\ \A n \in {Partial(i), Retired(i), Undo(i)} : fs[n] = Empty
        /\ pc = "completed" <=> \A i \in Plans : fs[Backup(i)] = Empty

\* What execute reports is what became of the files; execute_task (LocalTasks) acts on it.
OutcomeIsTrue == CommittedMeansMoved /\ FailedMeansRestored

\* The step records are evidence: "completed" means in the library (they
\* identify what the library holds) unless a record could not be written,
\* "rolled_back" means back at the source.
StepRecordsTrue ==
    \A i \in Plans :
        /\ pc \in Ended /\ step[i] = "completed" /\ dbFaults = 0 => Safe(Target(i), Src(i))
        /\ step[i] = "rolled_back" => Safe(Source(i), Src(i))

=============================================================================
