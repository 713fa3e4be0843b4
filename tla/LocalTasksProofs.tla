-------------------------- MODULE LocalTasksProofs --------------------------
(***************************************************************************)
(* Proofs about LocalTasks, for any number of rows, threads, faults and    *)
(* crashes. The inductive invariant says that the lease has one holder,    *)
(* that its row still says what the holder wrote (unless a belated write   *)
(* was noted in hit), that the files of a run which may still resume the   *)
(* torrent are where it found them unless its move lost the errors of its  *)
(* rollback, and that nobody holds a row whose write a crash cut off.      *)
(***************************************************************************)
EXTENDS LocalTasks, TLAPS

\* The lease has one holder.
OneWriter == \A e, f \in Execs : ex[e].pc \in Leased /\ ex[f].pc \in Leased => e = f

\* Nothing is done, and nothing lost, before the row is planned, and only torrents of the run
\* are paused.
Early(e) ==
    /\ ex[e].pc \in {"prepared", "claimed", "planned"} => ~ex[e].paused /\ ex[e].spent = {} /\ ~ex[e].dropped
    /\ ex[e].pc = "moving" => ex[e].spent = {} /\ ~ex[e].dropped /\ (ex[e].paused => ex[e].hash)

\* Until a point of no return the files are where the run found them, unless the move lost
\* the errors of its rollback.
InPlace(e) ==
    /\ ex[e].pc \in Leased /\ ex[e].spent = {} /\ ~ex[e].dropped /\ (ex[e].pc # "undo" \/ ex[e].paused)
    => media = ex[e].at /\ media # "target"

\* The row says what its holder wrote, and keeps the hash its holder read; in any case the
\* lease is not held for a completed row.
Marked(e) ==
    /\ ex[e].pc \in Leased => rows[ex[e].row].status # "completed"
    /\ ex[e].row \notin hit =>
          /\ ex[e].pc = "planned" => rows[ex[e].row].status = "planned"
          /\ InWrite(e) => rows[ex[e].row].status = "writing"
          /\ ex[e].pc \in {"planned", "moving"} /\ ex[e].hash => rows[ex[e].row].hash

\* QuietWhileMoving, of one thread.
Quiet(e) == ex[e].pc = "moving" /\ ex[e].paused /\ ex[e].row \notin hit => torrent # "running"

Sound(e) == Early(e) /\ InPlace(e) /\ Marked(e) /\ Quiet(e)

\* A row whose write was cut off waits, or will once the service is up; nobody holds it.
CutRow(r) == rows[r].status = "requires_manual" /\ rows[r].cut
Waits(r) ==
    /\ CutRow(r) \/ (~up /\ rows[r].status = "writing")
    /\ r \notin listed /\ \A e \in Execs : ~Holds(e, r)

DownIdle == ~up => \A e \in Execs : ex[e].pc = "idle"

IInv ==
    /\ TasksTypeOK /\ OneWriter /\ DownIdle
    /\ \A e \in Execs : Sound(e)
    /\ \A r \in torn : Waits(r)

USE RowsAssumption, ExecsAssumption, BoundsAssumption


-----------------------------------------------------------------------------
(* What the parts of a step leave behind.                                  *)

RowsOK == rows \in [Rows -> RowType]
ExOK == ex \in [Execs -> ExecType] /\ \A e \in Execs : ex[e].pc # "idle" => ex[e].row \in Rows

LEMMA Stamped ==
    ASSUME TasksTypeOK, NEW r \in Rows, NEW s \in Statuses, Stamp(r, s)
    PROVE  /\ RowsOK' /\ cards' \subseteq Rows
           /\ \A q \in Rows : q # r => rows'[q] = rows[q]
           /\ rows'[r].hash = rows[r].hash
           /\ rows[r].status # "gone" => rows'[r].status = s /\ rows'[r].cut = FALSE
           /\ rows[r].status = "gone" => rows'[r] = rows[r]
BY DEF TasksTypeOK, Stamp, Written, RowType, RowsOK

LEMMA StatusNames ==
    /\ Final \subseteq Statuses /\ Active \subseteq Statuses /\ "gone" \in Statuses
    /\ "completed" \in Final /\ "failed" \in Final /\ "completed" \notin Active
    /\ "waiting" \in Active /\ "recognizing" \in Active /\ "planned" \in Active
    /\ "writing" \in Active /\ "requires_manual" \in Active
    /\ "failed" \notin Active /\ "gone" \notin Active /\ "free" \notin Active
BY DEF Statuses, Final, Active

LEMMA IdleTyped ==
    /\ Idle \in ExecType /\ Idle.pc = "idle" /\ Idle.spent = {} /\ ~Idle.paused /\ ~Idle.dropped
    /\ Idle.pc \notin Leased /\ Idle.row = 0
BY DEF Idle, ExecType, Leased

\* A thread takes a row, or goes on to its handler.
LEMMA TakenTyped ==
    ASSUME NEW r \in Rows, NEW p \in {"prepared", "claimed", "late"}, NEW k \in {"", "web", "card"},
           NEW x, x = [Idle EXCEPT !.pc = p, !.row = r, !.kind = k]
    PROVE  /\ x \in ExecType /\ x.pc = p /\ x.row = r /\ ~x.paused /\ x.spent = {}
           /\ ~x.dropped /\ x.pc \notin Leased /\ x.pc # "moving"
BY DEF Idle, ExecType, Leased

\* One thread gets a new record, the others stay as they are.
LEMMA OneMoves ==
    ASSUME TasksTypeOK, NEW e \in Execs, NEW x \in ExecType,
           x.pc # "idle" => x.row \in Rows, ex' = [ex EXCEPT ![e] = x]
    PROVE  ExOK' /\ ex'[e] = x /\ \A f \in Execs : f # e => ex'[f] = ex[f]
BY DEF TasksTypeOK, ExOK

\* One thread only goes on to another label.
LEMMA LabelMoves ==
    ASSUME TasksTypeOK, NEW e \in Execs, ex[e].pc # "idle",
           NEW p \in {"claimed", "late", "overdue"} \cup Leased, ex' = [ex EXCEPT ![e].pc = p]
    PROVE  /\ ExOK' /\ \A f \in Execs : f # e => ex'[f] = ex[f]
           /\ ex'[e].pc = p /\ ex'[e].row = ex[e].row /\ ex'[e].kind = ex[e].kind
           /\ ex'[e].hash = ex[e].hash /\ ex'[e].paused = ex[e].paused
           /\ ex'[e].at = ex[e].at /\ ex'[e].spent = ex[e].spent /\ ex'[e].dropped = ex[e].dropped
<1> DEFINE x == [ex[e] EXCEPT !.pc = p]
<1>1. ex[e] \in ExecType /\ ex[e].row \in Rows
  BY DEF TasksTypeOK
<1>2. /\ x \in ExecType /\ x.pc = p /\ x.row = ex[e].row /\ x.kind = ex[e].kind
      /\ x.hash = ex[e].hash /\ x.paused = ex[e].paused /\ x.at = ex[e].at /\ x.spent = ex[e].spent
      /\ x.dropped = ex[e].dropped
  BY <1>1 DEF ExecType
<1>3. ex' = [ex EXCEPT ![e] = x]
  OBVIOUS
<1> HIDE DEF x
<1>q. QED BY <1>1, <1>2, <1>3, OneMoves

\* A thread without the lease stays sound whatever the others do.
LEMMA Unleased ==
    ASSUME NEW f \in Execs, Sound(f), ex[f].pc \notin Leased, ex'[f] = ex[f]
    PROVE  Sound(f)'
BY DEF Sound, Early, InPlace, Marked, Quiet, InWrite, NoReturn, Leased

LEMMA EarlyIsEnough ==
    ASSUME NEW f \in Execs, Early(f)', ex'[f].pc \notin Leased
    PROVE  Sound(f)'
BY DEF Sound, Early, InPlace, Marked, Quiet, InWrite, NoReturn, Leased

\* A row that is planned or being written keeps its status and its hash.
Kept(q) ==
    rows[q].status \in {"planned", "writing"} =>
        rows'[q].status = rows[q].status /\ (rows[q].hash => rows'[q].hash)

\* The holder of the lease stays sound if its row is left alone or noted, the files stay and
\* its torrent is not set going.
LEMMA Aside ==
    ASSUME TasksTypeOK, NEW f \in Execs, Sound(f), ex'[f] = ex[f], hit \subseteq hit',
           media' = media \/ media = "target", rows'[ex[f].row].status # "completed",
           torrent' = "running" => torrent = "running" \/ ~ex[f].paused
                                      \/ ex[f].pc # "moving" \/ ex[f].row \in hit,
           ex[f].row \in hit' \/ Kept(ex[f].row)
    PROVE  Sound(f)'
<1>1. Early(f)'
  BY DEF Sound, Early
<1>2. InPlace(f)'
  BY DEF Sound, InPlace
<1>3. Marked(f)'
  BY DEF Sound, Marked, InWrite, NoReturn, Kept
<1>4. Quiet(f)'
  BY DEF Sound, Quiet
<1>q. QED BY <1>1, <1>2, <1>3, <1>4 DEF Sound

\* A step of somebody without the lease, or one that gives it back.
LEMMA Aloof ==
    ASSUME IInv, TasksTypeOK', up' = up, up \/ ex' = ex, hit \subseteq hit',
           media' = media \/ media = "target",
           torrent' = "running" =>
               torrent = "running"
               \/ \A f \in Execs : (ex[f].pc = "moving" /\ ex[f].paused) => ex[f].row \in hit,
           \A f \in Execs : ex'[f] = ex[f] \/ (ex'[f].pc \notin Leased /\ Early(f)'),
           \A f \in Execs : (ex[f].pc \in Leased /\ ex'[f] = ex[f]) =>
               /\ rows'[ex[f].row].status # "completed"
               /\ ex[f].row \in hit' \/ Kept(ex[f].row),
           \A q \in torn' :
               /\ q \in torn /\ rows'[q].status = rows[q].status /\ rows'[q].cut = rows[q].cut
               /\ q \in listed' => q \in listed
               /\ \A f \in Execs : Holds(f, q)' => Holds(f, q)
    PROVE  IInv'
<1>1. \A f \in Execs : Sound(f)'
  <2> SUFFICES ASSUME NEW f \in Execs PROVE Sound(f)'
    OBVIOUS
  <2>0. Sound(f) /\ TasksTypeOK
    BY DEF IInv
  <2>1. CASE ex'[f].pc \notin Leased /\ Early(f)'
    BY <2>1, EarlyIsEnough
  <2>2. CASE ex'[f] = ex[f] /\ ex[f].pc \notin Leased
    BY <2>0, <2>2, Unleased
  <2>3. CASE ex'[f] = ex[f] /\ ex[f].pc \in Leased
    BY <2>0, <2>3, Aside
  <2>q. QED BY <2>1, <2>2, <2>3
<1>2. OneWriter'
  BY DEF IInv, OneWriter
<1>3. DownIdle'
  BY DEF IInv, DownIdle
<1>4. \A q \in torn' : Waits(q)'
  BY DEF IInv, Waits, CutRow
<1>q. QED BY <1>1, <1>2, <1>3, <1>4 DEF IInv

\* A step of the holder of the lease, or of who takes it, at its own row.
LEMMA Bearing ==
    ASSUME IInv, TasksTypeOK', up, up', NEW e \in Execs, Sound(e)', ex[e].pc # "idle",
           ex[e].pc \in Leased \/ LeaseFree,
           ex'[e].pc # "idle" => ex'[e].row = ex[e].row,
           \A f \in Execs : f # e => ex'[f] = ex[f],
           \A q \in Rows : q # ex[e].row => rows'[q] = rows[q],
           torn' = torn, listed' = listed
    PROVE  IInv'
<1>0. \A f \in Execs : f # e => ex[f].pc \notin Leased
  BY DEF IInv, OneWriter, LeaseFree
<1>1. \A f \in Execs : Sound(f)'
  BY <1>0, Unleased DEF IInv
<1>2. OneWriter' /\ DownIdle'
  BY <1>0 DEF OneWriter, DownIdle
<1>3. \A q \in torn' : Waits(q)'
  <2>1. \A q \in torn : q # ex[e].row /\ q \in Rows /\ CutRow(q) /\ q \notin listed
    BY DEF IInv, Waits, Holds, TasksTypeOK
  <2>2. \A q \in torn : \A f \in Execs : ~Holds(f, q)'
    BY <2>1 DEF IInv, Waits, Holds
  <2>q. QED BY <2>1, <2>2 DEF Waits, CutRow
<1>q. QED BY <1>1, <1>2, <1>3 DEF IInv

LEMMA InitInv == Init => IInv
<1> SUFFICES ASSUME Init PROVE IInv OBVIOUS
<1>1. TasksTypeOK
  BY IdleTyped DEF Init, TasksTypeOK, Unused, RowType, Statuses, Active, Final
<1>2. \A e \in Execs : ex[e] = Idle
  BY DEF Init
<1>3. \A e \in Execs : Sound(e)
  BY <1>2, IdleTyped DEF Sound, Early, InPlace, Marked, Quiet, InWrite, Leased, Idle
<1>4. OneWriter /\ DownIdle
  BY <1>2, IdleTyped DEF OneWriter, DownIdle
<1>q. QED
  BY <1>1, <1>3, <1>4 DEF Init, IInv

-----------------------------------------------------------------------------
(* The steps of the holder of the lease.                                   *)

\* What a step of the holder that ends under the lease does to the types.
LEMMA HolderTyped ==
    ASSUME TasksTypeOK, ExOK', RowsOK', cards' \subseteq Rows, faults' \in Nat,
           UNCHANGED <<listed, up, crashes, hit, torn>>,
           torrent' \in {"running", "paused", "gone"}, media' \in {"source", "target", "mixed"}
    PROVE  TasksTypeOK'
BY DEF TasksTypeOK, ExOK, RowsOK

LEMMA StillTyped == TasksTypeOK => RowsOK /\ ExOK /\ cards \subseteq Rows
BY DEF TasksTypeOK, RowsOK, ExOK

LEMMA FaultTyped == TasksTypeOK /\ (Fault \/ Smooth) => faults' \in Nat
BY DEF TasksTypeOK, Fault, Smooth

LEMMA BeginInv ==
    ASSUME IInv, NEW e \in Execs, Begin(e)
    PROVE  IInv'
<1> DEFINE r == ex[e].row
           x(p) == [ex[e] EXCEPT !.pc = p, !.hash = rows[r].hash, !.at = media]
<1>u. /\ up /\ up' /\ ex[e].pc = "claimed" /\ LeaseFree /\ r \in Rows /\ TasksTypeOK /\ Sound(e)
      /\ rows[r].status # "completed" /\ rows[r].status # "gone"
      /\ ex[e] \in ExecType /\ ~ex[e].paused /\ ex[e].spent = {} /\ ~ex[e].dropped
      /\ rows[r].hash \in BOOLEAN
  BY DEF IInv, TasksTypeOK, Begin, Refused, Sound, Early, RowType
<1>p. \A p \in Leased : /\ x(p) \in ExecType /\ x(p).pc = p /\ x(p).row = r /\ ~x(p).paused
                        /\ x(p).spent = {} /\ ~x(p).dropped /\ x(p).at = media /\ x(p).hash = rows[r].hash
  BY <1>u DEF ExecType, TasksTypeOK
<1>l. "undo" \in Leased /\ "planned" \in Leased
  BY DEF Leased
<1>f. faults' \in Nat
  BY <1>u, FaultTyped DEF Begin, TasksTypeOK
<1>c. \/ ex' = [ex EXCEPT ![e] = x("undo")] /\ UNCHANGED <<rows, cards>>
      \/ /\ ex' = [ex EXCEPT ![e] = Idle]
         /\ \E s \in {"requires_manual", "completed"} : Stamp(r, s)
      \/ /\ media # "target" /\ Stamp(r, "planned") /\ ex' = [ex EXCEPT ![e] = x("planned")]
  BY DEF Begin, Begun
<1> HIDE DEF x
<1>1. CASE ex' = [ex EXCEPT ![e] = x("undo")] /\ UNCHANGED <<rows, cards>>
  <2>1. ExOK' /\ ex'[e] = x("undo") /\ \A f \in Execs : f # e => ex'[f] = ex[f]
    BY <1>u, <1>p, <1>l, <1>1, OneMoves
  <2>2. TasksTypeOK'
    BY <1>u, <1>1, <1>f, <2>1, HolderTyped, StillTyped DEF Begin, TasksTypeOK, RowsOK
  <2>3. Sound(e)'
    BY <1>u, <1>p, <1>l, <1>1, <2>1 DEF Sound, Early, InPlace, Marked, Quiet, InWrite, NoReturn, Leased
  <2>q. QED BY <1>u, <1>1, <1>p, <1>l, <2>1, <2>2, <2>3, Bearing DEF Begin
<1>2. ASSUME NEW s \in {"requires_manual", "completed"}, Stamp(r, s), ex' = [ex EXCEPT ![e] = Idle]
      PROVE  IInv'
  <2>1. ExOK' /\ ex'[e] = Idle /\ \A f \in Execs : f # e => ex'[f] = ex[f]
    BY <1>u, <1>2, IdleTyped, OneMoves
  <2>s. RowsOK' /\ cards' \subseteq Rows /\ \A q \in Rows : q # r => rows'[q] = rows[q]
    BY <1>u, <1>2, Stamped, StatusNames
  <2>2. TasksTypeOK'
    BY <1>u, <1>f, <2>1, <2>s, HolderTyped DEF Begin, TasksTypeOK
  <2>3. Sound(e)'
    BY <2>1, IdleTyped, EarlyIsEnough DEF Early
  <2>q. QED BY <1>u, <2>1, <2>s, <2>2, <2>3, IdleTyped, Bearing DEF Begin
<1>3. CASE media # "target" /\ Stamp(r, "planned") /\ ex' = [ex EXCEPT ![e] = x("planned")]
  <2>1. ExOK' /\ ex'[e] = x("planned") /\ \A f \in Execs : f # e => ex'[f] = ex[f]
    BY <1>u, <1>p, <1>l, <1>3, OneMoves
  <2>s. /\ RowsOK' /\ cards' \subseteq Rows /\ \A q \in Rows : q # r => rows'[q] = rows[q]
        /\ rows'[r].status = "planned" /\ rows'[r].hash = rows[r].hash
    BY <1>u, <1>3, Stamped, StatusNames
  <2>2. TasksTypeOK'
    BY <1>u, <1>f, <2>1, <2>s, HolderTyped DEF Begin, TasksTypeOK
  <2>3. Sound(e)'
    BY <1>u, <1>p, <1>l, <1>3, <2>1, <2>s
       DEF Sound, Early, InPlace, Marked, Quiet, InWrite, NoReturn, Leased, Begin
  <2>q. QED BY <1>u, <1>p, <1>l, <2>1, <2>s, <2>2, <2>3, Bearing DEF Begin
<1>q. QED BY <1>c, <1>1, <1>2, <1>3

LEMMA PauseInv ==
    ASSUME IInv, NEW e \in Execs, Pause(e)
    PROVE  IInv'
<1> DEFINE r == ex[e].row
           x == [ex[e] EXCEPT !.pc = "moving", !.paused = ex[e].hash]
<1>u. /\ up /\ up' /\ ex[e].pc = "planned" /\ ex[e].pc \in Leased /\ r \in Rows /\ TasksTypeOK /\ Sound(e)
      /\ ex[e] \in ExecType /\ ~ex[e].paused /\ ex[e].spent = {} /\ ~ex[e].dropped
      /\ ex[e].hash \in BOOLEAN
      /\ media = ex[e].at /\ media # "target" /\ rows[r].status # "completed"
      /\ r \notin hit => rows[r].status = "planned" /\ (ex[e].hash => rows[r].hash)
      /\ UNCHANGED <<listed, media, up, crashes, hit, torn>>
  BY DEF IInv, TasksTypeOK, Pause, Sound, Early, InPlace, Marked, ExecType, Leased
<1>f. faults' \in Nat
  BY <1>u, FaultTyped DEF Pause
<1>t. torrent \in {"running", "paused", "gone"} /\ AfterPause \in {"paused", "gone"}
  BY <1>u DEF TasksTypeOK, AfterPause
<1>1. ASSUME Stamp(r, "writing"), torrent' = IF ex[e].hash THEN AfterPause ELSE torrent,
             ex' = [ex EXCEPT ![e] = x]
      PROVE  IInv'
  <2>x. /\ x \in ExecType /\ x.pc = "moving" /\ x.row = r /\ x.paused = ex[e].hash
        /\ x.hash = ex[e].hash /\ x.at = ex[e].at /\ x.spent = {} /\ ~x.dropped
    BY <1>u DEF ExecType, Leased
  <2> HIDE DEF x
  <2>1. ExOK' /\ ex'[e] = x /\ \A f \in Execs : f # e => ex'[f] = ex[f]
    BY <1>u, <1>1, <2>x, OneMoves
  <2>s. /\ RowsOK' /\ cards' \subseteq Rows /\ \A q \in Rows : q # r => rows'[q] = rows[q]
        /\ rows'[r].status # "completed" /\ rows'[r].hash = rows[r].hash
        /\ r \notin hit => rows'[r].status = "writing"
    BY <1>u, <1>1, Stamped, StatusNames
  <2>2. TasksTypeOK'
    BY <1>u, <1>f, <1>t, <1>1, <2>1, <2>s, HolderTyped DEF TasksTypeOK
  <2>3. Early(e)' /\ InPlace(e)'
    BY <1>u, <2>x, <2>1 DEF Early, InPlace
  <2>4. Marked(e)'
    BY <1>u, <2>x, <2>1, <2>s DEF Marked, InWrite, NoReturn
  <2>5. Quiet(e)'
    BY <1>1, <1>t, <2>x, <2>1 DEF Quiet
  <2>q. QED BY <1>u, <2>x, <2>1, <2>s, <2>2, <2>3, <2>4, <2>5, Bearing DEF Sound
<1>2. ASSUME ex' = [ex EXCEPT ![e].pc = "undo"], Stamp(r, "writing") \/ UNCHANGED <<rows, cards>>,
             torrent' \in {torrent, AfterPause}
      PROVE  IInv'
  <2>1. /\ ExOK' /\ \A f \in Execs : f # e => ex'[f] = ex[f]
        /\ ex'[e].pc = "undo" /\ ex'[e].row = r /\ ~ex'[e].paused /\ ex'[e].spent = {}
        /\ ~ex'[e].dropped
    <3>1. ex[e].pc # "idle" /\ "undo" \in {"claimed", "late", "overdue"} \cup Leased
      BY <1>u DEF Leased
    <3>2. /\ ExOK' /\ \A f \in Execs : f # e => ex'[f] = ex[f]
          /\ ex'[e].pc = "undo" /\ ex'[e].row = ex[e].row
          /\ ex'[e].paused = ex[e].paused /\ ex'[e].spent = ex[e].spent
          /\ ex'[e].dropped = ex[e].dropped
      BY <1>u, <1>2, <3>1, LabelMoves
    <3>q. QED BY <1>u, <3>2
  <2>s. /\ RowsOK' /\ cards' \subseteq Rows /\ \A q \in Rows : q # r => rows'[q] = rows[q]
        /\ rows'[r].status # "completed"
    <3>1. CASE Stamp(r, "writing")
      BY <1>u, <3>1, Stamped, StatusNames
    <3>2. CASE UNCHANGED <<rows, cards>>
      BY <1>u, <3>2 DEF TasksTypeOK, RowsOK
    <3>q. QED BY <1>2, <3>1, <3>2
  <2>2. TasksTypeOK'
    BY <1>u, <1>f, <1>t, <1>2, <2>1, <2>s, HolderTyped DEF TasksTypeOK
  <2>3. Sound(e)'
    BY <2>1, <2>s DEF Sound, Early, InPlace, Marked, Quiet, InWrite, NoReturn, Leased
  <2>q. QED BY <1>u, <2>1, <2>s, <2>2, <2>3, Bearing
<1>q. QED BY <1>1, <1>2 DEF Pause

LEMMA MoveInv ==
    ASSUME IInv, NEW e \in Execs, Move(e)
    PROVE  IInv'
<1> DEFINE r == ex[e].row
           x(p, s, d) == [ex[e] EXCEPT !.pc = p, !.spent = s, !.dropped = d]
           S == SUBSET {"committed", "retired", "incomplete"}
<1>u. /\ up /\ up' /\ ex[e].pc = "moving" /\ ex[e].pc \in Leased /\ r \in Rows /\ TasksTypeOK /\ Sound(e)
      /\ ex[e] \in ExecType /\ ex[e].spent = {} /\ ~ex[e].dropped /\ rows[r].status # "completed"
      /\ media = ex[e].at /\ media # "target"
      /\ r \notin hit => rows[r].status = "writing"
      /\ UNCHANGED <<rows, listed, cards, torrent, up, crashes, hit, torn>>
  BY DEF IInv, TasksTypeOK, Move, Sound, Early, InPlace, Marked, InWrite, Leased
<1>f. faults' \in Nat
  BY <1>u, FaultTyped DEF Move
<1>x. ASSUME NEW p \in {"moved", "undo"}, NEW s \in S, NEW d \in BOOLEAN
      PROVE  /\ x(p, s, d) \in ExecType /\ x(p, s, d).pc = p /\ x(p, s, d).row = r
             /\ x(p, s, d).spent = s /\ x(p, s, d).dropped = d /\ x(p, s, d).at = ex[e].at
  <2>1. p \in {"idle", "prepared", "claimed", "late", "overdue"} \cup Leased
    BY DEF Leased
  <2>q. QED BY <1>u, <2>1 DEF ExecType
<1>d. ex[e].dropped = FALSE
  BY <1>u DEF ExecType
\* The files are in place unless the run went too far or its errors were lost.
<1>c. /\ media' \in {"source", "target", "mixed"}
      /\ \E p \in {"moved", "undo"} : \E s \in S : \E d \in BOOLEAN :
             /\ ex' = [ex EXCEPT ![e] = x(p, s, d)] /\ (s = {} /\ ~d => media' = media)
             /\ d => p = "undo"
  <2>1. CASE /\ media' = "target"
             /\ ex' = [ex EXCEPT ![e] = [@ EXCEPT !.pc = "moved", !.spent = {"committed"}]]
    <3>1. x("moved", {"committed"}, FALSE) = [ex[e] EXCEPT !.pc = "moved", !.spent = {"committed"}]
      BY <1>u, <1>d DEF ExecType
    <3>q. QED BY <2>1, <3>1
  <2>2. CASE media' = media /\ ex' = [ex EXCEPT ![e].pc = "moved"]
    <3>1. x("moved", {}, FALSE) = [ex[e] EXCEPT !.pc = "moved"]
      BY <1>u, <1>d DEF ExecType
    <3>q. QED BY <1>u, <2>2, <3>1 DEF TasksTypeOK
  <2>3. CASE media' = media /\ ex' = [ex EXCEPT ![e].pc = "undo"]
    <3>1. x("undo", {}, FALSE) = [ex[e] EXCEPT !.pc = "undo"]
      BY <1>u, <1>d DEF ExecType
    <3>q. QED BY <1>u, <2>3, <3>1 DEF TasksTypeOK
  <2>4. CASE /\ media' = "mixed"
             /\ ex' = [ex EXCEPT ![e] = [@ EXCEPT !.pc = "undo", !.spent = {"incomplete"}]]
    <3>1. x("undo", {"incomplete"}, FALSE) = [ex[e] EXCEPT !.pc = "undo", !.spent = {"incomplete"}]
      BY <1>u, <1>d DEF ExecType
    <3>q. QED BY <2>4, <3>1
  <2>5. CASE /\ media' = "mixed"
             /\ ex' = [ex EXCEPT ![e] = [@ EXCEPT !.pc = "undo", !.dropped = TRUE]]
    <3>1. x("undo", {}, TRUE) = [ex[e] EXCEPT !.pc = "undo", !.dropped = TRUE]
      BY <1>u DEF ExecType
    <3>q. QED BY <2>5, <3>1
  <2>q. QED BY <2>1, <2>2, <2>3, <2>4, <2>5 DEF Move, Incomplete
<1> HIDE DEF x
<1>1. PICK p \in {"moved", "undo"}, s \in S, d \in BOOLEAN :
         /\ ex' = [ex EXCEPT ![e] = x(p, s, d)] /\ (s = {} /\ ~d => media' = media)
         /\ d => p = "undo"
  BY <1>c
<1>2. /\ ExOK' /\ \A f \in Execs : f # e => ex'[f] = ex[f]
      /\ ex'[e].pc = p /\ ex'[e].row = r /\ ex'[e].spent = s /\ ex'[e].at = ex[e].at
      /\ ex'[e].dropped = d
  <2>1. x(p, s, d) \in ExecType /\ x(p, s, d).row \in Rows
    BY <1>u, <1>x
  <2>2. ExOK' /\ ex'[e] = x(p, s, d) /\ \A f \in Execs : f # e => ex'[f] = ex[f]
    BY <1>u, <1>1, <2>1, OneMoves
  <2>q. QED BY <1>x, <2>2
<1>3. TasksTypeOK'
  BY <1>u, <1>f, <1>c, <1>2, HolderTyped DEF TasksTypeOK, RowsOK
<1>4. Early(e)' /\ Quiet(e)'
  BY <1>2 DEF Early, Quiet
<1>5. InPlace(e)'
  BY <1>u, <1>1, <1>2 DEF InPlace
<1>6. Marked(e)'
  BY <1>u, <1>1, <1>2 DEF Marked, InWrite
<1>q. QED BY <1>u, <1>2, <1>3, <1>4, <1>5, <1>6, Bearing DEF Sound

LEMMA RetireInv ==
    ASSUME IInv, NEW e \in Execs, Retire(e)
    PROVE  IInv'
<1> DEFINE r == ex[e].row
           x == [ex[e] EXCEPT !.pc = "closing",
                              !.spent = ex[e].spent \cup IF ex[e].hash THEN {"retired"} ELSE {}]
           y(p) == [ex[e] EXCEPT !.pc = p]
<1>u. /\ up /\ up' /\ ex[e].pc = "moved" /\ ex[e].pc \in Leased /\ r \in Rows /\ TasksTypeOK /\ Sound(e)
      /\ ex[e] \in ExecType /\ rows[r].status # "completed"
      /\ ex[e].spent = {} /\ ~ex[e].dropped => media = ex[e].at /\ media # "target"
      /\ r \notin hit => rows[r].status = "writing"
      /\ UNCHANGED <<listed, media, up, crashes, hit, torn>>
  BY DEF IInv, TasksTypeOK, Retire, Sound, InPlace, Marked, InWrite, Leased
<1>f. faults' \in Nat
  BY <1>u, FaultTyped DEF Retire
<1>x. /\ x \in ExecType /\ x.pc = "closing" /\ x.row = r /\ x.at = ex[e].at
      /\ x.spent = {} => ex[e].spent = {}
      /\ x.dropped = ex[e].dropped
  BY <1>u DEF ExecType, Leased
<1>y. \A p \in {"closing", "undo"} :
         /\ y(p) \in ExecType /\ y(p).pc = p /\ y(p).row = r /\ y(p).at = ex[e].at
         /\ y(p).spent = ex[e].spent /\ y(p).dropped = ex[e].dropped
  BY <1>u DEF ExecType, Leased
<1>c. /\ Stamp(r, "writing") \/ UNCHANGED <<rows, cards>>
      /\ torrent' \in {"running", "paused", "gone"}
      /\ \/ ex' = [ex EXCEPT ![e] = x]
         \/ \E p \in {"closing", "undo"} : ex' = [ex EXCEPT ![e] = y(p)]
  <2>t. torrent \in {"running", "paused", "gone"}
    BY <1>u DEF TasksTypeOK
  <2>1. CASE /\ Stamp(r, "writing") /\ ex' = [ex EXCEPT ![e] = x]
             /\ torrent' = IF ex[e].hash THEN "gone" ELSE torrent
    BY <2>t, <2>1
  <2>2. CASE /\ Stamp(r, "writing") /\ ex' = [ex EXCEPT ![e] = y("closing")]
             /\ torrent' \in {torrent, "gone"}
    BY <2>t, <2>2
  <2>3. CASE ex' = [ex EXCEPT ![e] = y("undo")] /\ UNCHANGED <<rows, cards, torrent>>
    BY <2>t, <2>3
  <2>4. \/ /\ Stamp(r, "writing") /\ torrent' = IF ex[e].hash THEN "gone" ELSE torrent
           /\ ex' = [ex EXCEPT ![e] = x]
        \/ /\ Stamp(r, "writing") /\ torrent' \in {torrent, "gone"}
           /\ ex' = [ex EXCEPT ![e].pc = "closing"]
        \/ ex' = [ex EXCEPT ![e].pc = "undo"] /\ UNCHANGED <<rows, cards, torrent>>
    BY DEF Retire
  <2>5. \A p : [ex EXCEPT ![e].pc = p] = [ex EXCEPT ![e] = y(p)]
    OBVIOUS
  <2>q. QED BY <2>1, <2>2, <2>3, <2>4, <2>5
<1> HIDE DEF x, y
<1>1. PICK z \in ExecType : /\ ex' = [ex EXCEPT ![e] = z] /\ z.pc \in {"closing", "undo"}
                            /\ z.row = r /\ z.at = ex[e].at /\ (z.spent = {} => ex[e].spent = {})
                            /\ z.dropped = ex[e].dropped
  BY <1>c, <1>x, <1>y
<1>2. /\ ExOK' /\ ex'[e] = z /\ \A f \in Execs : f # e => ex'[f] = ex[f]
  BY <1>u, <1>1, OneMoves
<1>s. /\ RowsOK' /\ cards' \subseteq Rows /\ \A q \in Rows : q # r => rows'[q] = rows[q]
      /\ rows'[r].status # "completed" /\ (r \notin hit => rows'[r].status = "writing")
  <2>1. CASE Stamp(r, "writing")
    BY <1>u, <2>1, Stamped, StatusNames
  <2>2. CASE UNCHANGED <<rows, cards>>
    BY <1>u, <2>2 DEF TasksTypeOK, RowsOK
  <2>q. QED BY <1>c, <2>1, <2>2
<1>3. TasksTypeOK'
  BY <1>u, <1>f, <1>c, <1>2, <1>s, HolderTyped DEF TasksTypeOK
<1>4. Early(e)' /\ Quiet(e)'
  BY <1>1, <1>2 DEF Early, Quiet
<1>5. InPlace(e)'
  BY <1>u, <1>1, <1>2 DEF InPlace
<1>6. Marked(e)'
  BY <1>u, <1>1, <1>2, <1>s DEF Marked, InWrite
<1>q. QED BY <1>u, <1>1, <1>2, <1>s, <1>3, <1>4, <1>5, <1>6, Bearing DEF Sound

LEMMA FinishInv ==
    ASSUME IInv, NEW e \in Execs, Finish(e)
    PROVE  IInv'
<1> DEFINE r == ex[e].row
<1>u. /\ up /\ up' /\ ex[e].pc = "closing" /\ ex[e].pc \in Leased /\ r \in Rows /\ TasksTypeOK /\ Sound(e)
      /\ rows[r].status # "completed"
      /\ ex[e].spent = {} /\ ~ex[e].dropped => media = ex[e].at /\ media # "target"
      /\ r \notin hit => rows[r].status = "writing"
      /\ UNCHANGED <<listed, torrent, media, up, crashes, hit, torn>>
  BY DEF IInv, TasksTypeOK, Finish, Sound, InPlace, Marked, InWrite, Leased
<1>f. faults' \in Nat
  BY <1>u, FaultTyped DEF Finish
<1>1. ASSUME NEW s \in {"completed", "requires_manual"}, Stamp(r, s), ex' = [ex EXCEPT ![e] = Idle]
      PROVE  IInv'
  <2>1. ExOK' /\ ex'[e] = Idle /\ \A f \in Execs : f # e => ex'[f] = ex[f]
    BY <1>u, <1>1, IdleTyped, OneMoves
  <2>s. RowsOK' /\ cards' \subseteq Rows /\ \A q \in Rows : q # r => rows'[q] = rows[q]
    BY <1>u, <1>1, Stamped, StatusNames
  <2>2. TasksTypeOK'
    BY <1>u, <1>f, <2>1, <2>s, HolderTyped DEF TasksTypeOK
  <2>3. Sound(e)'
    BY <2>1, IdleTyped, EarlyIsEnough DEF Early
  <2>q. QED BY <1>u, <2>1, <2>s, <2>2, <2>3, IdleTyped, Bearing
<1>2. ASSUME ex' = [ex EXCEPT ![e].pc = "undo"], UNCHANGED <<rows, cards>>
      PROVE  IInv'
  <2>0. ex[e].pc # "idle" /\ "undo" \in {"claimed", "late", "overdue"} \cup Leased
    BY <1>u DEF Leased
  <2>1. /\ ExOK' /\ \A f \in Execs : f # e => ex'[f] = ex[f]
        /\ ex'[e].pc = "undo" /\ ex'[e].row = r /\ ex'[e].at = ex[e].at
        /\ ex'[e].spent = ex[e].spent /\ ex'[e].dropped = ex[e].dropped
    BY <1>u, <1>2, <2>0, LabelMoves
  <2>2. TasksTypeOK'
    BY <1>u, <1>f, <1>2, <2>1, HolderTyped, StillTyped DEF TasksTypeOK, RowsOK
  <2>3. Sound(e)'
    BY <1>u, <1>2, <2>1 DEF Sound, Early, InPlace, Marked, Quiet, InWrite
  <2>q. QED BY <1>u, <1>2, <2>1, <2>2, <2>3, Bearing
<1>q. QED BY <1>1, <1>2 DEF Finish

LEMMA UndoInv ==
    ASSUME IInv, NEW e \in Execs, Undo(e)
    PROVE  IInv'
<1> DEFINE r == ex[e].row
           x == [Idle EXCEPT !.pc = "late", !.row = r, !.kind = ex[e].kind, !.spent = ex[e].spent]
<1>u. /\ up /\ up' /\ ex[e].pc = "undo" /\ ex[e].pc \in Leased /\ r \in Rows /\ TasksTypeOK
      /\ ex[e] \in ExecType /\ UNCHANGED <<listed, media, up, crashes, hit, torn>>
  BY DEF IInv, TasksTypeOK, Undo, Leased
<1>x. x \in ExecType /\ x.pc = "late" /\ x.row = r
  BY <1>u DEF ExecType, Idle
<1>c. /\ UNCHANGED <<rows, cards>> \/ \E s \in {"requires_manual", "failed"} : Stamp(r, s)
      /\ torrent' \in {"running", "paused", "gone"} /\ faults' \in Nat
      /\ ex' = [ex EXCEPT ![e] = x]
  <2>1. PICK unresumed \in {0, 1}, unstored \in {0, 1} :
          /\ faults' = faults + unresumed + unstored
          /\ torrent' \in IF ~Resumes(ex[e]) THEN {torrent}
                          ELSE {AfterResume} \cup IF unresumed = 1 THEN {torrent} ELSE {}
          /\ IF unstored = 1 THEN UNCHANGED <<rows, cards>>
             ELSE Stamp(r, IF NoReturn(ex[e]) THEN "requires_manual" ELSE "failed")
    BY DEF Undo
  <2>2. faults' \in Nat
    BY <1>u, <2>1 DEF TasksTypeOK
  <2>3. torrent' \in {"running", "paused", "gone"}
    BY <1>u, <2>1 DEF TasksTypeOK, AfterResume
  <2>4. UNCHANGED <<rows, cards>> \/ \E s \in {"requires_manual", "failed"} : Stamp(r, s)
    BY <2>1
  <2>q. QED BY <2>2, <2>3, <2>4 DEF Undo, Raised
<1> HIDE DEF x
<1>1. ExOK' /\ ex'[e] = x /\ \A f \in Execs : f # e => ex'[f] = ex[f]
  BY <1>u, <1>x, <1>c, OneMoves
<1>s. RowsOK' /\ cards' \subseteq Rows /\ \A q \in Rows : q # r => rows'[q] = rows[q]
  <2>1. CASE UNCHANGED <<rows, cards>>
    BY <1>u, <2>1 DEF TasksTypeOK, RowsOK
  <2>2. ASSUME NEW s \in {"requires_manual", "failed"}, Stamp(r, s)
        PROVE  RowsOK' /\ cards' \subseteq Rows /\ \A q \in Rows : q # r => rows'[q] = rows[q]
    BY <1>u, <2>2, Stamped, StatusNames
  <2>q. QED BY <1>c, <2>1, <2>2
<1>2. TasksTypeOK'
  BY <1>u, <1>c, <1>1, <1>s, HolderTyped DEF TasksTypeOK
<1>3. Sound(e)'
  BY <1>x, <1>1, EarlyIsEnough DEF Early, Leased
<1>q. QED BY <1>u, <1>x, <1>1, <1>s, <1>2, <1>3, Bearing

-----------------------------------------------------------------------------
(* The steps of the others.                                                *)

\* A step that only makes, restarts or removes rows nobody works on, or only reads.
LEMMA BookInv ==
    ASSUME IInv, RowsOK', UNCHANGED <<ex, media, up, faults, crashes, hit>>,
           torrent' \in {"running", "paused", "gone"},
           torrent' = "running" =>
               torrent = "running"
               \/ \A f \in Execs : (ex[f].pc = "moving" /\ ex[f].paused) => ex[f].row \in hit,
           \A q \in Rows : Kept(q) /\ (rows'[q].status = "completed" => rows[q].status = "completed"),
           listed' \subseteq Rows, cards' \subseteq Rows, torn' \subseteq torn,
           \A q \in torn' : /\ rows'[q].status = rows[q].status /\ rows'[q].cut = rows[q].cut
                            /\ q \in listed' => q \in listed
    PROVE  IInv'
<1>1. TasksTypeOK'
  BY DEF IInv, TasksTypeOK, RowsOK
<1>2. \A f \in Execs : ex[f].pc \in Leased =>
          /\ ex[f].row \in Rows /\ rows[ex[f].row].status # "completed"
  BY DEF IInv, Sound, Marked, TasksTypeOK, Leased
<1>3. \A q \in torn' : \A f \in Execs : Holds(f, q)' => Holds(f, q)
  BY DEF Holds
<1>q. QED BY <1>1, <1>2, <1>3, Aloof

\* What is known of a row whose write was cut off, while the service is up.
LEMMA TornRows ==
    ASSUME IInv, up, NEW q \in torn
    PROVE  /\ q \in Rows /\ q \notin listed /\ rows[q].status = "requires_manual" /\ rows[q].cut
           /\ \A e \in Execs : ~Holds(e, q)
BY DEF IInv, TasksTypeOK, Waits, CutRow

LEMMA NewTyped ==
    ASSUME NEW h \in BOOLEAN
    PROVE  New(h) \in RowType /\ New(h).status = "waiting" /\ New(h).cut = FALSE
BY DEF New, RowType, Statuses, Active

LEMMA ScanInv ==
    ASSUME IInv, Scan
    PROVE  IInv'
<1>u. TasksTypeOK /\ up /\ UNCHANGED <<ex, listed, cards, torrent, media, up, faults, crashes, hit, torn>>
  BY DEF IInv, Scan
<1>1. PICK r \in Rows : rows[r].status = "free" /\ rows' = [rows EXCEPT ![r] = New(FALSE)]
  BY DEF Scan, Fresh
<1>2. RowsOK' /\ rows'[r] = New(FALSE) /\ \A q \in Rows : q # r => rows'[q] = rows[q]
  BY <1>u, <1>1, NewTyped DEF TasksTypeOK, RowsOK
<1>3. \A q \in Rows : Kept(q) /\ (rows'[q].status = "completed" => rows[q].status = "completed")
  BY <1>1, <1>2, NewTyped DEF Kept
<1>4. \A q \in torn : rows'[q] = rows[q]
  BY <1>u, <1>1, <1>2, TornRows
<1>q. QED BY <1>u, <1>2, <1>3, <1>4, BookInv DEF TasksTypeOK

LEMMA DownloadInv ==
    ASSUME IInv, Download
    PROVE  IInv'
<1>u. TasksTypeOK /\ up /\ UNCHANGED <<ex, listed, cards, torrent, media, up, faults, crashes, hit, torn>>
  BY DEF IInv, Download
<1>1. ASSUME NEW a \in Rows, ActiveRows = {a}, a \notin HashRows,
             rows' = [r \in Rows |-> [rows[r] EXCEPT !.hash = (r = a)]]
      PROVE  IInv'
  <2>1. \A q \in Rows : /\ rows'[q] \in RowType /\ rows'[q].status = rows[q].status
                        /\ rows'[q].cut = rows[q].cut /\ (rows'[q].hash <=> q = a)
    BY <1>u, <1>1 DEF TasksTypeOK, RowType
  <2>2. RowsOK'
    <3>1. rows' = [q \in Rows |-> rows'[q]]
      BY <1>1
    <3>q. QED BY <2>1, <3>1 DEF RowsOK
  <2>3. \A q \in Rows : Kept(q) /\ (rows'[q].status = "completed" => rows[q].status = "completed")
    BY <1>1, <2>1, StatusNames DEF Kept, ActiveRows, HashRows
  <2>4. \A q \in torn : rows'[q].status = rows[q].status /\ rows'[q].cut = rows[q].cut
    BY <1>u, <2>1, TornRows
  <2>q. QED BY <1>u, <2>2, <2>3, <2>4, BookInv DEF TasksTypeOK
<1>2. ASSUME NEW r \in Rows, ActiveRows = {}, rows' = [rows EXCEPT ![r] = New(TRUE)]
      PROVE  IInv'
  <2>1. RowsOK' /\ rows'[r] = New(TRUE) /\ \A q \in Rows : q # r => rows'[q] = rows[q]
    BY <1>u, <1>2, NewTyped DEF TasksTypeOK, RowsOK
  <2>2. \A q \in Rows : rows[q].status \notin Active
    BY <1>2 DEF ActiveRows
  <2>3. \A q \in Rows : Kept(q) /\ (rows'[q].status = "completed" => rows[q].status = "completed")
    BY <2>1, <2>2, NewTyped, StatusNames DEF Kept
  <2>4. torn = {}
    BY <1>u, <2>2, TornRows, StatusNames
  <2>q. QED BY <1>u, <2>1, <2>3, <2>4, BookInv DEF TasksTypeOK
<1>q. QED BY <1>1, <1>2 DEF Download, HashRows

LEMMA RetryInv ==
    ASSUME IInv, NEW r \in Rows, NEW sure \in BOOLEAN, Retry(r, sure)
    PROVE  IInv'
<1>u. /\ TasksTypeOK /\ up /\ UNCHANGED <<ex, listed, torrent, media, up, faults, crashes, hit>>
      /\ rows[r].status \in {"failed", "requires_manual"} /\ Stamp(r, "waiting")
  BY DEF IInv, Retry
<1>1. /\ RowsOK' /\ cards' \subseteq Rows /\ rows'[r].status = "waiting"
      /\ \A q \in Rows : q # r => rows'[q] = rows[q]
  BY <1>u, Stamped, StatusNames
<1>2. \A q \in Rows : Kept(q) /\ (rows'[q].status = "completed" => rows[q].status = "completed")
  BY <1>u, <1>1 DEF Kept
<1>3. torn' \subseteq torn /\ \A q \in torn' : rows'[q] = rows[q]
  <2>1. \A q \in torn' : q \in torn /\ q # r
    BY <1>u, TornRows DEF Retry, RetryAllowed
  <2>q. QED BY <1>u, <1>1, <2>1, TornRows
<1>q. QED BY <1>u, <1>1, <1>2, <1>3, BookInv DEF TasksTypeOK

LEMMA DeleteInv ==
    ASSUME IInv, NEW r \in Rows, Delete(r)
    PROVE  IInv'
<1> DEFINE g == [Unused EXCEPT !.status = "gone"]
<1>u. /\ TasksTypeOK /\ up /\ UNCHANGED <<ex, listed, cards, torrent, media, up, faults, crashes, hit>>
      /\ rows[r].status \in Final \cup {"requires_manual"} /\ torn' = torn \ {r}
  BY DEF IInv, Delete
<1>g. g \in RowType /\ g.status = "gone"
  BY DEF Unused, RowType, Statuses
<1>1. RowsOK' /\ rows'[r] = g /\ \A q \in Rows : q # r => rows'[q] = rows[q]
  BY <1>u, <1>g DEF Delete, TasksTypeOK, RowsOK
<1>2. \A q \in Rows : Kept(q) /\ (rows'[q].status = "completed" => rows[q].status = "completed")
  BY <1>u, <1>g, <1>1 DEF Kept, Final
<1>3. \A q \in torn' : rows'[q] = rows[q]
  BY <1>u, <1>1, TornRows
<1>q. QED BY <1>u, <1>1, <1>2, <1>3, BookInv DEF TasksTypeOK

\* Steps that change no row and no thread: cards, the list of the scheduler, the controls.
LEMMA ReadersInv ==
    ASSUME IInv, \/ \E r \in Rows : MakeCard(r) \/ DropCard(r)
                 \/ List \/ Control
    PROVE  IInv'
<1>u. TasksTypeOK /\ up /\ UNCHANGED <<rows, ex, media, up, faults, crashes, hit, torn>>
  BY DEF IInv, MakeCard, DropCard, List, Control
<1>1. RowsOK' /\ \A q \in Rows : Kept(q) /\ (rows'[q].status = "completed" => rows[q].status = "completed")
  BY <1>u DEF TasksTypeOK, RowsOK, Kept
<1>2. /\ listed' \subseteq Rows /\ cards' \subseteq Rows /\ torrent' \in {"running", "paused", "gone"}
  BY <1>u DEF MakeCard, DropCard, List, Control, TasksTypeOK
<1>3. \A q \in torn : q \in listed' => q \in listed
  BY <1>u, TornRows DEF MakeCard, DropCard, List, Control
<1>4. torrent' = "running" =>
         torrent = "running"
         \/ \A f \in Execs : (ex[f].pc = "moving" /\ ex[f].paused) => ex[f].row \in hit
  <2>1. SUFFICES ASSUME torrent' = "running", torrent # "running", NEW f \in Execs,
                        ex[f].pc = "moving", ex[f].paused, ex[f].row \notin hit
                 PROVE  FALSE
    OBVIOUS
  <2>2. ~Conflict
    BY <2>1 DEF MakeCard, DropCard, List, Control, ControlAllowed
  <2>3. Sound(f) /\ ex[f].row \in Rows
    BY <1>u, <2>1 DEF IInv, TasksTypeOK
  <2>4. rows[ex[f].row].status = "writing" /\ rows[ex[f].row].hash
    BY <2>1, <2>3 DEF Sound, Early, Marked, InWrite
  <2>q. QED BY <2>2, <2>3, <2>4 DEF Conflict, HashRows
<1>q. QED BY <1>u, <1>1, <1>2, <1>3, <1>4, BookInv

LEMMA ArriveInv ==
    ASSUME IInv, Arrive
    PROVE  IInv'
<1>u. /\ TasksTypeOK /\ media = "target"
      /\ UNCHANGED <<rows, ex, listed, cards, torrent, up, faults, crashes, hit, torn>>
  BY DEF IInv, Arrive
<1>1. TasksTypeOK'
  BY <1>u DEF TasksTypeOK, Arrive
<1>2. \A f \in Execs : ex[f].pc \in Leased => rows'[ex[f].row].status # "completed" /\ Kept(ex[f].row)
  BY <1>u DEF IInv, Sound, Marked, Kept
<1>q. QED BY <1>u, <1>1, <1>2, Aloof DEF Holds

-----------------------------------------------------------------------------
(* The steps of threads that do not hold the lease.                        *)

\* A thread without the lease gets a new record; at most one row is written, which is not
\* planned or being written, or is noted.
LEMMA ThreadInv ==
    ASSUME IInv, RowsOK', up, UNCHANGED <<torrent, media, up, crashes>>,
           NEW e \in Execs, NEW x \in ExecType, ex' = [ex EXCEPT ![e] = x],
           x.pc # "idle" => x.row \in Rows,
           x.pc \notin Leased, ex[e].pc \notin Leased,
           x.pc \in {"prepared", "claimed"} => ~x.paused /\ x.spent = {} /\ ~x.dropped,
           x.pc # "idle" => x.row \notin torn' \/ Holds(e, x.row),
           hit \subseteq hit', hit' \subseteq Rows, faults' \in Nat, cards' \subseteq Rows,
           listed' \subseteq listed, torn' \subseteq torn,
           \A q \in torn' : rows'[q] = rows[q],
           NEW r \in Rows,
           \A q \in Rows : q # r => rows'[q] = rows[q],
           rows'[r].status = "completed" => rows[r].status = "completed",
           Kept(r) \/ r \in hit' \/ \A f \in Execs \ {e} : ~Holds(f, r)
    PROVE  IInv'
<1>0. TasksTypeOK
  BY DEF IInv
<1>1. ExOK' /\ ex'[e] = x /\ \A f \in Execs : f # e => ex'[f] = ex[f]
  BY <1>0, OneMoves
<1>2. TasksTypeOK'
  BY <1>0, <1>1 DEF TasksTypeOK, RowsOK, ExOK
<1>3. \A f \in Execs : ex'[f] = ex[f] \/ (ex'[f].pc \notin Leased /\ Early(f)')
  BY <1>1 DEF Early, Leased
<1>4. \A f \in Execs : (ex[f].pc \in Leased /\ ex'[f] = ex[f]) =>
          /\ rows'[ex[f].row].status # "completed"
          /\ ex[f].row \in hit' \/ Kept(ex[f].row)
  <2> SUFFICES ASSUME NEW f \in Execs, ex[f].pc \in Leased
               PROVE  /\ rows'[ex[f].row].status # "completed"
                      /\ ex[f].row \in hit' \/ Kept(ex[f].row)
    OBVIOUS
  <2>1. ex[f].row \in Rows /\ rows[ex[f].row].status # "completed" /\ f # e
    BY <1>0 DEF IInv, Sound, Marked, TasksTypeOK, Leased
  <2>2. CASE ex[f].row # r
    BY <2>1, <2>2 DEF Kept
  <2>3. CASE ex[f].row = r
    BY <2>1, <2>3 DEF Holds, Leased
  <2>q. QED BY <2>2, <2>3
<1>5. \A q \in torn' : \A f \in Execs : Holds(f, q)' => Holds(f, q)
  BY <1>1 DEF Holds
<1>q. QED BY <1>2, <1>3, <1>4, <1>5, Aloof

\* What Noted leaves behind.
LEMMA NotedRow ==
    ASSUME TasksTypeOK, NEW e \in Execs, NEW r \in Rows, hit' = Noted(e, r)
    PROVE  /\ hit \subseteq hit' /\ hit' \subseteq Rows
           /\ r \in hit' \/ (rows[r].status # "completed" /\ \A f \in Execs \ {e} : ~Holds(f, r))
BY DEF Noted, TasksTypeOK

LEMMA IdleUnleased == \A e \in Execs : ex[e].pc \in {"idle", "prepared", "claimed", "late", "overdue"}
                          => ex[e].pc \notin Leased
BY DEF Leased

LEMMA RefuseInv ==
    ASSUME IInv, NEW r \in Rows, Refuse(r)
    PROVE  IInv'
<1>u. /\ TasksTypeOK /\ up /\ UNCHANGED <<ex, torrent, media, up, faults, crashes, torn>>
      /\ r \in listed /\ listed' \subseteq listed /\ Stamp(r, "failed") /\ hit' = Noted(Scheduler, r)
      /\ Scheduler \in Execs /\ ex[Scheduler].pc = "idle"
  BY DEF IInv, Refuse, Execs
<1>1. /\ RowsOK' /\ cards' \subseteq Rows
      /\ rows'[r].status # "completed" \/ rows'[r] = rows[r]
      /\ \A q \in Rows : q # r => rows'[q] = rows[q]
  BY <1>u, Stamped, StatusNames
<1>2. \A q \in torn : rows'[q] = rows[q]
  BY <1>u, <1>1, TornRows
<1>3. ex' = [ex EXCEPT ![Scheduler] = ex[Scheduler]] /\ ex[Scheduler] \in ExecType
  BY <1>u DEF TasksTypeOK
<1>4. /\ hit \subseteq hit' /\ hit' \subseteq Rows
      /\ r \in hit' \/ \A f \in Execs \ {Scheduler} : ~Holds(f, r)
  BY <1>u, NotedRow
<1>5. ex[Scheduler].pc \notin Leased /\ faults' \in Nat /\ listed' \subseteq Rows
      /\ (rows'[r].status = "completed" => rows[r].status = "completed")
  BY <1>u, <1>1, IdleUnleased DEF TasksTypeOK
<1>6. torn' \subseteq torn /\ \A q \in torn' : rows'[q] = rows[q]
  BY <1>u, <1>2
<1> DEFINE x == ex[Scheduler]
<1>7. /\ x \in ExecType /\ ex' = [ex EXCEPT ![Scheduler] = x] /\ x.pc = "idle" /\ x.pc \notin Leased
  BY <1>u, <1>3, <1>5
<1> HIDE DEF x
<1>q. QED BY <1>u, <1>1, <1>4, <1>5, <1>6, <1>7, ThreadInv

LEMMA ClaimInv ==
    ASSUME IInv, NEW r \in Rows, Claim(r)
    PROVE  IInv'
<1>u. /\ TasksTypeOK /\ up /\ UNCHANGED <<torrent, media, up, faults, crashes, hit, torn>>
      /\ r \in listed /\ listed' \subseteq listed
      /\ Scheduler \in Execs /\ ex[Scheduler].pc = "idle" /\ ex[Scheduler].pc \notin Leased
      /\ listed' \subseteq Rows
  BY DEF IInv, Claim, Execs, TasksTypeOK, Leased
<1>t. r \notin torn
  BY <1>u, TornRows
<1>1. CASE rows[r].status = "waiting" /\ Stamp(r, "recognizing") /\ ex' = [ex EXCEPT ![Scheduler] = Taken(r)]
  <2>1. /\ RowsOK' /\ cards' \subseteq Rows /\ rows'[r].status = "recognizing"
        /\ \A q \in Rows : q # r => rows'[q] = rows[q]
    BY <1>u, <1>1, Stamped, StatusNames
  <2>2. Taken(r) \in ExecType /\ Taken(r).pc = "claimed" /\ Taken(r).row = r /\ ~Taken(r).paused
        /\ Taken(r).spent = {} /\ ~Taken(r).dropped
    BY DEF Taken, Idle, ExecType
  <2>3. Kept(r) /\ \A q \in torn' : rows'[q] = rows[q]
    BY <1>u, <1>t, <1>1, <2>1, TornRows DEF Kept
  <2>q. QED BY <1>u, <1>t, <1>1, <2>1, <2>2, <2>3, ThreadInv DEF TasksTypeOK, Leased
<1>2. CASE UNCHANGED <<rows, cards, ex>>
  <2>1. RowsOK' /\ cards' \subseteq Rows
    BY <1>u, <1>2 DEF TasksTypeOK, RowsOK
  <2>2. \A q \in Rows : Kept(q) /\ (rows'[q].status = "completed" => rows[q].status = "completed")
    BY <1>2 DEF Kept
  <2>q. QED BY <1>u, <1>2, <2>1, <2>2, BookInv DEF TasksTypeOK
<1>q. QED BY <1>1, <1>2 DEF Claim, ClaimFrom

LEMMA ClaimRaisesInv ==
    ASSUME IInv, NEW r \in Rows, ClaimRaises(r)
    PROVE  IInv'
<1> DEFINE x == [Taken(r) EXCEPT !.pc = "late"]
<1>u. /\ TasksTypeOK /\ up /\ UNCHANGED <<rows, cards, torrent, media, up, crashes, hit, torn>>
      /\ r \in listed /\ listed' \subseteq listed
      /\ Scheduler \in Execs /\ ex[Scheduler].pc \notin Leased
      /\ ex' = [ex EXCEPT ![Scheduler] = x]
  BY DEF IInv, ClaimRaises, Execs, Leased
<1>1. r \notin torn /\ faults' \in Nat
  BY <1>u, TornRows, FaultTyped DEF ClaimRaises
<1>2. x \in ExecType /\ x.pc = "late" /\ x.row = r
  BY DEF Taken, Idle, ExecType
<1>3. RowsOK' /\ Kept(r)
  BY <1>u DEF TasksTypeOK, RowsOK, Kept
<1> HIDE DEF x
<1>q. QED BY <1>u, <1>1, <1>2, <1>3, ThreadInv DEF TasksTypeOK, Leased

LEMMA PrepareInv ==
    ASSUME IInv, NEW e \in Requests, NEW r \in Rows, Prepare(e, r)
    PROVE  IInv'
<1> DEFINE x == [Idle EXCEPT !.pc = "prepared", !.row = r, !.kind = "web"]
<1>u. /\ TasksTypeOK /\ up /\ UNCHANGED <<listed, torrent, media, up, faults, crashes, hit, torn>>
      /\ e \in Execs /\ ex[e].pc \notin Leased /\ ex' = [ex EXCEPT ![e] = x]
  BY DEF IInv, Prepare, Execs, Leased
<1>2. /\ x \in ExecType /\ x.pc = "prepared" /\ x.row = r /\ ~x.paused /\ x.spent = {} /\ ~x.dropped
  BY DEF Idle, ExecType
<1> HIDE DEF x
<1>3. /\ rows[r].status \in {"failed", "requires_manual", "free"} /\ r \notin torn
      /\ RowsOK' /\ cards' \subseteq Rows /\ rows'[r].status = "waiting"
      /\ \A q \in Rows : q # r => rows'[q] = rows[q]
  <2>1. CASE Reusable(r) /\ Stamp(r, "waiting")
    <3>1. rows[r].status \in {"failed", "requires_manual"} /\ r \notin torn
      BY <1>u, <2>1, TornRows DEF Reusable
    <3>q. QED BY <1>u, <2>1, <3>1, Stamped, StatusNames
  <2>2. CASE Fresh(r) /\ rows' = [rows EXCEPT ![r] = New(FALSE)] /\ UNCHANGED cards
    <3>1. rows[r].status = "free" /\ r \notin torn
      BY <1>u, <2>2, TornRows DEF Fresh
    <3>q. QED BY <1>u, <2>2, <3>1, NewTyped DEF TasksTypeOK, RowsOK
  <2>q. QED BY <2>1, <2>2 DEF Prepare
<1>4. Kept(r) /\ \A q \in torn' : rows'[q] = rows[q]
  BY <1>u, <1>3, TornRows DEF Kept
<1>q. QED BY <1>u, <1>2, <1>3, <1>4, ThreadInv DEF TasksTypeOK, Leased

LEMMA ClaimPreparedInv ==
    ASSUME IInv, NEW e \in Execs, ClaimPrepared(e)
    PROVE  IInv'
<1> DEFINE r == ex[e].row
           x == [ex[e] EXCEPT !.pc = "claimed"]
<1>u. /\ TasksTypeOK /\ up /\ UNCHANGED <<listed, torrent, media, up, crashes, hit, torn>>
      /\ ex[e].pc = "prepared" /\ ex[e].pc \notin Leased /\ r \in Rows /\ ex[e] \in ExecType
      /\ ~ex[e].paused /\ ex[e].spent = {} /\ ~ex[e].dropped /\ Holds(e, r)
  BY DEF IInv, ClaimPrepared, TasksTypeOK, Leased, Sound, Early, Holds
<1>t. r \notin torn /\ faults' \in Nat
  BY <1>u, TornRows, FaultTyped DEF ClaimPrepared
<1>1. CASE rows[r].status = "waiting" /\ Stamp(r, "recognizing") /\ ex' = [ex EXCEPT ![e] = x]
  <2>x. x \in ExecType /\ x.pc = "claimed" /\ x.row = r /\ ~x.paused /\ x.spent = {} /\ ~x.dropped
    BY <1>u DEF ExecType
  <2> HIDE DEF x
  <2>1. /\ RowsOK' /\ cards' \subseteq Rows /\ rows'[r].status = "recognizing"
        /\ \A q \in Rows : q # r => rows'[q] = rows[q]
    BY <1>u, <1>1, Stamped, StatusNames
  <2>2. Kept(r) /\ \A q \in torn' : rows'[q] = rows[q]
    BY <1>u, <1>t, <1>1, <2>1, TornRows DEF Kept
  <2>q. QED BY <1>u, <1>t, <1>1, <2>x, <2>1, <2>2, ThreadInv DEF TasksTypeOK, Leased
<1>2. CASE ex' = [ex EXCEPT ![e] = Idle] /\ UNCHANGED <<rows, cards>>
  <2>1. RowsOK' /\ Kept(r)
    BY <1>u, <1>2 DEF TasksTypeOK, RowsOK, Kept
  <2>q. QED BY <1>u, <1>t, <1>2, <2>1, IdleTyped, ThreadInv DEF TasksTypeOK
<1>q. QED BY <1>1, <1>2 DEF ClaimPrepared, ClaimFrom

LEMMA ClaimByCardInv ==
    ASSUME IInv, NEW e \in Requests, NEW r \in Rows, ClaimByCard(e, r)
    PROVE  IInv'
<1> DEFINE x == [Taken(r) EXCEPT !.kind = "card"]
<1>u. /\ TasksTypeOK /\ up /\ UNCHANGED <<listed, torrent, media, up, faults, crashes, hit>>
      /\ rows[r].status = "requires_manual" /\ Stamp(r, "recognizing") /\ torn' = torn \ {r}
      /\ e \in Execs /\ ex[e].pc \notin Leased /\ ex' = [ex EXCEPT ![e] = x]
  BY DEF IInv, ClaimByCard, Execs, Leased
<1>2. /\ x \in ExecType /\ x.pc = "claimed" /\ x.row = r /\ ~x.paused /\ x.spent = {} /\ ~x.dropped
  BY DEF Taken, Idle, ExecType
<1> HIDE DEF x
<1>3. /\ RowsOK' /\ cards' \subseteq Rows /\ rows'[r].status = "recognizing"
      /\ \A q \in Rows : q # r => rows'[q] = rows[q]
  BY <1>u, Stamped, StatusNames
<1>4. Kept(r) /\ \A q \in torn' : rows'[q] = rows[q]
  BY <1>u, <1>3, TornRows DEF Kept
<1>q. QED BY <1>u, <1>2, <1>3, <1>4, ThreadInv DEF TasksTypeOK, Leased

\* A row is written by a thread that holds it, noting whether another one does, or left alone.
LEMMA HandlerInv ==
    ASSUME IInv, up, UNCHANGED <<listed, torrent, media, up, crashes, torn>>,
           NEW e \in Execs, ex[e].pc \in {"claimed", "late", "overdue"}, faults' \in Nat,
           NEW x \in ExecType, ex' = [ex EXCEPT ![e] = x], x.pc \in {"idle", "late", "overdue"},
           x.pc # "idle" => x.row = ex[e].row,
           \/ /\ \E s \in {"failed", "requires_manual"} : Stamp(ex[e].row, s)
              /\ hit' = Noted(e, ex[e].row)
           \/ UNCHANGED <<rows, cards, hit>>
    PROVE  IInv'
<1> DEFINE r == ex[e].row
<1>u. TasksTypeOK /\ r \in Rows /\ ex[e].pc \notin Leased /\ x.pc \notin Leased /\ Holds(e, r)
  BY DEF IInv, TasksTypeOK, Leased, Holds
<1>t. r \notin torn
  BY <1>u, TornRows
<1>1. ASSUME NEW s \in {"failed", "requires_manual"}, Stamp(r, s), hit' = Noted(e, r)
      PROVE  IInv'
  <2>1. /\ RowsOK' /\ cards' \subseteq Rows
        /\ rows'[r].status # "completed" \/ rows'[r].status = rows[r].status
        /\ \A q \in Rows : q # r => rows'[q] = rows[q]
    BY <1>u, <1>1, Stamped, StatusNames
  <2>2. \A q \in torn' : rows'[q] = rows[q]
    BY <1>t, <2>1, TornRows
  <2>3. /\ hit \subseteq hit' /\ hit' \subseteq Rows
        /\ r \in hit' \/ \A f \in Execs \ {e} : ~Holds(f, r)
    BY <1>u, <1>1, NotedRow
  <2>q. QED BY <1>u, <1>t, <2>1, <2>2, <2>3, ThreadInv DEF TasksTypeOK
<1>2. CASE UNCHANGED <<rows, cards, hit>>
  <2>1. RowsOK' /\ Kept(r) /\ cards' \subseteq Rows /\ hit' \subseteq Rows
    BY <1>u, <1>2 DEF TasksTypeOK, RowsOK, Kept
  <2>q. QED BY <1>u, <1>t, <1>2, <2>1, ThreadInv DEF TasksTypeOK
<1>q. QED BY <1>1, <1>2

LEMMA SettleInv ==
    ASSUME IInv, NEW e \in Execs, NoClient(e) \/ Reject(e) \/ Look(e) \/ Overwrite(e)
    PROVE  IInv'
<1> DEFINE y(p) == [ex[e] EXCEPT !.pc = p]
<1>u. /\ TasksTypeOK /\ up /\ UNCHANGED <<listed, torrent, media, up, crashes, torn>>
      /\ ex[e].pc \in {"claimed", "late", "overdue"} /\ ex[e] \in ExecType
  BY DEF IInv, TasksTypeOK, NoClient, Reject, Look, Overwrite
<1>f. faults' \in Nat
  BY <1>u, FaultTyped DEF NoClient, Reject, Look, Overwrite, TasksTypeOK
<1>y. \A p \in {"late", "overdue"} : y(p) \in ExecType /\ y(p).pc = p /\ y(p).row = ex[e].row
  BY <1>u DEF ExecType
<1>x. \/ ex' = [ex EXCEPT ![e] = Idle]
      \/ \E p \in {"late", "overdue"} : ex' = [ex EXCEPT ![e] = y(p)]
  BY <1>u DEF NoClient, Reject, Look, Overwrite, TasksTypeOK
<1> HIDE DEF y
<1>w. \/ /\ \E s \in {"failed", "requires_manual"} : Stamp(ex[e].row, s)
         /\ hit' = Noted(e, ex[e].row)
      \/ UNCHANGED <<rows, cards, hit>>
  BY DEF NoClient, Reject, Look, Overwrite
<1>1. PICK x \in ExecType : /\ ex' = [ex EXCEPT ![e] = x] /\ x.pc \in {"idle", "late", "overdue"}
                            /\ x.pc # "idle" => x.row = ex[e].row
  BY <1>x, <1>y, IdleTyped
<1>q. QED BY <1>u, <1>f, <1>w, <1>1, HandlerInv

-----------------------------------------------------------------------------
(* Crashes and starts.                                                     *)

LEMMA CrashInv ==
    ASSUME IInv, Crash
    PROVE  IInv'
<1>u. /\ TasksTypeOK /\ up /\ up' = FALSE /\ listed' = {} /\ ex' = [e \in Execs |-> Idle]
      /\ UNCHANGED <<rows, cards, torrent, faults, hit>>
      /\ torn' = torn \cup {r \in Rows \ hit : \E e \in Execs : Holds(e, r) /\ InWrite(e)}
  BY DEF IInv, Crash
<1>1. \A e \in Execs : ex'[e] = Idle
  BY <1>u
<1>2. TasksTypeOK'
  <2>1. crashes' \in Nat /\ media' \in {"source", "target", "mixed"}
    BY <1>u DEF Crash, TasksTypeOK
  <2>2. ex' \in [Execs -> ExecType]
    BY <1>u, IdleTyped
  <2>q. QED BY <1>u, <1>1, <2>1, <2>2, IdleTyped DEF TasksTypeOK
<1>3. \A e \in Execs : Sound(e)'
  BY <1>1, IdleTyped, EarlyIsEnough DEF Early
<1>4. OneWriter' /\ DownIdle'
  BY <1>1, IdleTyped DEF OneWriter, DownIdle
<1>5. ASSUME NEW q \in torn'
      PROVE  Waits(q)'
  <2>1. CASE q \in torn
    BY <1>u, <1>1, <2>1, TornRows, IdleTyped DEF Waits, CutRow, Holds
  <2>2. CASE q \notin torn
    <3>1. PICK e \in Execs : Holds(e, q) /\ InWrite(e) /\ q \in Rows \ hit
      BY <1>u, <2>2
    <3>2. rows[q].status = "writing"
      BY <3>1 DEF IInv, Sound, Marked, Holds
    <3>q. QED BY <1>u, <1>1, <3>2, IdleTyped DEF Waits, Holds
  <2>q. QED BY <2>1, <2>2
<1>q. QED BY <1>2, <1>3, <1>4, <1>5 DEF IInv

LEMMA RecoveredRow ==
    ASSUME NEW t \in RowType
    PROVE  /\ Recovered(t) \in RowType
           /\ t.status \notin {"recognizing", "planned", "writing"} => Recovered(t) = t
           /\ t.status = "writing" => Recovered(t).status = "requires_manual" /\ Recovered(t).cut
<1>1. CASE t.status \in {"recognizing", "planned"}
  BY <1>1 DEF Recovered, RowType, Statuses, Final
<1>2. CASE t.status = "writing"
  BY <1>2 DEF Recovered, RowType, Statuses, Active
<1>3. CASE t.status \notin {"recognizing", "planned", "writing"}
  BY <1>3 DEF Recovered
<1>q. QED BY <1>1, <1>2, <1>3

LEMMA StartInv ==
    ASSUME IInv, Start
    PROVE  IInv'
<1>u. /\ TasksTypeOK /\ up' = TRUE
      /\ UNCHANGED <<ex, listed, cards, torrent, media, faults, crashes, hit, torn>>
  BY DEF IInv, Start
<1>1. CASE LeaseFree /\ rows' = [r \in Rows |-> Recovered(rows[r])]
  <2>1. \A r \in Rows : rows'[r] = Recovered(rows[r]) /\ rows[r] \in RowType
    BY <1>u, <1>1 DEF TasksTypeOK
  <2>2. rows' \in [Rows -> RowType]
    BY <1>1, <2>1, RecoveredRow
  <2>3. TasksTypeOK'
    BY <1>u, <2>2 DEF TasksTypeOK
  <2>4. \A f \in Execs : Sound(f)'
    BY <1>u, <1>1, Unleased DEF IInv, LeaseFree
  <2>5. OneWriter' /\ DownIdle'
    BY <1>u DEF IInv, OneWriter, DownIdle
  <2>6. ASSUME NEW q \in torn
        PROVE  Waits(q)'
    <3>1. q \in Rows /\ q \notin listed /\ \A e \in Execs : ~Holds(e, q)
      BY <1>u DEF IInv, Waits, TasksTypeOK
    <3>2. CutRow(q) \/ rows[q].status = "writing"
      BY DEF IInv, Waits
    <3>3. rows'[q].status = "requires_manual" /\ rows'[q].cut
      BY <2>1, <3>1, <3>2, RecoveredRow DEF CutRow
    <3>q. QED BY <1>u, <3>1, <3>3 DEF Waits, CutRow, Holds
  <2>q. QED BY <1>u, <2>3, <2>4, <2>5, <2>6 DEF IInv
<1>2. CASE ~LeaseFree /\ rows' = rows
  <2>1. up
    BY <1>2 DEF IInv, DownIdle, LeaseFree, Leased
  <2>2. RowsOK' /\ \A q \in Rows : Kept(q)
    BY <1>u, <1>2 DEF TasksTypeOK, RowsOK, Kept
  <2>q. QED BY <1>u, <1>2, <2>1, <2>2, BookInv DEF TasksTypeOK
<1>q. QED BY <1>1, <1>2 DEF Start, MayRecover

-----------------------------------------------------------------------------
(* The theorems.                                                           *)

LEMMA StepInv == IInv /\ [Next]_vars => IInv'
<1> SUFFICES ASSUME IInv, [Next]_vars PROVE IInv'
  OBVIOUS
<1>1. CASE UNCHANGED vars
  <2>1. UNCHANGED <<rows, ex, listed, cards, torrent, media, up, faults, crashes, hit, torn>>
    BY <1>1 DEF vars
  <2>2. TasksTypeOK' /\ OneWriter' /\ DownIdle'
    BY <2>1 DEF IInv, TasksTypeOK, OneWriter, DownIdle
  <2>3. \A f \in Execs : Sound(f)'
    BY <2>1 DEF IInv, Sound, Early, InPlace, Marked, Quiet, InWrite, NoReturn
  <2>4. \A q \in torn' : Waits(q)'
    BY <2>1 DEF IInv, Waits, CutRow, Holds
  <2>q. QED BY <2>2, <2>3, <2>4 DEF IInv
<1>2. CASE Scan \/ Download \/ List \/ Crash \/ Start \/ Control \/ Arrive
  BY <1>2, ScanInv, DownloadInv, ReadersInv, CrashInv, StartInv, ArriveInv
<1>3. ASSUME NEW r \in Rows,
             \/ \E sure \in BOOLEAN : Retry(r, sure)
             \/ MakeCard(r) \/ DropCard(r) \/ Delete(r)
             \/ Refuse(r) \/ Claim(r) \/ ClaimRaises(r)
             \/ \E e \in Requests : Prepare(e, r) \/ ClaimByCard(e, r)
      PROVE  IInv'
  BY <1>3, RetryInv, ReadersInv, DeleteInv, RefuseInv, ClaimInv, ClaimRaisesInv, PrepareInv, ClaimByCardInv
<1>4. ASSUME NEW e \in Execs,
             \/ ClaimPrepared(e) \/ NoClient(e) \/ Reject(e) \/ Begin(e) \/ Pause(e)
             \/ Move(e) \/ Retire(e) \/ Finish(e) \/ Undo(e) \/ Look(e) \/ Overwrite(e)
      PROVE  IInv'
  BY <1>4, ClaimPreparedInv, SettleInv, BeginInv, PauseInv, MoveInv, RetireInv, FinishInv, UndoInv
<1>q. QED BY <1>1, <1>2, <1>3, <1>4 DEF Next

THEOREM Invariance == TasksSpec => []IInv
BY InitInv, StepInv, PTL DEF TasksSpec

\* The rows, the threads, the torrent and the ghosts keep their types.
THEOREM TasksTypeCorrect == TasksSpec => []TasksTypeOK
<1>1. IInv => TasksTypeOK
  BY DEF IInv
<1>q. QED BY <1>1, Invariance, PTL

\* However many threads, rows, faults and crashes there are, no torrent runs while the service
\* moves its files: the lease, the status "writing" and the check of the controls see to it.
THEOREM QuietAlways == TasksSpec => []QuietWhileMoving
<1>1. IInv => QuietWhileMoving
  BY DEF IInv, Sound, Quiet, QuietWhileMoving
<1>q. QED BY <1>1, Invariance, PTL

\* A write that a crash cut off waits for a person, however many starts follow.
THEOREM InterruptedAlwaysWaits == TasksSpec => []InterruptedWaits
<1>1. IInv => InterruptedWaits
  BY DEF IInv, Waits, CutRow, InterruptedWaits
<1>q. QED BY <1>1, Invariance, PTL

LEMMA ResumesInPlace ==
    ASSUME IInv, Next, NEW e \in Execs, ex[e].pc = "undo", ex'[e].pc # "undo",
           torrent # "running", torrent' = "running"
    PROVE  media = ex[e].at \/ ex[e].dropped
<1>0. TasksTypeOK
  BY DEF IInv
<1>1. ~(Scan \/ Download \/ List \/ Crash \/ Start \/ Arrive \/ Control)
  BY DEF Scan, Download, List, Crash, Start, Arrive, Control
<1>2. \A r \in Rows :
        /\ \A sure \in BOOLEAN : ~Retry(r, sure)
        /\ ~(MakeCard(r) \/ DropCard(r) \/ Delete(r) \/ Refuse(r) \/ Claim(r) \/ ClaimRaises(r))
        /\ \A f \in Requests : ~(Prepare(f, r) \/ ClaimByCard(f, r))
  BY DEF Retry, MakeCard, DropCard, Delete, Refuse, Claim, ClaimRaises, Prepare, ClaimByCard
<1>3. \A f \in Execs :
        ~(ClaimPrepared(f) \/ NoClient(f) \/ Reject(f) \/ Begin(f) \/ Move(f)
          \/ Finish(f) \/ Look(f) \/ Overwrite(f))
  BY DEF ClaimPrepared, NoClient, Reject, Begin, Move, Finish, Look, Overwrite
<1>4. \A f \in Execs : ~Pause(f) /\ ~Retire(f)
  BY DEF Pause, Retire, AfterPause
<1>5. PICK f \in Execs : Undo(f)
  BY <1>1, <1>2, <1>3, <1>4 DEF Next
<1>6. f = e
  BY <1>5 DEF IInv, OneWriter, Leased, Undo
<1>7. Resumes(ex[e])
  BY <1>5, <1>6 DEF Undo
<1>q. QED BY <1>7 DEF IInv, Sound, InPlace, Resumes, NoReturn, Leased

\* The service resumes a torrent only over files it found so, whatever failed before, unless
\* the move of that very run lost the errors of its rollback.
THEOREM ResumesUntouched == TasksSpec => ResumedOnlyUntouched
<1>1. IInv /\ [Next]_vars =>
        [\A e \in Execs : /\ ex[e].pc = "undo" /\ ex'[e].pc # "undo"
                          /\ torrent # "running" /\ torrent' = "running"
                          => media = ex[e].at \/ ex[e].dropped]_vars
  BY ResumesInPlace
<1>q. QED BY <1>1, Invariance, PTL DEF TasksSpec, ResumedOnlyUntouched

\* A write that is not of the row, or is noted, or writes a row that is not completed.
LEMMA StampSpares ==
    ASSUME TasksTypeOK, NEW q \in Rows, NEW r \in Rows, NEW s \in Statuses, Stamp(q, s),
           rows[r].status = "completed", q # r
    PROVE  rows'[r].status = "completed"
BY Stamped

LEMMA CompletedSpared ==
    ASSUME IInv, Next, NEW r \in Rows, rows[r].status = "completed"
    PROVE  rows'[r].status \in {"completed", "waiting", "gone"} \/ r \in hit'
<1> DEFINE Spared == rows'[r].status \in {"completed", "waiting", "gone"} \/ r \in hit'
<1>0. TasksTypeOK /\ rows \in [Rows -> RowType]
  BY DEF IInv, TasksTypeOK
<1>1. CASE Scan \/ Download \/ List \/ Crash \/ Start \/ Control \/ Arrive
  <2>1. CASE Scan
    BY <1>0, <2>1 DEF Scan, New
  <2>2. CASE Download
    <3>1. ASSUME NEW a \in Rows, rows' = [q \in Rows |-> [rows[q] EXCEPT !.hash = (q = a)]]
          PROVE  Spared
      BY <1>0, <3>1 DEF RowType
    <3>2. ASSUME NEW a \in Rows, rows' = [rows EXCEPT ![a] = New(TRUE)]
          PROVE  Spared
      BY <1>0, <3>2 DEF New
    <3>q. QED BY <2>2, <3>1, <3>2 DEF Download, HashRows
  <2>3. CASE Start
    BY <1>0, <2>3, RecoveredRow DEF Start
  <2>4. CASE List \/ Crash \/ Control \/ Arrive
    BY <2>4 DEF List, Crash, Control, Arrive
  <2>q. QED BY <1>1, <2>1, <2>2, <2>3, <2>4
<1>2. ASSUME NEW q \in Rows,
             \/ \E sure \in BOOLEAN : Retry(q, sure)
             \/ MakeCard(q) \/ DropCard(q) \/ Delete(q)
             \/ Refuse(q) \/ Claim(q) \/ ClaimRaises(q)
             \/ \E e \in Requests : Prepare(e, q) \/ ClaimByCard(e, q)
      PROVE  Spared
  <2>1. CASE MakeCard(q) \/ DropCard(q) \/ ClaimRaises(q)
    BY <2>1 DEF MakeCard, DropCard, ClaimRaises
  <2>2. CASE Delete(q)
    BY <1>0, <2>2 DEF Delete, Unused
  <2>3. CASE Refuse(q)
    <3>1. Stamp(q, "failed") /\ hit' = Noted(Scheduler, q) /\ Scheduler \in Execs
      BY <2>3 DEF Refuse, Execs
    <3>q. QED BY <1>0, <3>1, StampSpares, StatusNames, NotedRow
  <2>4. CASE \/ \E sure \in BOOLEAN : Retry(q, sure)
             \/ Claim(q) \/ \E e \in Requests : Prepare(e, q) \/ ClaimByCard(e, q)
    <3>1. rows' = rows \/ (q # r /\ \E s \in {"waiting", "recognizing"} : Stamp(q, s))
          \/ (q # r /\ rows' = [rows EXCEPT ![q] = New(FALSE)])
      BY <2>4 DEF Retry, Claim, ClaimFrom, Prepare, ClaimByCard, Reusable, Fresh
    <3>q. QED BY <1>0, <3>1, StampSpares, StatusNames
  <2>q. QED BY <1>2, <2>1, <2>2, <2>3, <2>4
<1>3. ASSUME NEW e \in Execs,
             \/ ClaimPrepared(e) \/ NoClient(e) \/ Reject(e) \/ Begin(e) \/ Pause(e)
             \/ Move(e) \/ Retire(e) \/ Finish(e) \/ Undo(e) \/ Look(e) \/ Overwrite(e)
      PROVE  Spared
  <2>r. ex[e].pc # "idle" => ex[e].row \in Rows
    BY <1>0 DEF TasksTypeOK
  <2>m. ex[e].pc \in Leased => ex[e].row # r
    BY DEF IInv, Sound, Marked
  <2>1. CASE Reject(e) \/ Move(e) \/ Look(e)
    BY <2>1 DEF Reject, Move, Look
  <2>2. CASE NoClient(e) \/ Overwrite(e)
    <3>1. /\ ex[e].row \in Rows
          /\ \/ rows' = rows
             \/ hit' = Noted(e, ex[e].row) /\ \E s \in {"failed", "requires_manual"} : Stamp(ex[e].row, s)
      BY <2>2, <2>r DEF NoClient, Overwrite
    <3>q. QED BY <1>0, <3>1, StampSpares, StatusNames, NotedRow
  <2>3. CASE ClaimPrepared(e) \/ Begin(e) \/ Pause(e) \/ Retire(e) \/ Finish(e) \/ Undo(e)
    <3>1. ex[e].row \in Rows /\ (rows' = rows \/ ex[e].row # r)
      BY <2>3, <2>r, <2>m
         DEF ClaimPrepared, ClaimFrom, Begin, Refused, Pause, Retire, Finish, Undo, Leased
    <3>2. rows' = rows \/ \E s \in Statuses : Stamp(ex[e].row, s)
      BY <2>3, StatusNames DEF ClaimPrepared, Begin, Pause, Retire, Finish, Undo
    <3>q. QED BY <1>0, <3>1, <3>2, StampSpares
  <2>q. QED BY <1>3, <2>1, <2>2, <2>3
<1>q. QED BY <1>1, <1>2, <1>3 DEF Next

\* No second delivery of a completed task turns it back, however many threads hold it.
THEOREM CompletedAlwaysStays == TasksSpec => CompletedStays
<1>1. IInv /\ [Next]_vars =>
        [\A r \in Rows : rows[r].status = "completed"
            => rows'[r].status \in {"completed", "waiting", "gone"} \/ r \in hit']_vars
  BY CompletedSpared
<1>q. QED BY <1>1, Invariance, PTL DEF TasksSpec, CompletedStays
=============================================================================
