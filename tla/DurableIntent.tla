--------------------------- MODULE DurableIntent ---------------------------
(***************************************************************************)
(* What a durable work queue promises its producers, with the workers, the *)
(* leases and the retries left out: work that was asked for stays in the   *)
(* queue until it has been carried out at least once after the last time   *)
(* it was asked for.                                                       *)
(*                                                                         *)
(*   todo   the items the queue still holds                                *)
(*   fresh  the items asked for since they were last carried out           *)
(***************************************************************************)
CONSTANT Items

VARIABLES todo, fresh

vars == <<todo, fresh>>

Init == todo = {} /\ fresh = {}

Ask(S) ==
    /\ todo' = todo \cup S
    /\ fresh' = fresh \cup S

\* Carrying out an item leaves it in the queue: only Retire removes it.
CarryOut(S) ==
    /\ fresh' = fresh \ S
    /\ UNCHANGED todo

Retire(S) ==
    /\ S \cap fresh = {}
    /\ todo' = todo \ S
    /\ UNCHANGED fresh

Next == \E S \in SUBSET Items : Ask(S) \/ CarryOut(S) \/ Retire(S)

Spec == Init /\ [][Next]_vars

=============================================================================
