-------------------------- MODULE MCMediaRefresh --------------------------
EXTENDS MediaRefresh, TLC

CONSTANTS w1, w2, g1, g2, p1, p2, t1, t2

\* Every group resolves a path to the same item: what two groups of one
\* provider, one with a library binding and one without, do.
SharedItems == [g \in Groups |-> (p1 :> t1 @@ p2 :> t2)]

\* The groups meet in one item only.
OneSharedItem == (g1 :> (p1 :> t1 @@ p2 :> t2)) @@ (g2 :> (p1 :> t1 @@ p2 :> t1))

=============================================================================
