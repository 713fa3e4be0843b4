------------------------- MODULE MCDownloadRequest -------------------------
\* Small instances of DownloadRequest for TLC.
EXTENDS DownloadRequest, TLC

AnyTargets == {{"qb"}, {"gy"}, {"qb", "gy"}}

\* Any troubles meet a request alone; one meets a request and its successor, if each
\* of them has one target.
Narrow == \A r \in Rows : \A b, c \in Backends : req[r].back[b] # "" /\ req[r].back[c] # "" => b = c
Bounded == made > 1 => troubles <= IF Narrow THEN 1 ELSE 0

Symmetry == Permutations(Submitters)
=============================================================================
