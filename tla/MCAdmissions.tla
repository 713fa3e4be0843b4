----------------------------- MODULE MCAdmissions -----------------------------
EXTENDS Admissions, TLC

CONSTANTS c1, c2

MCSymmetry == Permutations(Callers)

\* Two resources for the same episode.
MCKeyOf == [c \in Candidates |-> "episode"]
MCResourceOf == [c \in Candidates |-> IF c = c1 THEN "web" ELSE "bluray"]

\* One event with two callers under way or three requests, two with less.
Bounded ==
    (\A p \in Callers : callers[p].pc # "idle") \/ Len(reqs) = 3 => events <= 1
=============================================================================
