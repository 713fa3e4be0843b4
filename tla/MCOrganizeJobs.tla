--------------------------- MODULE MCOrganizeJobs ---------------------------
EXTENDS OrganizeJobs

CONSTANTS j1, j2, j3, j4

\* One plan of two operations that meets troubles, or two short ones side by side.
MCPlans ==
    [j \in Jobs |-> CASE j = j1 -> <<"write", "copy">>
                      [] j = j2 -> <<"copy", "write">>
                      [] j = j3 -> <<"copy">>
                      [] j = j4 -> <<"write">>]
MCTogether == {{j1}, {j2}, {j3, j4}}
MCFairSpec == JobsSpec /\ JobsFairness
=============================================================================
