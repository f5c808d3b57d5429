--------------------------- MODULE WorkflowRunsMC ---------------------------
EXTENDS WorkflowRuns

CONSTANTS r1, w1, w2

MCRuns == {r1}
MCWorkers == {w1, w2}
=============================================================================
