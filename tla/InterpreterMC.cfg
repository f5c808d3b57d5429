SPECIFICATION Spec
CONSTANTS
    Blocks <- MCBlocks
    Top = "top"
    Kind <- MCKind
    Kids <- MCKids
    Above <- MCAbove
    Rethrow = {"try2"}
    Otherwise = {"cond4"}
    Target <- MCTarget
    MaxDepth = 16
INVARIANTS NothingOutlives InterruptedOnlyByContext HandlersKeepFailures
PROPERTIES RunEnds
CHECK_DEADLOCK FALSE
