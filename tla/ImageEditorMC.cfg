SPECIFICATION Spec
CONSTANTS
    Sources = {"wide", "square"}
    First = "wide"
    Size <- MCSize
    Ratio <- MCRatio
    Handles = {"e", "w", "move"}
    Pulls <- MCPulls
    Straightens = {0, 1}
    Zooms = {900}
    MaxHistory = 2
    MaxOps = 5
    MinCropSize = 10
    None = None
INVARIANTS Told NoDeadPixels ShownIsNamed
PROPERTIES ImplementsUndoLog
CHECK_DEADLOCK FALSE
