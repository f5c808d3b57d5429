SPECIFICATION FairSpec
CONSTANTS
    r1 = r1
    w1 = w1
    w2 = w2
    Runs <- MCRuns
    Workers <- MCWorkers
    NoRun = NoRun
    MaxAttempts = 2
INVARIANTS CompletedJobSettledRun OutcomeOfOneAttempt
PROPERTIES TerminalRowFrozen StartStampedOnce RunSettles ImplementsLifecycle
CHECK_DEADLOCK FALSE
