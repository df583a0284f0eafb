CONSTANTS
    Calls <- EveryCall
    MaxRetries = 1
    MaxFrames = 2
SPECIFICATION Spec
INVARIANTS AttemptsSound RecordIsWhole StreamVerdictExact
PROPERTIES FinalizersCoverStream
CHECK_DEADLOCK FALSE
