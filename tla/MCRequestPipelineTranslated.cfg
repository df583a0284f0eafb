CONSTANTS
    Calls <- Translated
    MaxRetries = 0
    MaxFrames = 2
SPECIFICATION FairSpec
INVARIANTS CompleteStreamSucceeds
CHECK_DEADLOCK FALSE
