SPECIFICATION Spec
CONSTANTS
    Windows = {FALSE, TRUE}
    Counts = {0, 1}
    MaxRuns = 2
    MaxSession = 2
INVARIANTS EachRunEndsForItsOwnReason AtMostOneSendAfterStop WindowsShowsWhatRuns
PROPERTY StoppedRunsEnd
CHECK_DEADLOCK FALSE
