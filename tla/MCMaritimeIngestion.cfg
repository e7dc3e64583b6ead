\* Late, repeated and malformed messages, a lost connection, a failing call, a restart.
\* The task ends after the recording or a second failure, so a behaviour may end.
SPECIFICATION FairSpec
CONSTANTS
    None = None
    v1 = v1
    v2 = v2
    Vessels = {v1, v2}
    LiveMessages <- MCLiveMessages
    Recording <- MCRecording
    MaxRetries = 1
    MaxFaults = 2
    MaxRestarts = 1
CHECK_DEADLOCK FALSE
INVARIANTS
    NewestIsShown
    SegmentsTile
    ModeNamesTheSource
    ModeIsRecorded
    CrossingsAlternate
PROPERTIES
    ReconnectingEnds
