\* Two events retained, a queue of one, a failed request, a lost connection or a
\* restart.
SPECIFICATION FairSpec
CONSTANTS
    HistorySize = 2
    QueueSize = 1
    WireSize = 1
    Fetches = {f1, f2}
    MaxStored = 2
    MaxSequence = 3
    MaxRefusals = 1
    MaxLosses = 1
INVARIANTS
    EventsAscend
    AnnouncementsReachTheMap
PROPERTIES
    AnnouncementsAreShown
