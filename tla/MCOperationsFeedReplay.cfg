\* A connection that is lost and resumed; snapshots are fetched one at a time.
SPECIFICATION Spec
CONSTANTS
    HistorySize = 2
    QueueSize = 1
    WireSize = 1
    Fetches = {f1}
    MaxStored = 2
    MaxSequence = 3
    MaxRefusals = 0
    MaxLosses = 1
INVARIANTS
    ReconnectsCatchUp
