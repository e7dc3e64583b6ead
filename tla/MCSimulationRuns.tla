------------------------- MODULE MCSimulationRuns -------------------------
(* Small instances of SimulationRuns.                                      *)
EXTENDS SimulationRuns, TLC

CONSTANTS t1, t2, t3

\* A start, a cancellation, and a request that may be either.
StartAnyCancel ==
    t1 :> [op : {"start"}, run : Runs, key : Keys] @@ t2 :> Payload
      @@ t3 :> [op : {"cancel"}, run : Runs, key : Keys]
============================================================================
