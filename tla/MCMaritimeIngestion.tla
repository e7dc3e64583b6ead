------------------------ MODULE MCMaritimeIngestion ------------------------
(* A live vessel whose positions enter, leave and enter again, and one of  *)
(* the recording.                                                          *)
EXTENDS MaritimeIngestion

CONSTANTS v1, v2

Live(i, t, side) ==
    [id |-> i, vessel |-> v1, at |-> t, live |-> TRUE,
     inside |-> side, whole |-> TRUE]

Recorded2(i, t, side) == [Live(i, t, side) EXCEPT !.vessel = v2, !.live = FALSE]

\* Messages 2 and 3 have one timestamp; message 4 has no MMSI.
MCLiveMessages ==
    {Live(1, 1, FALSE), Live(2, 2, TRUE), Live(3, 2, FALSE),
     [Live(4, 3, TRUE) EXCEPT !.whole = FALSE], Live(5, 3, TRUE)}

MCRecording == <<Recorded2(6, 1, FALSE), Recorded2(7, 2, TRUE)>>
============================================================================
