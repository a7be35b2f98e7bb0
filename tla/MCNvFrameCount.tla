--------------------------- MODULE MCNvFrameCount ---------------------------
(* Small instances of NvFrameCount.                                        *)
EXTENDS NvFrameCount

\* refused operations leave far more contents than power losses alone
Bounds == [f \in FaultSets |-> IF "refuse" \notin f THEN 5 ELSE 1]
=============================================================================
