---------------------------- MODULE MCNvFaults -----------------------------
(***************************************************************************)
(* drv_nv.c under faults, two small instances of which one runs: part says *)
(* which.                                                                  *)
(*   "store"  two items, one of which is also removed                      *)
(*   "count"  the frame counter, in sectors of four counts                 *)
(***************************************************************************)
EXTENDS NvStore

CONSTANTS i1, i2, v1, Off, NoSect

VARIABLES part, flashC, ramC, opC, floorC, faultsC

\* all items of one size
EqualSize == [i \in Item |-> 12]

\* refused operations leave far more contents than power losses alone
CountFaults == {{"crash"}, {"refuse"}}
Bounds == [f \in CountFaults |-> IF "refuse" \notin f THEN 5 ELSE 1]

Count == INSTANCE NvFrameCount WITH
  CntNum <- 4, Thres <- 1, MaxGap <- 2, TornMore <- 2, FaultSets <- CountFaults,
  MaxCount <- Bounds, flash <- flashC, ram <- ramC, op <- opC, floor <- floorC,
  faults <- faultsC

ASSUME Count!FrameCountAssumption

countVars == <<flashC, ramC, opC, floorC, faultsC>>
partVars == <<part, vars, countVars>>

PartInit ==
  /\ part \in {"store", "count"}
  /\ Init /\ Count!Init
  /\ part = "store" => faultsC = {"crash"}

PartNext ==
  /\ UNCHANGED part
  /\ \/ part = "store" /\ Next /\ UNCHANGED countVars
     \/ part = "count" /\ Count!Next /\ UNCHANGED vars

\* a call runs until it returns, unless power is lost
PartSpec ==
  /\ PartInit /\ [][PartNext]_partVars
  /\ WF_partVars(part = "store" /\ Step /\ UNCHANGED <<part, countVars>>)
  /\ WF_partVars(part = "count" /\ Count!Step /\ UNCHANGED <<part, vars>>)
-----------------------------------------------------------------------------
\* The counter's state is well formed, and at every moment a restart would load a count that is not below any count
\* saved without an error before it, and the sectors of the counter take over
\* from each other in order, as long as no flash operation is refused.
CountSurvives == [][Count!TypeOK' /\ Count!CountKept' /\ Count!TakesOver]_countVars

\* Every request to the store and every save of the counter returns: a failed
\* one is retried once and no more.
CallsReturn == RequestReturns /\ Count!SaveReturns
=============================================================================
