----------------------------- MODULE MCNvCalls ------------------------------
(***************************************************************************)
(* Three small instances of NvStore, one of which runs: part says which.   *)
(*   "map"     everything that can go wrong, with two values, no removals  *)
(*   "space"   three items that just fit or just do not, with power losses *)
(*   "remove"  items are removed too, and nothing goes wrong               *)
(***************************************************************************)
EXTENDS NvStore, TLC

CONSTANTS i1, i2, i3, v1, v2,  \* the items and values of the other two stores
          j1, j2, w1, w2       \* those of the first, which are interchangeable

VARIABLES part, flashS, opS, flashR, opR

Sizes(items) == [i \in items |-> IF i = i1 THEN 9 ELSE 12]
EqualSize == Sizes({j1, j2})

\* a third item fits in 33 bytes, a second in 21, only if the one of 9 (12
\* aligned) is last
Space == INSTANCE NvStore WITH
  Item <- {i1, i2, i3}, Value <- {v1}, ItemSize <- Sizes({i1, i2, i3}), IdxNum <- 3,
  ContextSize <- 33, CrcCoversState <- TRUE, Removable <- {}, Faults <- {"crash"},
  flash <- flashS, op <- opS

Removals == INSTANCE NvStore WITH
  Item <- {i1, i2}, Value <- {v1, v2}, ItemSize <- Sizes({i1, i2}), IdxNum <- 2,
  ContextSize <- 21, CrcCoversState <- TRUE, Removable <- {i1, i2}, Faults <- {},
  flash <- flashR, op <- opR

Interchangeable == Permutations({j1, j2}) \cup Permutations({w1, w2})

spaceVars == <<flashS, opS>>
removeVars == <<flashR, opR>>
partVars == <<part, vars, spaceVars, removeVars>>

PartInit ==
  /\ part \in {"map", "space", "remove"}
  /\ Init /\ Space!Init /\ Removals!Init

PartNext ==
  /\ UNCHANGED part
  /\ \/ part = "map" /\ Next /\ UNCHANGED <<spaceVars, removeVars>>
     \/ part = "space" /\ Space!Next /\ UNCHANGED <<vars, removeVars>>
     \/ part = "remove" /\ Removals!Next /\ UNCHANGED <<vars, spaceVars>>

PartSpec == PartInit /\ [][PartNext]_partVars
-----------------------------------------------------------------------------
\* Space that overwritten and half-written items took is reclaimed: a write is
\* refused only if the live items fill a fresh sector.
SpaceReclaimed == Space!RefusalJustified

\* Where items are also removed and nothing goes wrong, a request that returned
\* NV_SUCC is what any later read yields, and a sector is only changed when it
\* is full.
UndisturbedCalls == Removals!SuccessIsDurable /\ Removals!ChangedWhenFull
=============================================================================
