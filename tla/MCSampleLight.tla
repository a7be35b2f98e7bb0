--------------------------- MODULE MCSampleLight ---------------------------
(***************************************************************************)
(* What the clusters of the light keep, on small instances of which one    *)
(* runs; part says which.                                                  *)
(*   "tables" GroupScene: two endpoints, two groups and scenes without a   *)
(*            group, in tables that fill up                                *)
(*   "light"  Light: four levels of eight fractions and one above them,    *)
(*            with transitions at once, over a few ticks, and slower than  *)
(*            a fraction a tick                                            *)
(***************************************************************************)
EXTENDS GroupScene, Light

VARIABLE part

\* How often each kind of happening comes to the light.
SomeWorlds ==
  {[onoff |-> 1, level |-> 1, scene |-> 0, other |-> 1],
   [onoff |-> 0, level |-> 2, scene |-> 0, other |-> 0],
   [onoff |-> 1, level |-> 0, scene |-> 1, other |-> 1],
   [onoff |-> 0, level |-> 1, scene |-> 1, other |-> 0],
   [onoff |-> 0, level |-> 0, scene |-> 2, other |-> 0],
   [onoff |-> 3, level |-> 0, scene |-> 0, other |-> 0]}

partVars == <<part, vars, lightVars>>

\* The part that does not run is in a first state.
PartInit ==
  /\ part \in {"tables", "light"}
  /\ Init
  /\ LightInit /\ (part # "light" => store.joined /\ left.scene = 2)

Only(p) ==
  /\ part = p /\ UNCHANGED part
  /\ IF p = "tables" THEN UNCHANGED lightVars ELSE UNCHANGED vars

PartNext ==
  \/ Only("tables") /\ Next
  \/ Only("light") /\ LightNext

\* Fairness is that of Light.
PartSpec ==
  /\ PartInit /\ [][PartNext]_partVars
  /\ WF_partVars(Only("light") /\ TimedOffTick) /\ WF_partVars(Only("light") /\ LevelTick)
  /\ WF_partVars(Only("light") /\ AttrsChk) /\ WF_partVars(Only("light") /\ Save)

-----------------------------------------------------------------------------
\* Without commands the light comes to rest and is saved.
LightSettles == part = "light" => ComesToRest
=============================================================================
