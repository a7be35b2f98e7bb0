-------------------------- MODULE SampleLightProofs --------------------------
(***************************************************************************)
(* The invariants of the light: of its group and scene tables, for any     *)
(* number of endpoints, groups and scenes and any size of the tables, and  *)
(* of its state, for any range of levels, any number of fractions to a     *)
(* level, and any levels, times and rates of the commands.                 *)
(*                                                                         *)
(* Of the tables, IInv is inductive: what is in flash is what is in RAM    *)
(* but for what a pending task has still to save and for the scenes that   *)
(* were forgotten, which bounds the orphans that a restart can bring back. *)
(*                                                                         *)
(* Of the light, LightIInv is.  A transition is known by an equation       *)
(* (Toward): the fractions that are reached, the steps that remain and the *)
(* fractions to be made up for add up to the level it leads to.  A tick    *)
(* takes one step off and, in the last ones, one fraction with it, so that *)
(* the equation stands; where the light is at an end of its range, only    *)
(* for a fall that leads to it or below.  When no tick remains the level   *)
(* is the one that was asked for.  The rest of LightIInv says how on/off   *)
(* and the current scene go with the level meanwhile.                      *)
(***************************************************************************)
EXTENDS GroupScene, Light, FiniteSetTheorems, TLAPS

-----------------------------------------------------------------------------
(* The group and scene tables *)

\* Both tables of scenes are finite.
Finite == IsFiniteSet(scenes) /\ IsFiniteSet(savedScenes)

\* The inductive invariant of the tables.
IInv == TypeOK /\ Finite /\ NoOrphans /\ Restored

-----------------------------------------------------------------------------
(* Tables *)

\* A part of a table that fits fits.
LEMMA PartFits ==
  ASSUME NEW s, IsFiniteSet(s), Fits(s), NEW r \in SUBSET s
  PROVE  IsFiniteSet(r) /\ Fits(r)
<1>1. /\ IsFiniteSet(r) /\ Cardinality(r) <= Cardinality(s)
  BY FS_Subset
<1>2. Cardinality(r) \in Nat /\ Cardinality(s) \in Nat /\ SceneSlots \in Nat
  BY <1>1, FS_CardinalityType, GroupAssumption DEF GroupAssumption
<1> QED
  BY <1>1, <1>2 DEF Fits

\* A group table from which endpoints are taken away fits if it did.
LEMMA FewerFit ==
  ASSUME NEW m \in [Group -> SUBSET Ep], NEW n \in [Group -> SUBSET Ep],
         \A g \in Group : n[g] \subseteq m[g], GroupsFit(m)
  PROVE  GroupsFit(n)
<1> USE GroupAssumption DEF GroupAssumption
<1>1. IsFiniteSet(InUse(m)) /\ IsFiniteSet(InUse(n))
  BY FS_Subset DEF InUse
<1>2. InUse(n) \in SUBSET InUse(m)
  BY DEF InUse
<1>3. Cardinality(InUse(n)) <= Cardinality(InUse(m))
  BY <1>1, <1>2, FS_Subset
<1>4. Cardinality(InUse(n)) <= GroupSlots
  BY <1>1, <1>3, FS_CardinalityType DEF GroupsFit
<1>5. ASSUME NEW g \in Group PROVE Cardinality(n[g]) <= EpSlots
  <2>1. IsFiniteSet(m[g]) /\ n[g] \in SUBSET m[g]
    BY FS_Subset
  <2>2. IsFiniteSet(n[g]) /\ Cardinality(n[g]) <= Cardinality(m[g])
    BY <2>1, FS_Subset
  <2> QED
    BY <2>1, <2>2, FS_CardinalityType DEF GroupsFit
<1> QED
  BY <1>4, <1>5 DEF GroupsFit

\* One endpoint more fits where AddGroup has found room.
LEMMA OneMoreFits ==
  ASSUME NEW m \in [Group -> SUBSET Ep], GroupsFit(m), NEW e \in Ep, NEW g \in Group,
         e \notin m[g],
         IF g \in InUse(m) THEN Cardinality(m[g]) < EpSlots
                           ELSE Cardinality(InUse(m)) < GroupSlots
  PROVE  GroupsFit([m EXCEPT ![g] = @ \cup {e}])
<1> USE GroupAssumption DEF GroupAssumption
<1> DEFINE n == [m EXCEPT ![g] = @ \cup {e}]
<1>1. IsFiniteSet(InUse(m)) /\ Cardinality(InUse(m)) \in Nat
  BY FS_Subset, FS_CardinalityType DEF InUse
<1>2. InUse(n) = InUse(m) \cup {g}
  BY DEF InUse
<1>3. n \in [Group -> SUBSET Ep] /\ n[g] = m[g] \cup {e} /\ \A k \in Group \ {g} : n[k] = m[k]
  OBVIOUS
<1> HIDE DEF n
<1>4. Cardinality(InUse(n)) <= GroupSlots
  <2>1. Cardinality(InUse(m) \cup {g})
          = IF g \in InUse(m) THEN Cardinality(InUse(m)) ELSE Cardinality(InUse(m)) + 1
    BY <1>1, FS_AddElement
  <2> QED
    BY <1>1, <1>2, <2>1 DEF GroupsFit
<1>5. ASSUME NEW k \in Group PROVE Cardinality(n[k]) <= EpSlots
  <2>1. CASE k # g
    BY <1>3, <2>1 DEF GroupsFit
  <2>2. CASE k = g
    <3>1. IsFiniteSet(m[g]) /\ Cardinality(m[g]) \in Nat
      BY FS_Subset, FS_CardinalityType
    <3>3. Cardinality(n[g]) = Cardinality(m[g]) + 1
      BY <1>3, <3>1, FS_AddElement
    <3>4. g \notin InUse(m) => Cardinality(m[g]) = 0
      BY FS_EmptySet DEF InUse
    <3> QED
      BY <2>2, <3>1, <3>3, <3>4
  <2> QED
    BY <2>1, <2>2
<1> QED
  BY <1>4, <1>5 DEF GroupsFit, n

-----------------------------------------------------------------------------
(* Initial states *)

LEMMA TablesStart == Init => IInv
<1> USE GroupAssumption DEF GroupAssumption
<1> SUFFICES ASSUME Init PROVE IInv
  OBVIOUS
<1>1. InUse(member) = {}
  BY DEF Init, InUse
<1>2. IsFiniteSet({}) /\ Cardinality({}) = 0
  BY FS_EmptySet
<1>3. GroupsFit(member) /\ Fits({})
  BY <1>1, <1>2 DEF GroupsFit, Fits, Init
<1>4. TypeOK
  BY <1>3 DEF Init, TypeOK
<1> QED
  BY <1>2, <1>4 DEF Init, IInv, Finite, NoOrphans, Orphans, Restored

-----------------------------------------------------------------------------
(* Steps *)

\* A scene table that is saved, in one step with what becomes of the groups.
LEMMA SceneStep ==
  ASSUME IInv, NEW s \in SUBSET Scene, IsFiniteSet(s), Fits(s), ScenesChange(s),
         member' \in [Group -> SUBSET Ep], GroupsFit(member'), UNCHANGED savedMember,
         task' \in BOOLEAN, task' \/ savedMember = member', Orphans(s, member') \subseteq known
  PROVE  IInv'
<1>1. /\ scenes' = s /\ savedScenes' = s /\ forgot' = {} /\ known' = known \cap s
      /\ savedMember' = savedMember
  BY DEF ScenesChange
<1>2. TypeOK'
  BY <1>1 DEF IInv, TypeOK, GroupsFit, InUse, Fits
<1>3. Orphans(s, member') \subseteq s
  BY DEF Orphans
<1>4. NoOrphans'
  BY <1>1, <1>3 DEF NoOrphans, Orphans
<1> QED
  BY <1>1, <1>2, <1>4 DEF IInv, Finite, Restored

\* A change of the groups alone.
LEMMA GroupStep ==
  ASSUME IInv, NEW m \in [Group -> SUBSET Ep], GroupsFit(m), GroupsChange(m), ScenesStay,
         Orphans(scenes, m) \subseteq known
  PROVE  IInv'
<1>1. /\ member' = m /\ task' = TRUE
      /\ UNCHANGED <<savedMember, scenes, savedScenes, forgot, known>>
  BY DEF GroupsChange, ScenesStay
<1>2. TypeOK'
  BY <1>1 DEF IInv, TypeOK, GroupsFit, InUse, Fits
<1> QED
  BY <1>1, <1>2 DEF IInv, Finite, Restored, NoOrphans, Orphans

\* A change of the scenes alone, to scenes of which only known ones are orphans.
LEMMA ScenesAlone ==
  ASSUME IInv, NEW s \in SUBSET Scene, IsFiniteSet(s), Fits(s), ScenesChange(s), GroupsStay,
         Orphans(s, member) \subseteq known
  PROVE  IInv'
<1>1. member' = member /\ task' = task /\ savedMember' = savedMember
  BY DEF GroupsStay
<1> QED
  BY <1>1, SceneStep DEF IInv, TypeOK, Restored

\* A scene that is added belongs to a group of its endpoint.
LEMMA PutStep ==
  ASSUME IInv, NEW e \in Ep, NEW g \in Group, NEW i \in SceneId, PutScene(e, g, i)
  PROVE  IInv'
<1> DEFINE x == [ep |-> e, group |-> g, id |-> i]
<1>1. x \in Scene /\ x.ep = e /\ x.group = g
  BY DEF Scene
<1> HIDE DEF x
<1>2. MayHave(e, g) /\ Fits(scenes \cup {x}) /\ ScenesChange(scenes \cup {x}) /\ GroupsStay
  BY DEF PutScene, x
<1>3. IsFiniteSet(scenes \cup {x})
  BY FS_AddElement DEF IInv, Finite
<1>4. Orphans(scenes \cup {x}, member) \subseteq known
  BY <1>1, <1>2 DEF IInv, NoOrphans, Orphans, MayHave
<1>5. scenes \cup {x} \in SUBSET Scene
  BY <1>1 DEF IInv, TypeOK
<1> QED
  BY <1>2, <1>3, <1>4, <1>5, ScenesAlone

\* Scenes that are removed leave no orphan.
LEMMA RemoveStep ==
  ASSUME IInv, NEW r \in SUBSET scenes, ScenesChange(scenes \ r), GroupsStay
  PROVE  IInv'
<1>1. IsFiniteSet(scenes \ r) /\ Fits(scenes \ r)
  BY PartFits DEF IInv, Finite, TypeOK
<1>2. scenes \ r \in SUBSET Scene
  BY DEF IInv, TypeOK
<1>3. Orphans(scenes \ r, member) \subseteq known
  BY DEF IInv, NoOrphans, Orphans
<1> QED
  BY <1>1, <1>2, <1>3, ScenesAlone

\* Copies belong to a group that their endpoint is in.
LEMMA CopyStep ==
  ASSUME IInv, NEW e \in Ep, NEW from \in Group, NEW to \in Group,
         NEW ids \in SUBSET SceneId, NEW as \in [ids -> SceneId],
         MayCopy(e, from, to), Copy(e, from, to, ids, as), GroupsStay
  PROVE  IInv'
<1> USE GroupAssumption DEF GroupAssumption
<1> DEFINE new(i) == [ep |-> e, group |-> to, id |-> i]
           c == {new(as[i]) : i \in ids}
<1>1. Fits(scenes \cup c) /\ ScenesChange(scenes \cup c)
  BY DEF Copy
<1>2. \A x \in c : x \in Scene /\ x.ep = e /\ x.group = to
  <2>1. \A i \in SceneId : new(i) \in Scene /\ new(i).ep = e /\ new(i).group = to
    BY DEF Scene
  <2>2. \A i \in ids : as[i] \in SceneId
    OBVIOUS
  <2> HIDE DEF new
  <2> QED
    BY <2>1, <2>2
<1>3. IsFiniteSet(c)
  <2>1. [i \in ids |-> new(as[i])] \in Surjection(ids, c)
    BY DEF Surjection
  <2>2. IsFiniteSet(ids)
    BY FS_Subset
  <2> HIDE DEF c
  <2> QED
    BY <2>1, <2>2, FS_Surjection
<1> HIDE DEF c
<1>4. IsFiniteSet(scenes \cup c)
  BY <1>3, FS_Union DEF IInv, Finite
<1>5. Orphans(scenes \cup c, member) \subseteq known
  BY <1>2 DEF IInv, NoOrphans, Orphans, MayCopy
<1>6. scenes \cup c \in SUBSET Scene
  BY <1>2 DEF IInv, TypeOK
<1> QED
  BY <1>1, <1>4, <1>5, <1>6, ScenesAlone

\* More members make no orphans.
LEMMA AddGroupStep ==
  ASSUME IInv, NEW e \in Ep, NEW g \in Group, AddGroup(e, g)
  PROVE  IInv'
<1> DEFINE m == [member EXCEPT ![g] = @ \cup {e}]
<1>1. GroupsChange(m) /\ ScenesStay
  BY DEF AddGroup, ScenesStay
<1>2. GroupsFit(m)
  BY OneMoreFits DEF AddGroup, IInv, TypeOK, Listed
<1>3. m \in [Group -> SUBSET Ep] /\ \A k \in Group : member[k] \subseteq m[k]
  BY DEF IInv, TypeOK
<1> HIDE DEF m
<1>4. Orphans(scenes, m) \subseteq known
  BY <1>3 DEF IInv, TypeOK, NoOrphans, Orphans, Scene
<1> QED
  BY <1>1, <1>2, <1>3, <1>4, GroupStep

\* The scenes go before the endpoint leaves the group.
LEMMA RemoveGroupStep ==
  ASSUME IInv, NEW e \in Ep, NEW g \in Group, RemoveGroup(e, g)
  PROVE  IInv'
<1> DEFINE r == ScenesOf(e, {g})
           m == [member EXCEPT ![g] = @ \ {e}]
<1>1. r = {x \in scenes : x.ep = e /\ x.group = g}
  BY DEF ScenesOf
<1>2. m \in [Group -> SUBSET Ep] /\ \A k \in Group : m[k] \subseteq member[k]
  BY DEF IInv, TypeOK
<1>3. GroupsFit(m)
  <2> HIDE DEF m
  <2>1. member \in [Group -> SUBSET Ep] /\ GroupsFit(member)
    BY DEF IInv, TypeOK
  <2> QED
    BY <1>2, <2>1, FewerFit
<1>4. Orphans(scenes \ r, m) \subseteq known
  <2>1. ASSUME NEW x \in Orphans(scenes \ r, m) PROVE x \in Orphans(scenes, member)
    BY <2>1, <1>1 DEF IInv, TypeOK, Orphans, Scene
  <2> QED
    BY <2>1 DEF IInv, NoOrphans
<1>5. IsFiniteSet(scenes \ r) /\ Fits(scenes \ r) /\ scenes \ r \in SUBSET Scene
  BY PartFits DEF IInv, Finite, TypeOK
<1>6. Discard(r)
  BY DEF RemoveGroup
<1> HIDE DEF r, m
<1>7. CASE e \in member[g]
  <2>1. GroupsChange(m)
    BY <1>7 DEF RemoveGroup, m
  <2>2. CASE r = {}
    <3>1. ScenesStay /\ scenes \ r = scenes
      BY <1>6, <2>2 DEF Discard
    <3> QED
      BY <1>2, <1>3, <1>4, <2>1, <3>1, GroupStep
  <2>3. CASE r # {}
    <3>1. ScenesChange(scenes \ r)
      BY <1>6, <2>3 DEF Discard
    <3> QED
      BY <1>2, <1>3, <1>4, <1>5, <2>1, <3>1, SceneStep DEF GroupsChange
  <2> QED
    BY <2>2, <2>3
<1>8. CASE e \notin member[g]
  <2>1. GroupsStay
    BY <1>8 DEF RemoveGroup, GroupsStay
  <2>2. CASE r = {}
    BY <1>6, <2>1, <2>2
    DEF Discard, ScenesStay, GroupsStay, IInv, TypeOK, Finite, NoOrphans, Restored, Orphans,
        GroupsFit, InUse, Fits
  <2>3. CASE r # {}
    BY <1>1, <1>6, <2>1, <2>3, RemoveStep DEF Discard
  <2> QED
    BY <2>2, <2>3
<1> QED
  BY <1>7, <1>8

\* The endpoint's own scenes that stay are of groups that were not in the table.
LEMMA RemoveAllGroupsStep ==
  ASSUME IInv, NEW e \in Ep, RemoveAllGroups(e)
  PROVE  IInv'
<1> DEFINE gone == ScenesOf(e, Listed)
           none == [g \in Group |-> {}]
<1>1. /\ member' = none /\ task' = TRUE /\ savedMember' = savedMember
      /\ scenes' = scenes \ gone /\ forgot' = forgot \cup gone /\ savedScenes' = savedScenes
      /\ known' = {s \in scenes \ gone : s.group # Global /\ (s.ep # e \/ s \in known)}
  BY DEF RemoveAllGroups, GroupsChange, Drop
<1>2. gone = {x \in scenes : x.ep = e /\ member[x.group] # {}}
  BY DEF ScenesOf, Listed, InUse, IInv, TypeOK, Scene
<1>3. none \in [Group -> SUBSET Ep] /\ \A g \in Group : none[g] = {}
  OBVIOUS
<1> HIDE DEF gone, none
<1>4. GroupsFit(none)
  <2>1. member \in [Group -> SUBSET Ep] /\ GroupsFit(member)
    BY DEF IInv, TypeOK
  <2> QED
    BY <1>3, <2>1, FewerFit
<1>5. IsFiniteSet(scenes \ gone) /\ Fits(scenes \ gone)
  BY PartFits DEF IInv, Finite, TypeOK
<1>6. TypeOK'
  <2>1. gone \subseteq Scene
    BY <1>2 DEF IInv, TypeOK
  <2> QED
    BY <1>1, <1>3, <1>4, <1>5, <2>1 DEF IInv, TypeOK, GroupsFit, InUse, Fits
<1>7. ASSUME NEW x \in scenes \ gone, x.group # Global, x.ep = e
      PROVE  x \in known
  <2>1. x \in scenes /\ x \in Scene /\ member[x.group] = {}
    BY <1>2, <1>7 DEF IInv, TypeOK
  <2>2. x \in Orphans(scenes, member)
    BY <1>7, <2>1 DEF Orphans
  <2> QED
    BY <2>2 DEF IInv, NoOrphans
<1>8. NoOrphans'
  BY <1>1, <1>7 DEF NoOrphans, Orphans
<1>9. Restored'
  BY <1>1, <1>2 DEF IInv, Restored
<1> QED
  BY <1>1, <1>5, <1>6, <1>8, <1>9 DEF IInv, Finite

LEMMA SaveGroupsStep ==
  ASSUME IInv, SaveGroups
  PROVE  IInv'
<1>1. savedMember' = member /\ task' = FALSE /\ UNCHANGED <<ram, savedScenes, forgot, known>>
  BY DEF SaveGroups, Saved
<1> QED
  BY <1>1 DEF ram, IInv, TypeOK, Finite, NoOrphans, Restored, Orphans, GroupsFit, InUse, Fits

\* Without a pending task the orphans that come back are the known and the
\* forgotten ones.
LEMMA TablesRestartStep ==
  ASSUME IInv, Restart
  PROVE  IInv'
<1> DEFINE more == IF task THEN Orphans(savedScenes, savedMember) ELSE {}
<1>1. /\ member' = savedMember /\ scenes' = savedScenes /\ task' = FALSE /\ forgot' = {}
      /\ savedMember' = savedMember /\ savedScenes' = savedScenes
      /\ known' = (known \cup forgot \cup more) \cap savedScenes
  BY DEF Restart, flash
<1>2. Orphans(savedScenes, savedMember) \subseteq known \cup forgot \cup more
  <2>1. CASE task
    BY <2>1
  <2>2. CASE ~task
    BY <2>2 DEF IInv, Restored, NoOrphans, Orphans
  <2> QED
    BY <2>1, <2>2
<1>3. more \subseteq savedScenes
  BY DEF Orphans
<1> HIDE DEF more
<1>4. TypeOK'
  BY <1>1, <1>3 DEF IInv, TypeOK, GroupsFit, InUse, Fits
<1>5. Orphans(savedScenes, savedMember) \subseteq savedScenes
  BY DEF Orphans
<1>6. NoOrphans'
  BY <1>1, <1>2, <1>5 DEF NoOrphans, Orphans
<1> QED
  BY <1>1, <1>4, <1>6 DEF IInv, Finite, Restored

LEMMA TablesStep ==
  ASSUME IInv, [Next]_vars
  PROVE  IInv'
<1>1. CASE UNCHANGED vars
  BY <1>1 DEF vars, ram, flash, IInv, TypeOK, Finite, NoOrphans, Restored, Orphans,
              GroupsFit, InUse, Fits
<1>2. ASSUME NEW e \in Ep, NEW g \in Group,
             AddGroup(e, g) \/ RemoveGroup(e, g) \/ RemoveAllScenes(e, g)
      PROVE  IInv'
  <2>1. CASE RemoveAllScenes(e, g)
    BY <2>1, RemoveStep DEF RemoveAllScenes, ScenesOf
  <2> QED
    BY <1>2, <2>1, AddGroupStep, RemoveGroupStep
<1>3. ASSUME NEW e \in Ep, NEW g \in Group, NEW i \in SceneId,
             PutScene(e, g, i) \/ RemoveScene(e, g, i)
      PROVE  IInv'
  <2>1. CASE RemoveScene(e, g, i)
    BY <2>1, RemoveStep DEF RemoveScene
  <2> QED
    BY <1>3, <2>1, PutStep
<1>4. ASSUME NEW e \in Ep, NEW g \in Group, NEW to \in Group, CopyAll(e, g, to)
      PROVE  IInv'
  <2> DEFINE ids == {s.id : s \in ScenesOf(e, {g})}
  <2>1. ids \in SUBSET SceneId
    BY DEF ScenesOf, IInv, TypeOK, Scene
  <2>2. MayCopy(e, g, to) /\ Copy(e, g, to, ids, [i \in ids |-> i]) /\ GroupsStay
    BY <1>4 DEF CopyAll
  <2> HIDE DEF ids
  <2>3. [i \in ids |-> i] \in [ids -> SceneId]
    BY <2>1
  <2> QED
    BY <2>1, <2>2, <2>3, CopyStep
<1>5. ASSUME NEW e \in Ep, NEW g \in Group, NEW to \in Group, NEW i \in SceneId,
             NEW j \in SceneId, CopyOne(e, g, to, i, j)
      PROVE  IInv'
  <2>1. MayCopy(e, g, to) /\ Copy(e, g, to, {i}, [k \in {i} |-> j]) /\ GroupsStay
    BY <1>5 DEF CopyOne
  <2>2. {i} \in SUBSET SceneId /\ [k \in {i} |-> j] \in [{i} -> SceneId]
    OBVIOUS
  <2> QED
    BY <2>1, <2>2, CopyStep
<1> QED
  BY <1>1, <1>2, <1>3, <1>4, <1>5, RemoveAllGroupsStep, SaveGroupsStep, TablesRestartStep DEF Next

LEMMA TablesInvariant == Spec => []IInv
<1>1. Init => IInv
  BY TablesStart
<1>2. IInv /\ [Next]_vars => IInv'
  BY TablesStep
<1> QED
  BY <1>1, <1>2, PTL DEF Spec

-----------------------------------------------------------------------------
\* The tables are well formed and never overfull, for every size of them.
THEOREM TablesTyped == Spec => []TypeOK
<1>1. IInv => TypeOK
  BY DEF IInv
<1> QED
  BY <1>1, TablesInvariant, PTL

\* The scenes without a group are those the three known ways have left, whatever
\* the endpoints and groups and the order of commands, saves and power losses.
THEOREM OrphansKnown == Spec => []NoOrphans
<1>1. IInv => NoOrphans
  BY DEF IInv
<1> QED
  BY <1>1, TablesInvariant, PTL

\* A restart brings back the tables, but for what the pending task had to save
\* and the scenes that were forgotten.
THEOREM TablesRestored == Spec => []Restored
<1>1. IInv => Restored
  BY DEF IInv
<1> QED
  BY <1>1, TablesInvariant, PTL

-----------------------------------------------------------------------------
(* The inductive invariant *)

\* A level c from which steps lead to level n: in rem ticks, comp of them by one
\* fraction more.  A fall may have come to the lowest level before.
Toward(n, c, step, comp, rem) ==
  /\ comp <= rem
  /\ IF step > 0 THEN c + rem * step + comp = n * Unit
     ELSE c + rem * step - comp = n * Unit \/ (c = Min * Unit /\ n <= Min)

\* The level that steps of this sign to level n end at.
EndOf(n, step) == IF step > 0 THEN Smaller(n, Max) ELSE Larger(n, Min)

\* A transition is on its way to the level that was asked for, or there.
Heading ==
  asked.goal # None /\ ~asked.slow =>
    IF level.timer
    THEN /\ level.rem < Forever
         /\ \E n \in 0..(Max + 1) :
              /\ Toward(n, level.c, level.step, level.comp, level.rem)
              /\ asked.goal = EndOf(n, level.step)
    ELSE level.lvl = asked.goal

\* The fractions of a level that moves are those of one the light may have.
Moves == level.timer => level.c >= Min * Unit

\* The light is as the last command with on/off left it.
Coupling ==
  asked.with =>
    /\ level.with
    /\ ~level.timer /\ onoff.on => level.lvl > Min
    /\ asked.up /\ ~asked.slow /\ ~asked.dipped => onoff.on

\* Times run only with the timer, unless one of Forever was asked for.
TimesRun(o, endless) ==
  /\ o.time > 0 \/ o.wait > 0 => o.timer \/ endless
  /\ o.time = Forever \/ o.wait = Forever => endless

\* The times of the timed off run.
Timed == TimesRun(onoff, asked.endless)

\* The light is as its current scene, or on its way there.
InScene ==
  scene.valid /\ ~asked.astray =>
    /\ scene.has /\ scene.on = onoff.on
    /\ \/ asked.slow
       \/ level.timer /\ asked.goal # None /\ asked.goal \in {scene.lvl, Within(scene.lvl)}
       \/ ~level.timer /\ level.lvl \in {scene.lvl, Within(scene.lvl)}

\* The inductive invariant of the light.
LightIInv == LightTypeOK /\ Heading /\ Moves /\ Coupling /\ Timed /\ InScene /\ SavedTruth

-----------------------------------------------------------------------------
(* Arithmetic *)

\* What the constants are.
LEMMA LightConstants ==
  /\ Unit \in Nat /\ Unit >= 2 /\ Forever \in Nat /\ Forever >= 2
  /\ Min \in Nat /\ Min >= 1 /\ Max \in Nat /\ Min < Max
  /\ Targets \subseteq 0..(Max + 1) /\ Times \subseteq 0..Forever /\ OnTimes \subseteq 0..Forever
  /\ Steps \subseteq Nat /\ Rates \subseteq Nat
BY LightAssumption

\* Levels counted in fractions are in the order of the levels.
LEMMA Fractions ==
  /\ \A m \in Int : m * Unit \in Int /\ (m + 1) * Unit = m * Unit + Unit
  /\ \A m, n \in Int : (m - n) * Unit = m * Unit - n * Unit
  /\ \A m, n \in Int : m <= n <=> m * Unit <= n * Unit
  /\ \A m, n \in Int : m < n <=> m * Unit + Unit <= n * Unit
<1>1. Unit \in Nat /\ Unit >= 2
  BY LightConstants
<1>2. \A m \in Int : m * Unit \in Int /\ (m + 1) * Unit = m * Unit + Unit
  BY <1>1
<1>3. \A m, n \in Int : (m - n) * Unit = m * Unit - n * Unit
  BY <1>1
<1>4. ASSUME NEW m \in Int, NEW n \in Int, m <= n
      PROVE  m * Unit <= n * Unit
  <2>1. \A k \in Nat : k * Unit \in Nat
    BY <1>1
  <2>2. (n - m) * Unit \in Nat
    BY <1>4, <2>1
  <2> DEFINE a == m * Unit
             b == n * Unit
             d == (n - m) * Unit
  <2>3. d = b - a /\ a \in Int /\ b \in Int /\ d \in Nat
    BY <1>2, <1>3, <2>2
  <2> HIDE DEF a, b, d
  <2>4. a <= b
    BY <2>3
  <2> QED BY <2>4 DEF a, b
<1>5. ASSUME NEW m \in Int, NEW n \in Int, m < n
      PROVE  m * Unit + Unit <= n * Unit
  <2>1. (m + 1) * Unit <= n * Unit
    BY <1>4, <1>5
  <2> QED BY <1>2, <2>1
<1>6. \A m, n \in Int : m <= n <=> m * Unit <= n * Unit
  <2> SUFFICES ASSUME NEW m \in Int, NEW n \in Int PROVE m <= n <=> m * Unit <= n * Unit
    OBVIOUS
  <2>1. m * Unit \in Int /\ n * Unit \in Int
    BY <1>2
  <2>2. n < m => n * Unit + Unit <= m * Unit
    BY <1>5
  <2>3. m <= n => m * Unit <= n * Unit
    BY <1>4
  <2>4. CASE m <= n
    BY <2>3, <2>4
  <2>5. CASE n < m
    BY <1>1, <2>1, <2>2, <2>5
  <2> QED BY <2>4, <2>5
<1>7. \A m, n \in Int : m < n <=> m * Unit + Unit <= n * Unit
  <2> SUFFICES ASSUME NEW m \in Int, NEW n \in Int PROVE m < n <=> m * Unit + Unit <= n * Unit
    OBVIOUS
  <2>1. m * Unit \in Int /\ n * Unit \in Int
    BY <1>2
  <2>2. m < n => m * Unit + Unit <= n * Unit
    BY <1>5
  <2>3. n <= m => n * Unit <= m * Unit
    BY <1>4
  <2>4. CASE m < n
    BY <2>2, <2>4
  <2>5. CASE n <= m
    BY <1>1, <2>1, <2>3, <2>5
  <2> QED BY <2>4, <2>5
<1> QED BY <1>2, <1>3, <1>6, <1>7

\* Rounding down to a level.
LEMMA Rounds ==
  ASSUME NEW x \in Int
  PROVE  /\ x \div Unit \in Int
         /\ \A n \in Int : n <= x \div Unit <=> n * Unit <= x
<1>1. Unit \in Nat /\ Unit >= 2
  BY LightConstants
<1> DEFINE q == x \div Unit
<1>2. q \in Int /\ q * Unit <= x /\ x < q * Unit + Unit
  <2>1. x % Unit = x - (x \div Unit) * Unit
    BY <1>1, SMTT(60)
  <2>2. x % Unit \in Int /\ 0 <= x % Unit /\ x % Unit < Unit
    BY <1>1
  <2>3. x \div Unit \in Int
    BY <1>1
  <2> DEFINE p == (x \div Unit) * Unit
  <2>4. p \in Int
    BY <2>3, Fractions
  <2> HIDE DEF p
  <2>5. x % Unit = x - p
    BY <2>1 DEF p
  <2>6. p <= x /\ x < p + Unit
    BY <1>1, <2>2, <2>4, <2>5
  <2> QED BY <2>3, <2>6 DEF p
<1> HIDE DEF q
<1>3. ASSUME NEW n \in Int
      PROVE  n <= q <=> n * Unit <= x
  <2>1. n * Unit \in Int /\ q * Unit \in Int
    BY <1>2, Fractions
  <2>2. n <= q <=> n * Unit <= q * Unit
    BY <1>2, Fractions
  <2>3. q < n <=> q * Unit + Unit <= n * Unit
    BY <1>2, Fractions
  <2> DEFINE a == n * Unit
             b == q * Unit
  <2> HIDE DEF a, b
  <2>4. a \in Int /\ b \in Int /\ (n <= q <=> a <= b) /\ (q < n <=> b + Unit <= a) /\ b <= x /\ x < b + Unit
    BY <1>2, <2>1, <2>2, <2>3 DEF a, b
  <2>5. n <= q <=> a <= x
    BY <1>1, <1>2, <2>4
  <2> QED BY <2>5 DEF a
<1> QED BY <1>2, <1>3 DEF q

\* Division in whole numbers, rounded to zero as the code's is.
LEMMA Quotients ==
  ASSUME NEW a \in Int, NEW b \in Nat, b >= 1
  PROVE  LET m == IF a > 0 THEN a ELSE -a IN
         /\ Quotient(a, b) \in Int /\ m % b \in 0..(b - 1)
         /\ Quotient(a, b) > 0 <=> a >= b
         /\ a > 0 => b * Quotient(a, b) + (m % b) = a
         /\ a <= 0 => b * Quotient(a, b) - (m % b) = a
<1> DEFINE m == IF a > 0 THEN a ELSE -a
           q == m \div b
           r == m % b
<1>1. m \in Nat
  OBVIOUS
<1> HIDE DEF m
<1>2. q \in Int /\ r \in 0..(b - 1) /\ r = m - q * b
  <2>1. m % b = m - (m \div b) * b
    BY <1>1, SMTT(60)
  <2> QED BY <1>1, <2>1
<1> HIDE DEF q, r
<1>3. q * b \in Int /\ q * b = b * q /\ b * (-q) = -(q * b) /\ b * q \in Int
  BY <1>2
<1>4. q * b + r = m
  BY <1>1, <1>2, <1>3
<1>5. q >= 0 /\ (q > 0 <=> m >= b)
  <2>1. q < 0 => q * b <= -b
    BY <1>2
  <2>2. q = 0 => q * b = 0
    BY <1>2
  <2>3. q > 0 => q * b >= b
    BY <1>2
  <2> QED BY <1>1, <1>2, <1>3, <1>4, <2>1, <2>2, <2>3
<1> DEFINE k == Quotient(a, b)
           Good == /\ k \in Int /\ r \in 0..(b - 1)
                   /\ k > 0 <=> a >= b
                   /\ a > 0 => b * k + r = a
                   /\ a <= 0 => b * k - r = a
<1>6. ASSUME a > 0 PROVE Good
  <2>1. k = q /\ m = a
    BY <1>6 DEF Quotient, q, m
  <2> HIDE DEF k
  <2> QED BY <1>2, <1>3, <1>4, <1>5, <1>6, <2>1
<1>7. ASSUME a < 0 PROVE Good
  <2>1. k = -q /\ m = -a
    BY <1>7 DEF Quotient, q, m
  <2> HIDE DEF k
  <2>2. b * k = -(q * b)
    BY <1>3, <2>1
  <2> QED BY <1>2, <1>3, <1>4, <1>5, <1>7, <2>1, <2>2
<1>8. ASSUME a = 0 PROVE Good
  <2>1. m = 0
    <3>1. m = -a
      BY <1>8 DEF m
    <3>2. m + a = 0
      BY <3>1
    <3> QED BY <1>1, <1>8, <3>2
  <2>2. k = q
    BY <1>8, <2>1 DEF Quotient, q
  <2> HIDE DEF k
  <2>3. q = 0
    BY <1>5, <1>2, <2>1
  <2>4. r = 0 /\ b * k = 0
    BY <1>2, <1>3, <1>4, <2>1, <2>2, <2>3
  <2> QED BY <1>2, <1>3, <1>8, <2>2, <2>3, <2>4
<1>9. Good
  BY <1>6, <1>7, <1>8
<1> QED BY <1>9 DEF r, m

-----------------------------------------------------------------------------
(* A step of a level *)

\* light_applyUpdate, of the level in fractions and of what it is rounded to.
NextC(c, step) ==
  IF step > 0 /\ (c + step) \div Unit > Max THEN Max * Unit
  ELSE IF step < 0 /\ (c + step) \div Unit < Min THEN Min * Unit ELSE c + step

\* The level that is shown for c fractions, by the sign of the step.
Rounded(c, step) == IF step > 0 THEN (c + Unit \div 2 - 1) \div Unit ELSE c \div Unit

\* The levels a light may have, in fractions.
LevelRange == (Min * Unit)..((Max + 1) * Unit)

\* The ends of the range, and where the code stops a step.
LEMMA Ends ==
  /\ Min * Unit \in Int /\ Max * Unit \in Int /\ Unit \in Int
  /\ (Max + 1) * Unit = Max * Unit + Unit /\ (Max + 2) * Unit = Max * Unit + Unit + Unit
  /\ Min * Unit + Unit <= Max * Unit /\ Unit >= 2
  /\ Unit \div 2 - 1 \in 0..(Unit - 2)
  /\ \A x \in Int : /\ x \div Unit > Max <=> x >= Max * Unit + Unit
                    /\ x \div Unit < Min <=> x < Min * Unit
<1>1. /\ Unit \in Int /\ Unit >= 2 /\ Min \in Int /\ Max \in Int /\ Min < Max
      /\ Max + 1 \in Int /\ (Max + 1) + 1 = Max + 2
  BY LightConstants
<1>2. /\ Min * Unit \in Int /\ Max * Unit \in Int
      /\ (Max + 1) * Unit = Max * Unit + Unit /\ (Max + 1) * Unit \in Int
      /\ Min * Unit + Unit <= Max * Unit
  BY <1>1, Fractions
<1>3. (Max + 2) * Unit = (Max + 1) * Unit + Unit
  BY <1>1, Fractions
<1>4. Unit \div 2 - 1 \in 0..(Unit - 2)
  BY <1>1
<1>5. ASSUME NEW x \in Int
      PROVE  /\ x \div Unit > Max <=> x >= Max * Unit + Unit
             /\ x \div Unit < Min <=> x < Min * Unit
  <2>1. x \div Unit \in Int
    BY Rounds
  <2>2. (Max + 1 <= x \div Unit <=> (Max + 1) * Unit <= x) /\ (Min <= x \div Unit <=> Min * Unit <= x)
    BY <1>1, Rounds
  <2> DEFINE q == x \div Unit
             m == Max * Unit
             m1 == (Max + 1) * Unit
             p == Min * Unit
  <2> HIDE DEF q, m, m1, p
  <2>3. /\ q \in Int /\ m \in Int /\ p \in Int /\ m1 = m + Unit
        /\ (Max + 1 <= q <=> m1 <= x) /\ (Min <= q <=> p <= x)
    BY <1>2, <2>1, <2>2 DEF q, m, m1, p
  <2>4. (q > Max <=> x >= m + Unit) /\ (q < Min <=> x < p)
    BY <1>1, <2>3
  <2> QED BY <2>4 DEF q, m, p
<1> QED BY <1>1, <1>2, <1>3, <1>4, <1>5

\* A step up or down does not leave the range.
LEMMA StepInRange ==
  ASSUME NEW c \in LevelRange, NEW step \in Int
  PROVE  /\ NextC(c, step) \in LevelRange
         /\ \A d \in LevelRange : Rounded(d, step) \in Min..(Max + 1)
         /\ NextC(c, step) = c + step
              \/ (step > 0 /\ c + step >= Max * Unit + Unit /\ NextC(c, step) = Max * Unit)
              \/ (step < 0 /\ c + step < Min * Unit /\ NextC(c, step) = Min * Unit)
         /\ NextC(c, step) = c + step =>
              (step > 0 => c + step < Max * Unit + Unit) /\ (step < 0 => c + step >= Min * Unit)
<1> DEFINE p == Min * Unit
           m == Max * Unit
           m1 == (Max + 1) * Unit
           n == NextC(c, step)
<1>1. /\ p \in Int /\ m \in Int /\ Unit \in Int /\ m1 = m + Unit /\ p + Unit <= m /\ Unit >= 2
  BY Ends
<1>2. c \in Int /\ p <= c /\ c <= m1 /\ c + step \in Int
  BY <1>1 DEF LevelRange
<1>3. n = IF step > 0 /\ c + step >= m + Unit THEN m
          ELSE IF step < 0 /\ c + step < p THEN p ELSE c + step
  BY <1>2, Ends DEF NextC
<1> HIDE DEF n
<1>4. /\ n \in Int /\ p <= n /\ n <= m1
      /\ n = c + step \/ (step > 0 /\ c + step >= m + Unit /\ n = m)
                      \/ (step < 0 /\ c + step < p /\ n = p)
      /\ n = c + step => (step > 0 => c + step < m + Unit) /\ (step < 0 => c + step >= p)
  <2> HIDE DEF p, m, m1
  <2> QED BY <1>1, <1>2, <1>3
<1>5. ASSUME NEW d \in LevelRange
      PROVE  Rounded(d, step) \in Min..(Max + 1)
  <2> DEFINE x == IF step > 0 THEN d + Unit \div 2 - 1 ELSE d
             q == x \div Unit
  <2>1. x \in Int /\ p <= x /\ x < (Max + 2) * Unit
    <3>1. d \in Int /\ p <= d /\ d <= m1
      BY <1>1 DEF LevelRange
    <3>2. Unit \div 2 - 1 \in 0..(Unit - 2) /\ Unit \div 2 \in Int /\ (Max + 2) * Unit = m + Unit + Unit
      BY <1>1, Ends
    <3> DEFINE h == Unit \div 2
               m2 == (Max + 2) * Unit
    <3> HIDE DEF p, m, m1, h, m2
    <3>3. x = IF step > 0 THEN d + h - 1 ELSE d
      BY DEF h
    <3>4. h \in Int /\ h - 1 \in 0..(Unit - 2) /\ m2 = m + Unit + Unit
      BY <3>2 DEF h, m2
    <3> HIDE DEF x
    <3>5. x \in Int /\ p <= x /\ x < m2
      BY <1>1, <3>1, <3>3, <3>4
    <3> QED BY <3>5 DEF m2
  <2>2. Rounded(d, step) = q
    BY DEF Rounded
  <2> HIDE DEF x
  <2>3. q \in Int /\ (Min <= q <=> p <= x) /\ (Max + 2 <= q <=> (Max + 2) * Unit <= x)
    <3>1. Min \in Int /\ Max + 2 \in Int BY LightConstants
    <3> QED BY <2>1, <3>1, Rounds
  <2>4. (Max + 2) * Unit \in Int
    BY <1>1, Ends
  <2> DEFINE m2 == (Max + 2) * Unit
  <2> HIDE DEF q, p, m2
  <2>5. q \in Int /\ Min <= q /\ ~(Max + 2 <= q)
    <3>1. m2 \in Int /\ x \in Int /\ x < m2 /\ (Max + 2 <= q <=> m2 <= x)
      BY <2>1, <2>3, <2>4 DEF m2
    <3> QED BY <2>1, <2>3, <3>1
  <2> QED BY <2>2, <2>5, LightConstants
<1> QED BY <1>1, <1>4, <1>5 DEF n, LevelRange

\* A whole level, stepped up or down to, is rounded to itself.
LEMMA RoundedUp ==
  ASSUME NEW n \in Int, NEW step \in Int, step > 0
  PROVE  Rounded(n * Unit, step) = n
<1> DEFINE u == n * Unit
           x == u + Unit \div 2 - 1
<1>1. u \in Int /\ Unit \in Int /\ Unit >= 2 /\ Unit \div 2 \in Int /\ Unit \div 2 - 1 \in 0..(Unit - 2)
  BY Fractions, Ends
<1>2. n + 1 \in Int /\ (n + 1) * Unit = u + Unit
  BY Fractions
<1>3. Rounded(u, step) = x \div Unit
  BY DEF Rounded
<1>4. x \in Int
  BY <1>1
<1>5. x \div Unit \in Int /\ (n <= x \div Unit <=> u <= x) /\ (n + 1 <= x \div Unit <=> u + Unit <= x)
  BY <1>2, <1>4, Rounds
<1> DEFINE h == Unit \div 2
           q == x \div Unit
<1>6. u <= x /\ ~(u + Unit <= x)
  <2>1. x = u + h - 1 /\ h \in Int /\ h - 1 \in 0..(Unit - 2)
    BY <1>1
  <2> HIDE DEF u, x, h
  <2> QED BY <1>1, <2>1
<1>7. q \in Int /\ n <= q /\ ~(n + 1 <= q)
  BY <1>5, <1>6
<1> HIDE DEF q
<1>8. q = n
  BY <1>7
<1> QED BY <1>3, <1>8 DEF q

\* The level of a whole number of levels, when it does not rise, is that number.
LEMMA RoundedDown ==
  ASSUME NEW n \in Int, NEW step \in Int, ~(step > 0)
  PROVE  Rounded(n * Unit, step) = n
<1> DEFINE u == n * Unit
           q == u \div Unit
<1>1. u \in Int /\ Unit \in Int /\ Unit >= 2
  BY Fractions, Ends
<1>2. n + 1 \in Int /\ (n + 1) * Unit = u + Unit
  BY Fractions
<1>3. q \in Int /\ (n <= q <=> u <= u) /\ (n + 1 <= q <=> u + Unit <= u)
  BY <1>1, <1>2, Rounds
<1>4. Rounded(u, step) = q
  BY DEF Rounded
<1> HIDE DEF u, q
<1>5. q = n
  BY <1>1, <1>3
<1> QED BY <1>4, <1>5 DEF u

\* Below a whole level are the levels below it.
LEMMA LowLevels ==
  ASSUME NEW m \in Int, NEW n \in Int, m * Unit < n * Unit
  PROVE  m < n
<1> DEFINE a == m * Unit
           b == n * Unit
<1>1. a \in Int /\ b \in Int /\ (n <= m <=> b <= a) /\ a < b
  BY Fractions
<1> HIDE DEF a, b
<1> QED BY <1>1

\* A step on the way to a level is followed by the rest of the way, or has
\* brought the level there.
LEMMA StepToward ==
  ASSUME NEW c \in LevelRange, NEW step \in Int, NEW comp \in Nat, NEW rem \in Nat, rem >= 1,
         NEW n \in 0..(Max + 1), Toward(n, c, step, comp, rem), comp <= rem - 1
  PROVE  /\ rem > 1 => Toward(n, NextC(c, step), step, comp, rem - 1)
         /\ rem = 1 => Rounded(NextC(c, step), step) = EndOf(n, step)
<1> DEFINE p == Min * Unit
           m == Max * Unit
           u == n * Unit
           d == NextC(c, step)
           w == rem * step
           w1 == (rem - 1) * step
           v == Rounded(d, step)
<1>1. /\ p \in Int /\ m \in Int /\ Unit \in Int /\ p + Unit <= m /\ Unit >= 2 /\ u \in Int
      /\ n <= Max => u <= m
      /\ n = Max + 1 => u = m + Unit
      /\ n < Min <=> u + Unit <= p
      /\ n \in Int /\ Min \in Int /\ Max \in Int /\ Min < Max
  <2>1. n \in Int /\ Min \in Int /\ Max \in Int /\ Min < Max
    BY LightConstants
  <2>2. /\ n <= Max <=> u <= m
        /\ n < Min <=> u + Unit <= p
        /\ u \in Int /\ (Max + 1) * Unit = m + Unit
    BY <2>1, Fractions
  <2> QED BY <2>1, <2>2, Ends
<1>2. /\ d = c + step \/ (step > 0 /\ c + step >= m + Unit /\ d = m)
                      \/ (step < 0 /\ c + step < p /\ d = p)
      /\ d = c + step => (step > 0 => c + step < m + Unit) /\ (step < 0 => c + step >= p)
      /\ d \in Int /\ c \in Int /\ p <= c
  <2>1. LevelRange \subseteq Int /\ c >= p
    BY <1>1, Ends DEF LevelRange
  <2> QED BY <2>1, StepInRange
<1>3. /\ w \in Int /\ w1 \in Int /\ w = w1 + step
      /\ step > 0 => w1 >= rem - 1
      /\ step <= 0 => w1 <= 0
      /\ rem = 1 => w1 = 0
  <2>1. w \in Int /\ w1 \in Int /\ w = w1 + step
    OBVIOUS
  <2>2. step > 0 => w1 >= rem - 1
    OBVIOUS
  <2>3. step <= 0 => w1 <= 0
    OBVIOUS
  <2>4. rem = 1 => w1 = 0
    OBVIOUS
  <2> QED BY <2>1, <2>2, <2>3, <2>4
<1>4. IF step > 0 THEN c + w + comp = u ELSE c + w - comp = u \/ (c = p /\ n <= Min)
  BY DEF Toward
<1> HIDE DEF p, m, u, d, w, w1, v
\* The rest of the way, unless the step was cut.
<1>5. CASE step > 0
  <2>1. c + step + w1 + comp = u
    BY <1>2, <1>3, <1>4, <1>5, <1>1
  <2>2. CASE d = c + step
    <3>1. d + w1 + comp = u
      BY <2>1, <2>2
    <3>2. rem > 1 => Toward(n, d, step, comp, rem - 1)
      BY <1>5, <3>1 DEF Toward, w1, u
    <3>3. ASSUME rem = 1 PROVE v = EndOf(n, step)
      <4>1. d = u /\ d < m + Unit
        BY <1>1, <1>2, <1>3, <1>5, <2>2, <3>1, <3>3
      <4>2. n <= Max
        BY <1>1, <4>1
      <4>3. v = n
        BY <1>5, <4>1, RoundedUp DEF v, u
      <4> QED BY <1>1, <1>5, <4>2, <4>3 DEF EndOf, Smaller
    <3> QED BY <3>2, <3>3 DEF d, v
  <2>3. CASE d # c + step
    <3>1. c + step >= m + Unit /\ d = m
      BY <1>2, <1>5, <2>3
    <3>2. u >= m + Unit + w1 + comp
      BY <1>1, <1>2, <1>3, <2>1, <3>1
    <3>3. n = Max + 1
      BY <1>1, <1>3, <1>5, <3>2
    <3>4. rem = 1
      BY <1>1, <1>3, <1>5, <3>2, <3>3
    <3>5. v = Max
      BY <1>1, <1>5, <3>1, RoundedUp DEF v, m
    <3>6. EndOf(n, step) = Max
      BY <1>1, <1>5, <3>3 DEF EndOf, Smaller
    <3> QED BY <3>4, <3>5, <3>6 DEF d, v
  <2> QED BY <2>2, <2>3
<1>6. CASE ~(step > 0)
  <2>1. CASE d = p /\ n <= Min
    <3>1. rem > 1 => Toward(n, d, step, comp, rem - 1)
      BY <1>6, <2>1 DEF Toward, p
    <3>2. v = Min
      BY <1>1, <1>6, <2>1, RoundedDown DEF v, p
    <3>3. EndOf(n, step) = Min
      BY <1>1, <1>6, <2>1 DEF EndOf, Larger
    <3> QED BY <3>1, <3>2, <3>3 DEF d, v
  <2>2. CASE d = c + step /\ c + w - comp = u
    <3>1. d + w1 - comp = u
      BY <1>1, <1>2, <1>3, <2>2
    <3>2. rem > 1 => Toward(n, d, step, comp, rem - 1)
      BY <1>6, <3>1 DEF Toward, w1, u
    <3>3. ASSUME rem = 1 PROVE v = EndOf(n, step)
      <4>1. d = u /\ d >= p
        BY <1>1, <1>2, <1>3, <1>6, <2>2, <3>1, <3>3
      <4>2. n >= Min
        BY <1>1, <4>1
      <4>3. v = n
        BY <1>1, <1>6, <4>1, RoundedDown DEF v, u
      <4> QED BY <1>1, <1>6, <4>2, <4>3 DEF EndOf, Larger
    <3> QED BY <3>2, <3>3 DEF d, v
  <2>3. CASE d # c + step /\ c + w - comp = u
    <3>1. c + step < p /\ d = p
      BY <1>2, <1>6, <2>3
    <3>2. u < p
      BY <1>1, <1>2, <1>3, <1>6, <2>3, <3>1
    <3>3. n < Min
      BY <1>1, <3>2, LowLevels DEF u, p
    <3> QED BY <1>1, <2>1, <3>1, <3>3
  <2>4. CASE c = p /\ n <= Min
    <3>1. d = p
      BY <1>1, <1>2, <1>6, <2>4
    <3> QED BY <2>1, <2>4, <3>1
  <2> QED BY <1>4, <1>6, <2>2, <2>3, <2>4
<1> QED BY <1>5, <1>6

-----------------------------------------------------------------------------
(* What the commands and the timer make of the level *)

\* The fractions of a level that are counted.
Fine == 0..((Max + 1) * Unit)

\* The records of the level.
LevelRec ==
  [lvl : Min..(Max + 1), c : Fine, step : Int, comp : Nat,
   rem : 0..Forever, with : BOOLEAN, timer : BOOLEAN]

\* The level is on the way of l to level n, or has come to its end.
OnTheWay(n, l) ==
  IF l.rem > 0 THEN l.rem < Forever /\ Toward(n, l.c, l.step, l.comp, l.rem)
               ELSE l.lvl = EndOf(n, l.step)

\* The fractions of the levels a light may have are among those that are counted.
LEMMA RangeTypes ==
  /\ LevelRange \subseteq Fine /\ Fine \subseteq Int /\ LevelRange \subseteq Int
  /\ \A n \in Min..(Max + 1) : n * Unit \in LevelRange
<1>1. Min * Unit \in Int /\ (Max + 1) * Unit \in Int /\ Min \in Int /\ Max \in Int
  BY LightConstants, Fractions
<1>2. 0 * Unit <= Min * Unit /\ 0 * Unit = 0
  <2>1. 0 \in Int /\ 0 <= Min /\ Unit \in Nat
    BY LightConstants
  <2>2. 0 * Unit = 0
    BY <2>1
  <2> QED BY <1>1, <2>1, <2>2, Fractions
<1>3. ASSUME NEW n \in Min..(Max + 1)
      PROVE  n * Unit \in LevelRange
  <2>1. /\ n \in Int /\ Max + 1 \in Int /\ n * Unit \in Int
        /\ Min * Unit <= n * Unit /\ n * Unit <= (Max + 1) * Unit
    <3>1. n \in Int /\ Max + 1 \in Int /\ Min <= n /\ n <= Max + 1
      BY <1>1
    <3> QED BY <1>1, <3>1, Fractions
  <2> DEFINE a == Min * Unit
             b == (Max + 1) * Unit
             x == n * Unit
  <2>2. a \in Int /\ b \in Int /\ x \in Int /\ a <= x /\ x <= b
    BY <1>1, <2>1
  <2> HIDE DEF a, b, x
  <2>3. x \in a..b
    BY <2>2
  <2> QED BY <2>3 DEF a, b, x, LevelRange
<1> DEFINE a == Min * Unit
           b == (Max + 1) * Unit
<1>4. a \in Int /\ b \in Int /\ 0 <= a
  BY <1>1, <1>2
<1> HIDE DEF a, b
<1>5. a..b \subseteq 0..b /\ a..b \subseteq Int /\ 0..b \subseteq Int
  BY <1>4
<1> QED BY <1>3, <1>5 DEF a, b, LevelRange, Fine

\* A step of the level, with the rest of it as it was.
LEMMA AppliedLevel ==
  ASSUME NEW l \in LevelRec, l.c \in LevelRange, l.rem >= 1
  PROVE  LET y == Applied(l) IN
         /\ y \in LevelRec /\ y.c \in LevelRange
         /\ y.c = NextC(l.c, l.step) /\ y.lvl = Rounded(y.c, l.step)
         /\ y.step = l.step /\ y.comp = l.comp /\ y.with = l.with
         /\ y.rem = IF l.rem = Forever THEN Forever ELSE l.rem - 1
<1> DEFINE c == NextC(l.c, l.step)
           v == Rounded(c, l.step)
           r == IF l.rem = Forever THEN Forever ELSE l.rem - 1
<1>1. Applied(l) = [l EXCEPT !.c = c, !.lvl = v, !.rem = r]
  BY DEF Applied, NextC, Rounded, LevelRec
<1>2. c \in LevelRange /\ v \in Min..(Max + 1)
  BY StepInRange DEF LevelRec
<1>3. c \in Fine
  BY <1>2, RangeTypes
<1>4. r \in 0..Forever
  <2>1. Forever \in Nat /\ l.rem \in 0..Forever
    BY LightConstants DEF LevelRec
  <2> QED BY <2>1
<1> HIDE DEF c, v, r
<1>5. LET y == [l EXCEPT !.c = c, !.lvl = v, !.rem = r] IN
      /\ y \in LevelRec /\ y.c = c /\ y.lvl = v /\ y.rem = r
      /\ y.step = l.step /\ y.comp = l.comp /\ y.with = l.with
  BY <1>2, <1>3, <1>4 DEF LevelRec
<1> QED BY <1>1, <1>2, <1>5 DEF c, v, r

\* The timer runs while there is time that remains.
LEMMA BegunLevel ==
  ASSUME NEW l \in LevelRec
  PROVE  LET y == Begun(l) IN
         /\ y \in LevelRec /\ y.timer = (y.rem > 0)
         /\ y.lvl = l.lvl /\ y.c = l.c /\ y.step = l.step /\ y.comp = l.comp
         /\ y.rem = l.rem /\ y.with = l.with
<1>1. \A b \in BOOLEAN :
        LET y == [l EXCEPT !.timer = b] IN
        /\ y \in LevelRec /\ y.timer = b
        /\ y.lvl = l.lvl /\ y.c = l.c /\ y.step = l.step /\ y.comp = l.comp
        /\ y.rem = l.rem /\ y.with = l.with
  BY DEF LevelRec
<1>2. (l.rem > 0) \in BOOLEAN
  OBVIOUS
<1> QED BY <1>1, <1>2 DEF Begun

\* Making up for the remainder keeps the level on its way.
LEMMA CompensatedLevel ==
  ASSUME NEW l \in LevelRec, l.rem >= 1
  PROVE  LET y == Compensated(l) IN
         /\ y \in LevelRec /\ y.c = l.c /\ y.rem = l.rem /\ y.with = l.with
         /\ \A n \in 0..(Max + 1) :
              Toward(n, l.c, l.step, l.comp, l.rem) =>
                /\ Toward(n, y.c, y.step, y.comp, y.rem) /\ y.comp <= y.rem - 1
                /\ EndOf(n, y.step) = EndOf(n, l.step)
<1>1. l.step \in Int /\ l.comp \in Nat /\ l.rem \in Nat /\ l.c \in Int
  <2>1. l.step \in Int /\ l.comp \in Nat /\ l.rem \in 0..Forever /\ l.c \in Fine
    BY DEF LevelRec
  <2>2. 0..Forever \subseteq Nat
    BY LightConstants
  <2>3. Fine \subseteq Int
    BY RangeTypes
  <2> QED BY <2>1, <2>2, <2>3
<1>2. CASE l.comp >= l.rem
  <2> DEFINE s == IF l.step > 0 THEN l.step + 1 ELSE l.step - 1
  <2>1. Compensated(l) = [l EXCEPT !.comp = 0, !.step = s]
    BY <1>2 DEF Compensated, LevelRec
  <2>2. \A k \in Int :
          LET y == [l EXCEPT !.comp = 0, !.step = k] IN
          /\ y \in LevelRec /\ y.c = l.c /\ y.rem = l.rem /\ y.with = l.with
          /\ y.comp = 0 /\ y.step = k
    BY DEF LevelRec
  <2>3. s \in Int
    BY <1>1
  <2>4. ASSUME NEW n \in 0..(Max + 1), Toward(n, l.c, l.step, l.comp, l.rem)
        PROVE  Toward(n, l.c, s, 0, l.rem) /\ EndOf(n, s) = EndOf(n, l.step)
    <3> DEFINE u == n * Unit
               p == Min * Unit
               c == l.c
               w == l.rem * l.step
               ws == l.rem * s
    <3>1. /\ l.comp = l.rem /\ w \in Int /\ ws \in Int /\ u \in Int
          /\ ws = IF l.step > 0 THEN w + l.rem ELSE w - l.rem
          /\ s > 0 <=> l.step > 0
      <4>1. l.comp = l.rem
        BY <1>1, <1>2, <2>4 DEF Toward
      <4>2. n \in Int /\ u \in Int
        BY LightConstants, Fractions
      <4>3. w \in Int /\ ws \in Int /\ ws = IF l.step > 0 THEN w + l.rem ELSE w - l.rem
        BY <1>1
      <4>4. s > 0 <=> l.step > 0
        BY <1>1
      <4> QED BY <4>1, <4>2, <4>3, <4>4
    <3>2. IF l.step > 0 THEN c + w + l.comp = u
          ELSE c + w - l.comp = u \/ (c = p /\ n <= Min)
      BY <2>4 DEF Toward
    <3> HIDE DEF u, p, c, w, ws, s
    <3>3. c \in Int
      BY <1>1 DEF c
    <3>4. IF s > 0 THEN c + ws + 0 = u
          ELSE c + ws - 0 = u \/ (c = p /\ n <= Min)
      BY <1>1, <3>1, <3>2, <3>3
    <3>5. Toward(n, l.c, s, 0, l.rem)
      BY <1>1, <3>4 DEF Toward, u, p, c, ws
    <3> QED BY <3>1, <3>5 DEF EndOf
  <2> HIDE DEF s
  <2>5. LET y == Compensated(l) IN
        /\ y \in LevelRec /\ y.c = l.c /\ y.rem = l.rem /\ y.with = l.with
        /\ y.comp = 0 /\ y.step = s
    BY <2>1, <2>2, <2>3, Zenon
  <2>6. 0 <= l.rem - 1
    BY <1>1
  <2> QED BY <2>4, <2>5, <2>6
<1>3. CASE ~(l.comp >= l.rem)
  <2>1. Compensated(l) = l
    BY <1>3 DEF Compensated
  <2>2. l.comp <= l.rem - 1
    BY <1>1, <1>3
  <2> QED BY <2>1, <2>2
<1> QED BY <1>2, <1>3

\* A move that has come to the end of the range has no time left; a transition
\* in a number of ticks is not changed.
LEMMA EndedLevel ==
  ASSUME NEW l \in LevelRec
  PROVE  LET y == Ended(l) IN
         /\ y \in LevelRec /\ y.c = l.c /\ y.lvl = l.lvl /\ y.with = l.with
         /\ l.rem < Forever => y = l
<1>1. LET y == [l EXCEPT !.rem = 0] IN
      y \in LevelRec /\ y.c = l.c /\ y.lvl = l.lvl /\ y.with = l.with
  BY LightConstants DEF LevelRec
<1>2. l.rem < Forever => l.rem # Forever
  BY LightConstants DEF LevelRec
<1> QED BY <1>1, <1>2 DEF Ended

\* A tick of the level's timer.
LEMMA TickLevel ==
  ASSUME NEW l \in LevelRec, l.c \in LevelRange, l.rem >= 1
  PROVE  LET x == Ended(Applied(Compensated(l)))
             y == Begun(x)
         IN /\ x \in LevelRec /\ x.with = l.with /\ x.lvl = y.lvl
            /\ y \in LevelRec /\ y.timer = (y.rem > 0) /\ y.c \in LevelRange /\ y.with = l.with
            /\ \A n \in 0..(Max + 1) :
                 OnTheWay(n, l) => OnTheWay(n, y) /\ (y.rem > 0 => EndOf(n, y.step) = EndOf(n, l.step))
                                                  /\ (y.rem = 0 => y.lvl = EndOf(n, l.step))
<1> DEFINE k == Compensated(l)
           a == Applied(k)
           x == Ended(a)
           y == Begun(x)
<1>1. /\ k \in LevelRec /\ k.c = l.c /\ k.rem = l.rem /\ k.with = l.with
      /\ \A n \in 0..(Max + 1) :
           Toward(n, l.c, l.step, l.comp, l.rem) =>
             /\ Toward(n, k.c, k.step, k.comp, k.rem) /\ k.comp <= k.rem - 1
             /\ EndOf(n, k.step) = EndOf(n, l.step)
  BY CompensatedLevel
<1> HIDE DEF k
<1>2. /\ a \in LevelRec /\ a.c \in LevelRange
      /\ a.c = NextC(k.c, k.step) /\ a.lvl = Rounded(a.c, k.step)
      /\ a.step = k.step /\ a.comp = k.comp /\ a.with = k.with
      /\ a.rem = IF k.rem = Forever THEN Forever ELSE k.rem - 1
  BY <1>1, AppliedLevel
<1> HIDE DEF a
<1>3. /\ x \in LevelRec /\ x.c = a.c /\ x.lvl = a.lvl /\ x.with = a.with
      /\ a.rem < Forever => x = a
  BY <1>2, EndedLevel
<1> HIDE DEF x
<1>4. /\ y \in LevelRec /\ y.timer = (y.rem > 0)
      /\ y.lvl = x.lvl /\ y.c = x.c /\ y.step = x.step /\ y.comp = x.comp
      /\ y.rem = x.rem /\ y.with = x.with
  BY <1>3, BegunLevel
<1> HIDE DEF y
<1>5. ASSUME NEW n \in 0..(Max + 1), OnTheWay(n, l)
      PROVE  OnTheWay(n, y) /\ (y.rem > 0 => EndOf(n, y.step) = EndOf(n, l.step))
                            /\ (y.rem = 0 => y.lvl = EndOf(n, l.step))
  <2>1. l.rem \in Nat /\ Forever \in Nat /\ k.step \in Int /\ k.comp \in Nat
    BY <1>1, LightConstants DEF LevelRec
  <2>2. l.rem < Forever /\ Toward(n, l.c, l.step, l.comp, l.rem)
    BY <1>5, <2>1 DEF OnTheWay
  <2>3. /\ Toward(n, k.c, k.step, k.comp, k.rem) /\ k.comp <= k.rem - 1
        /\ EndOf(n, k.step) = EndOf(n, l.step)
    BY <1>1, <2>2
  <2>4. /\ k.rem > 1 => Toward(n, a.c, k.step, k.comp, k.rem - 1)
        /\ k.rem = 1 => a.lvl = EndOf(n, k.step)
    BY <1>1, <1>2, <2>1, <2>3, StepToward
  <2>5. a.rem = k.rem - 1 /\ a.rem < Forever /\ k.rem = l.rem
    BY <1>1, <1>2, <2>1, <2>2
  <2>6. /\ y.rem = k.rem - 1 /\ y.lvl = a.lvl /\ y.c = a.c /\ y.step = k.step /\ y.comp = k.comp
    BY <1>2, <1>3, <1>4, <2>5
  <2>7. CASE k.rem > 1
    <3>1. y.rem > 0 /\ y.rem # 0 /\ y.rem < Forever
      BY <2>1, <2>5, <2>6, <2>7
    <3> QED BY <2>3, <2>4, <2>6, <2>7, <3>1 DEF OnTheWay
  <2>8. CASE k.rem = 1
    <3>1. ~(y.rem > 0)
      BY <2>6, <2>8
    <3> QED BY <2>3, <2>4, <2>6, <2>8, <3>1 DEF OnTheWay
  <2> QED BY <1>1, <2>1, <2>7, <2>8
<1>6. y.c \in LevelRange /\ x.with = l.with /\ x.lvl = y.lvl /\ y.with = l.with
  BY <1>1, <1>2, <1>3, <1>4
<1> QED BY <1>3, <1>4, <1>5, <1>6 DEF y, x, a, k

\* The time of a command.
LEMMA TickTypes ==
  ASSUME NEW t \in 0..Forever
  PROVE  Ticks(t) \in 1..(Forever - 1)
BY LightConstants DEF Ticks

\* A command to a level: it has the sign of the change, unless that is less than a
\* fraction a tick, and is on its way to the level from its first step.
LEMMA MoveToTypes ==
  ASSUME NEW l \in LevelRec, NEW n \in 0..(Max + 1), NEW t \in 0..Forever, NEW with \in BOOLEAN
  PROVE  LET x == MoveTo(l, n, t, with)
             y == Begun(x)
         IN /\ x \in LevelRec /\ x.with = with /\ x.lvl = y.lvl /\ x.step = y.step
            /\ y \in LevelRec /\ y.timer = (y.rem > 0) /\ y.c \in LevelRange /\ y.with = with
            /\ x.step > 0 <=> (n - l.lvl) * Unit >= Ticks(t)
            /\ (n > l.lvl => (n - l.lvl) * Unit >= Ticks(t)) => OnTheWay(n, y)
<1> DEFINE T == Ticks(t)
           diff == (n - l.lvl) * Unit
           m == IF diff > 0 THEN diff ELSE -diff
           s == Quotient(diff, T)
           r == m % T
           c == l.lvl * Unit
           k == [l EXCEPT !.rem = T, !.with = with, !.c = c, !.step = s, !.comp = r]
           x == Applied(k)
           y == Begun(x)
<1>1. T \in 1..(Forever - 1) /\ T \in Nat /\ T >= 1 /\ T < Forever /\ Forever \in Nat
  BY LightConstants, TickTypes
<1>2. n \in Int /\ l.lvl \in Int /\ l.lvl \in Min..(Max + 1) /\ diff \in Int
      /\ diff = n * Unit - c /\ n * Unit \in Int /\ c \in Int
  <2>1. n \in Int /\ l.lvl \in Int /\ l.lvl \in Min..(Max + 1) /\ n - l.lvl \in Int
    BY LightConstants DEF LevelRec
  <2> QED BY <2>1, Fractions
<1>3. c \in LevelRange
  BY <1>2, RangeTypes
<1>4. MoveTo(l, n, t, with) = x
  BY DEF MoveTo
<1> HIDE DEF T, diff, c
<1>5. /\ s \in Int /\ r \in 0..(T - 1)
      /\ s > 0 <=> diff >= T
      /\ diff > 0 => T * s + r = diff
      /\ diff <= 0 => T * s - r = diff
  BY <1>1, <1>2, Quotients
<1> HIDE DEF s, r
<1>6. /\ k \in LevelRec /\ k.rem = T /\ k.with = with /\ k.c = c /\ k.step = s /\ k.comp = r
  <2>1. T \in 0..Forever /\ r \in Nat /\ c \in Fine
    BY <1>1, <1>3, <1>5, RangeTypes
  <2> QED BY <1>5, <2>1 DEF LevelRec
<1> HIDE DEF k
<1>7. /\ x \in LevelRec /\ x.c \in LevelRange
      /\ x.c = NextC(k.c, k.step) /\ x.lvl = Rounded(x.c, k.step)
      /\ x.step = k.step /\ x.comp = k.comp /\ x.with = k.with
      /\ x.rem = IF k.rem = Forever THEN Forever ELSE k.rem - 1
  BY <1>1, <1>3, <1>6, AppliedLevel
<1> HIDE DEF x
<1>8. /\ y \in LevelRec /\ y.timer = (y.rem > 0)
      /\ y.lvl = x.lvl /\ y.c = x.c /\ y.step = x.step /\ y.comp = x.comp
      /\ y.rem = x.rem /\ y.with = x.with
  BY <1>7, BegunLevel
<1> HIDE DEF y
<1>9. ASSUME n > l.lvl => diff >= T
      PROVE  OnTheWay(n, y)
  <2>0. n > l.lvl <=> diff > 0
    <3>1. n <= l.lvl <=> n * Unit <= c
      BY <1>2, Fractions DEF c
    <3> DEFINE u == n * Unit
    <3> HIDE DEF u
    <3>2. n <= l.lvl <=> u <= c
      BY <3>1 DEF u
    <3>3. u \in Int /\ diff = u - c
      BY <1>2 DEF u
    <3> QED BY <1>2, <3>2, <3>3
  <2>1. /\ diff > 0 \/ ~(s > 0)
        /\ diff <= 0 => ~(s > 0)
    BY <1>1, <1>2, <1>5
  <2>2. CASE s > 0 \/ diff <= 0
    <3>1. Toward(n, c, s, r, T) /\ r <= T - 1
      <4> DEFINE u == n * Unit
                 w == T * s
      <4>1. w \in Int /\ u \in Int
        BY <1>1, <1>2, <1>5
      <4>2. diff = u - c /\ r \in Int /\ r <= T - 1 /\ r <= T
        BY <1>1, <1>2, <1>5
      <4>3. (diff > 0 => w + r = diff) /\ (diff <= 0 => w - r = diff)
        BY <1>5
      <4> HIDE DEF u, w
      <4>4. IF s > 0 THEN c + w + r = u ELSE c + w - r = u
        BY <1>2, <2>1, <2>2, <4>1, <4>2, <4>3
      <4> QED BY <4>2, <4>4 DEF Toward, u, w
    <3>2. /\ T > 1 => Toward(n, x.c, s, r, T - 1)
          /\ T = 1 => x.lvl = EndOf(n, s)
      <4>1. r \in Nat
        BY <1>1, <1>5
      <4> QED BY <1>1, <1>3, <1>5, <1>6, <1>7, <3>1, <4>1, StepToward
    <3>3. y.rem = T - 1 /\ y.lvl = x.lvl /\ y.c = x.c /\ y.step = s /\ y.comp = r
      BY <1>1, <1>6, <1>7, <1>8
    <3>4. CASE T > 1
      <4>1. y.rem > 0 /\ y.rem < Forever
        BY <1>1, <3>3, <3>4
      <4> QED BY <3>2, <3>3, <3>4, <4>1 DEF OnTheWay
    <3>5. CASE T = 1
      <4>1. ~(y.rem > 0)
        BY <3>3, <3>5
      <4> QED BY <3>2, <3>3, <3>5, <4>1 DEF OnTheWay
    <3> QED BY <1>1, <3>4, <3>5
  <2>3. s > 0 \/ diff <= 0
    BY <1>2, <1>5, <1>9, <2>0
  <2> QED BY <2>2, <2>3
<1> QED BY <1>4, <1>5, <1>6, <1>7, <1>8, <1>9 DEF x, y, diff, T

\* A move or a step, of which nothing is said but that the level stays in range.
LEMMA MovingTypes ==
  ASSUME NEW l \in LevelRec, NEW step \in Int, NEW t \in 1..Forever, NEW with \in BOOLEAN
  PROVE  LET x == Moving(l, step, t, with)
             y == Begun(x)
         IN /\ x \in LevelRec /\ x.with = with /\ x.lvl = y.lvl
            /\ y \in LevelRec /\ y.timer = (y.rem > 0) /\ y.c \in LevelRange /\ y.with = with
<1> DEFINE c == l.lvl * Unit
           k == [l EXCEPT !.rem = t, !.with = with, !.c = c, !.step = step]
           x == Applied(k)
           y == Begun(x)
<1>1. c \in LevelRange
  BY RangeTypes DEF LevelRec
<1>2. Moving(l, step, t, with) = x
  BY DEF Moving
<1> HIDE DEF c
<1>3. c \in Fine /\ t \in 0..Forever /\ t >= 1
  <2>1. t \in 0..Forever /\ t >= 1
    BY LightConstants
  <2> QED BY <1>1, <2>1, RangeTypes
<1>4. k \in LevelRec /\ k.rem = t /\ k.with = with /\ k.c = c
  BY <1>3 DEF LevelRec
<1> HIDE DEF k
<1>5. x \in LevelRec /\ x.c \in LevelRange /\ x.with = k.with
  BY <1>1, <1>3, <1>4, AppliedLevel
<1> HIDE DEF x
<1>6. y \in LevelRec /\ y.timer = (y.rem > 0) /\ y.lvl = x.lvl /\ y.c = x.c /\ y.with = x.with
  BY <1>5, BegunLevel
<1> QED BY <1>2, <1>4, <1>5, <1>6 DEF x, y

-----------------------------------------------------------------------------
(* What they make of on/off *)

\* The records of on/off.
OnRec == [on : BOOLEAN, time : 0..Forever, wait : 0..Forever, timer : BOOLEAN]

\* Switching ends times and starts none.
LEMMA SwitchedTypes ==
  ASSUME NEW o \in OnRec, NEW on \in BOOLEAN
  PROVE  LET p == Switched(o, on) IN
         /\ p \in OnRec /\ p.on = on
         /\ \A e \in BOOLEAN : TimesRun(o, e) => TimesRun(p, e)
<1> DEFINE a == IF on THEN o.time ELSE 0
           w == IF on /\ o.time = 0 THEN 0 ELSE o.wait
           p == [o EXCEPT !.on = on, !.time = a, !.wait = w]
<1>1. Switched(o, on) = p
  BY DEF Switched, OnRec
<1>2. a \in {o.time, 0} /\ w \in {o.wait, 0} /\ 0 \in 0..Forever /\ 0 # Forever /\ ~(0 > 0)
  BY LightConstants
<1>3. o.time \in 0..Forever /\ o.wait \in 0..Forever
  BY DEF OnRec
<1> HIDE DEF a, w
<1>4. p \in OnRec /\ p.on = on /\ p.time = a /\ p.wait = w /\ p.timer = o.timer
  BY <1>2, <1>3 DEF OnRec
<1> HIDE DEF p
<1>5. ASSUME NEW e \in BOOLEAN, TimesRun(o, e)
      PROVE  TimesRun(p, e)
  BY <1>2, <1>4, <1>5 DEF TimesRun
<1> QED BY <1>1, <1>4, <1>5 DEF p

\* A level command that is with on/off switches the light off at the lowest level,
\* and on above it if it says so.
LEMMA CoupledTypes ==
  ASSUME NEW o \in OnRec, NEW l \in LevelRec, NEW up \in BOOLEAN
  PROVE  LET p == Coupled(o, l, up) IN
         /\ p \in OnRec
         /\ l.with /\ l.lvl <= Min => ~p.on
         /\ l.with /\ l.lvl > Min /\ up => p.on
         /\ ~l.with \/ (l.lvl > Min /\ ~up) => p = o
         /\ \A e \in BOOLEAN : TimesRun(o, e) => TimesRun(p, e)
<1> DEFINE q == IF l.with /\ up THEN Switched(o, TRUE) ELSE o
<1>1. /\ q \in OnRec /\ (l.with /\ up => q.on) /\ (~(l.with /\ up) => q = o)
      /\ \A e \in BOOLEAN : TimesRun(o, e) => TimesRun(q, e)
  BY SwitchedTypes
<1> HIDE DEF q
<1>2. /\ Switched(q, FALSE) \in OnRec /\ Switched(q, FALSE).on = FALSE
      /\ \A e \in BOOLEAN : TimesRun(q, e) => TimesRun(Switched(q, FALSE), e)
  BY <1>1, SwitchedTypes
<1>3. Coupled(o, l, up) = IF l.with /\ l.lvl <= Min THEN Switched(q, FALSE) ELSE q
  BY DEF Coupled, q
<1>4. l.lvl > Min <=> ~(l.lvl <= Min)
  BY LightConstants DEF LevelRec
<1> QED BY <1>1, <1>2, <1>3, <1>4

\* A command to a level switches the light on if it rises.
LEMMA CoupledToTypes ==
  ASSUME NEW o \in OnRec, NEW l \in LevelRec
  PROVE  LET p == CoupledTo(o, l) IN
         /\ p \in OnRec
         /\ l.with /\ l.step > 0 => p.on
         /\ l.with /\ ~(l.step > 0) /\ l.lvl <= Min => ~p.on
         /\ \A e \in BOOLEAN : TimesRun(o, e) => TimesRun(p, e)
<1>1. /\ Switched(o, TRUE) \in OnRec /\ Switched(o, TRUE).on = TRUE
      /\ \A e \in BOOLEAN : TimesRun(o, e) => TimesRun(Switched(o, TRUE), e)
  BY SwitchedTypes
<1>2. LET p == Coupled(o, l, FALSE) IN
      /\ p \in OnRec
      /\ l.with /\ l.lvl <= Min => ~p.on
      /\ \A e \in BOOLEAN : TimesRun(o, e) => TimesRun(p, e)
  BY CoupledTypes
<1>3. CASE l.with /\ l.step > 0
  BY <1>1, <1>3 DEF CoupledTo
<1>4. CASE ~(l.with /\ l.step > 0)
  <2>1. CoupledTo(o, l) = Coupled(o, l, FALSE)
    BY <1>4 DEF CoupledTo
  <2> QED BY <1>2, <1>4, <2>1
<1> QED BY <1>3, <1>4

\* A timed off runs with the timer, or has asked for a time of Forever.
LEMMA TimedOffTypes ==
  ASSUME NEW o \in OnRec, NEW t \in 0..Forever, NEW w \in 0..Forever
  PROVE  LET p == Started(TimedOffUpdate(o, t, w)) IN
         /\ p \in OnRec
         /\ o.wait > 0 /\ ~o.on => ~p.on
         /\ \A e \in BOOLEAN : TimesRun(o, e) => TimesRun(p, Forever \in {t, w} \/ e)
<1> DEFINE u == TimedOffUpdate(o, t, w)
           p == Started(u)
<1>1. /\ o.time \in 0..Forever /\ o.wait \in 0..Forever /\ o.on \in BOOLEAN /\ o.timer \in BOOLEAN
      /\ Forever \in Nat /\ Forever >= 2
  BY LightConstants DEF OnRec
<1>2. /\ u \in OnRec /\ (o.wait > 0 /\ ~o.on => ~u.on)
      /\ u.time \in {o.time, t, 0} /\ u.wait \in {o.wait, w, 0}
  <2>1. CASE o.wait > 0 /\ ~o.on
    <3> DEFINE s == Smaller(o.wait, w)
    <3>1. u = [o EXCEPT !.wait = s]
      BY <2>1 DEF TimedOffUpdate, OnRec
    <3>2. s \in {o.wait, w}
      BY DEF Smaller
    <3> HIDE DEF s
    <3>3. s \in 0..Forever
      BY <1>1, <3>2
    <3>4. u \in OnRec /\ u.on = o.on /\ u.time = o.time /\ u.wait = s
      BY <3>1, <3>3 DEF OnRec
    <3> QED BY <2>1, <3>2, <3>4
  <2>2. CASE ~(o.wait > 0 /\ ~o.on)
    <3> DEFINE s == Larger(o.time, t)
               k == [o EXCEPT !.time = s, !.wait = w]
    <3>1. u = Switched(k, TRUE)
      BY <2>2 DEF TimedOffUpdate, OnRec
    <3>2. s \in {o.time, t}
      BY DEF Larger
    <3> HIDE DEF s
    <3>3. s \in 0..Forever
      BY <1>1, <3>2
    <3>4. k \in OnRec /\ k.time = s /\ k.wait = w
      BY <3>3 DEF OnRec
    <3> HIDE DEF k
    <3>5. u \in OnRec
      BY <3>1, <3>4, SwitchedTypes
    <3>6. u.time = k.time /\ u.wait \in {k.wait, 0}
      BY <3>1, <3>4 DEF Switched, OnRec
    <3> QED BY <2>2, <3>2, <3>4, <3>5, <3>6
  <2> QED BY <2>1, <2>2
<1> HIDE DEF u
<1>3. /\ p \in OnRec /\ p.on = u.on /\ p.time = u.time /\ p.wait = u.wait
      /\ u.time < Forever /\ u.wait < Forever /\ (u.time > 0 \/ u.wait > 0) => p.timer
  <2>1. CASE u.time < Forever /\ u.wait < Forever /\ (u.time > 0 \/ u.wait > 0)
    <3>1. p = [u EXCEPT !.timer = TRUE]
      BY <2>1 DEF Started
    <3> QED BY <1>2, <3>1 DEF OnRec
  <2>2. CASE ~(u.time < Forever /\ u.wait < Forever /\ (u.time > 0 \/ u.wait > 0))
    <3>1. p = u
      BY <2>2 DEF Started
    <3> QED BY <1>2, <2>2, <3>1
  <2> QED BY <2>1, <2>2
<1> HIDE DEF p
<1>4. ASSUME NEW e \in BOOLEAN, TimesRun(o, e)
      PROVE  TimesRun(p, Forever \in {t, w} \/ e)
  <2>1. u.time = Forever \/ u.wait = Forever => Forever \in {t, w} \/ e
    BY <1>1, <1>2, <1>4 DEF TimesRun
  <2>2. u.time \in 0..Forever /\ u.wait \in 0..Forever
    BY <1>2 DEF OnRec
  <2>3. u.time > 0 \/ u.wait > 0 => p.timer \/ Forever \in {t, w} \/ e
    BY <1>1, <1>3, <2>1, <2>2
  <2> QED BY <1>3, <2>1, <2>3 DEF TimesRun
<1> QED BY <1>2, <1>3, <1>4 DEF p, u

\* A tick of the timed off.
LEMMA TimedOutTypes ==
  ASSUME NEW o \in OnRec
  PROVE  LET a == TimedOut(o)
             p == Waited(a)
             q == [p EXCEPT !.timer = p.time > 0 \/ p.wait > 0]
         IN /\ a \in OnRec /\ p \in OnRec /\ q \in OnRec /\ q.on = a.on
            /\ \A e \in BOOLEAN : TimesRun(o, e) => TimesRun(q, e)
<1> DEFINE a == TimedOut(o)
           p == Waited(a)
           r == p.time > 0 \/ p.wait > 0
           q == [p EXCEPT !.timer = r]
<1>1. /\ o.time \in 0..Forever /\ o.wait \in 0..Forever /\ Forever \in Nat /\ Forever >= 2
  BY LightConstants DEF OnRec
<1>2. /\ a \in OnRec
      /\ a.time = Forever => o.time = Forever
      /\ a.wait = Forever => o.wait = Forever
  <2>1. CASE o.on /\ o.time > 0
    <3> DEFINE time == o.time - 1
               k == [o EXCEPT !.time = 0, !.wait = 0]
    <3>1. time \in 0..Forever /\ time # Forever
      BY <1>1, <2>1
    <3>2. a = IF time = 0 THEN Switched(k, FALSE) ELSE [o EXCEPT !.time = time]
      BY <2>1 DEF TimedOut
    <3> HIDE DEF time
    <3>3. CASE time = 0
      <4>0. 0 \in 0..Forever
        BY <1>1
      <4>1. k \in OnRec /\ k.time = 0 /\ k.wait = 0
        BY <4>0 DEF OnRec
      <4> HIDE DEF k
      <4>2. a \in OnRec /\ a.time = 0 /\ a.wait = 0
        <5>1. a = Switched(k, FALSE)
          BY <3>2, <3>3
        <5>2. Switched(k, FALSE) = [k EXCEPT !.on = FALSE, !.time = 0, !.wait = k.wait]
          BY <4>1 DEF Switched, OnRec
        <5>3. a = [k EXCEPT !.on = FALSE, !.time = 0, !.wait = k.wait]
          BY <5>1, <5>2
        <5> HIDE DEF a
        <5> QED BY <4>0, <4>1, <5>3 DEF OnRec
      <4> QED BY <1>1, <4>2
    <3>4. CASE time # 0
      <4>1. a \in OnRec /\ a.time = time /\ a.wait = o.wait
        BY <3>1, <3>2, <3>4 DEF OnRec
      <4> QED BY <3>1, <4>1
    <3> QED BY <3>3, <3>4
  <2>2. CASE ~(o.on /\ o.time > 0)
    <3>1. a = o
      BY <2>2 DEF TimedOut
    <3> QED BY <3>1
  <2> QED BY <2>1, <2>2
<1> HIDE DEF a
<1>3. /\ p \in OnRec /\ p.on = a.on /\ p.time = a.time
      /\ p.wait = Forever => a.wait = Forever
  <2>1. a.wait \in 0..Forever
    BY <1>2 DEF OnRec
  <2>2. CASE ~a.on /\ a.wait > 0
    <3> DEFINE w == a.wait - 1
    <3>1. w \in 0..Forever /\ w # Forever
      BY <1>1, <2>1, <2>2
    <3>2. p = [a EXCEPT !.wait = w]
      BY <2>2 DEF Waited
    <3> HIDE DEF w
    <3> QED BY <1>2, <3>1, <3>2 DEF OnRec
  <2>3. CASE ~(~a.on /\ a.wait > 0)
    <3>1. p = a
      BY <2>3 DEF Waited
    <3> QED BY <1>2, <3>1
  <2> QED BY <2>2, <2>3
<1> HIDE DEF p
<1>4. r \in BOOLEAN
  OBVIOUS
<1> HIDE DEF r
<1>5. q \in OnRec /\ q.on = p.on /\ q.time = p.time /\ q.wait = p.wait /\ q.timer = r
  BY <1>3, <1>4 DEF OnRec
<1> HIDE DEF q
<1>6. ASSUME NEW e \in BOOLEAN, TimesRun(o, e)
      PROVE  TimesRun(q, e)
  BY <1>2, <1>3, <1>5, <1>6 DEF TimesRun, r
<1> QED BY <1>2, <1>3, <1>5, <1>6 DEF q, r, p, a

-----------------------------------------------------------------------------
(* The parts of the state *)

\* The records of the current scene.
SceneRec == [valid : BOOLEAN, has : BOOLEAN, on : BOOLEAN, lvl : 0..(Max + 1)]

\* The records of what is in flash.
StoreRec ==
  [on : BOOLEAN, lvl : Min..(Max + 1), changed : BOOLEAN, timer : BOOLEAN,
   joined : BOOLEAN, start : StartUp]

\* The records of what was asked.
AskRec ==
  [goal : 0..(Max + 1), slow : BOOLEAN, with : BOOLEAN, up : BOOLEAN, dipped : BOOLEAN,
   endless : BOOLEAN, astray : BOOLEAN, lost : BOOLEAN]

\* The type invariant, part by part.
LEMMA Parts ==
  /\ LightTypeOK <=>
       /\ onoff \in OnRec /\ level \in LevelRec /\ level.timer = (level.rem > 0)
       /\ scene \in SceneRec /\ store \in StoreRec /\ left \in [Kind -> Nat] /\ asked \in AskRec
  /\ LightTypeOK' <=>
       /\ onoff' \in OnRec /\ level' \in LevelRec /\ level'.timer = (level'.rem > 0)
       /\ scene' \in SceneRec /\ store' \in StoreRec /\ left' \in [Kind -> Nat] /\ asked' \in AskRec
BY DEF LightTypeOK, OnRec, LevelRec, Fine, SceneRec, StoreRec, AskRec

\* What is to be saved is marked, and the scene is no longer the light's.
LEMMA MarkTypes ==
  ASSUME LightTypeOK
  PROVE  /\ Change(store) \in StoreRec /\ Change(store).changed
         /\ Invalid(scene) \in SceneRec /\ ~Invalid(scene).valid
<1>1. store \in StoreRec /\ scene \in SceneRec
  BY Parts
<1> QED BY <1>1 DEF Change, Invalid, StoreRec, SceneRec

\* A happening that has come may come one time less.
LEMMA ComesTypes ==
  ASSUME LightTypeOK, NEW k \in Kind, Comes(k)
  PROVE  left' \in [Kind -> Nat]
<1>1. left \in [Kind -> Nat] /\ left[k] > 0
  BY Parts DEF Comes
<1>2. left' = [left EXCEPT ![k] = left[k] - 1] /\ left[k] - 1 \in Nat
  BY <1>1 DEF Comes
<1> QED BY <1>1, <1>2

\* An action that leaves the level, and what was asked of it.
LEMMA LevelStays ==
  ASSUME LightIInv, UNCHANGED level, asked'.goal = asked.goal, asked'.slow = asked.slow
  PROVE  Heading' /\ Moves'
BY DEF LightIInv, Heading, Moves

-----------------------------------------------------------------------------
(* Every action preserves the invariant *)

\* On, off and their like.
LEMMA SwitchStep ==
  ASSUME LightIInv, NEW on \in BOOLEAN, Switch(on)
  PROVE  LightIInv'
<1>1. LightTypeOK /\ onoff \in OnRec /\ asked \in AskRec
  BY Parts DEF LightIInv
<1>2. /\ onoff' = Switched(onoff, on) /\ scene' = Invalid(scene) /\ store' = Change(store)
      /\ asked' = [asked EXCEPT !.with = FALSE] /\ UNCHANGED level
  BY DEF Switch
<1>3. left' \in [Kind -> Nat]
  BY <1>1, ComesTypes DEF Switch, Kind
<1>4. /\ asked' \in AskRec /\ asked'.with = FALSE /\ asked'.goal = asked.goal
      /\ asked'.slow = asked.slow /\ asked'.endless = asked.endless /\ asked.endless \in BOOLEAN
  BY <1>1, <1>2 DEF AskRec
<1>5. onoff' \in OnRec /\ \A e \in BOOLEAN : TimesRun(onoff, e) => TimesRun(onoff', e)
  BY <1>1, <1>2, SwitchedTypes
<1>6. /\ store' \in StoreRec /\ store'.changed /\ scene' \in SceneRec /\ ~scene'.valid
  BY <1>1, <1>2, MarkTypes
<1>7. LightTypeOK'
  BY <1>1, <1>2, <1>3, <1>4, <1>5, <1>6, Parts
<1>8. Heading' /\ Moves'
  BY <1>2, <1>4, LevelStays
<1>9. Coupling' /\ Timed' /\ InScene' /\ SavedTruth'
  BY <1>4, <1>5, <1>6 DEF LightIInv, Coupling, Timed, InScene, SavedTruth
<1> QED BY <1>7, <1>8, <1>9 DEF LightIInv

\* On for a time.
LEMMA OnWithTimedOffStep ==
  ASSUME LightIInv, NEW only \in BOOLEAN, NEW t \in OnTimes, NEW w \in OnTimes,
         OnWithTimedOff(only, t, w)
  PROVE  LightIInv'
<1>1. LightTypeOK /\ onoff \in OnRec /\ asked \in AskRec /\ store \in StoreRec
  BY Parts DEF LightIInv
<1>2. scene' = Invalid(scene) /\ UNCHANGED level
  BY DEF OnWithTimedOff
<1>3. left' \in [Kind -> Nat]
  BY <1>1, ComesTypes DEF OnWithTimedOff, Kind
<1>4. scene' \in SceneRec /\ ~scene'.valid
  BY <1>1, <1>2, MarkTypes
<1>5. CASE only /\ ~onoff.on
  <2>1. UNCHANGED <<onoff, store, asked>>
    BY <1>5 DEF OnWithTimedOff
  <2>2. LightTypeOK'
    BY <1>1, <1>2, <1>3, <1>4, <2>1, Parts
  <2>3. Heading' /\ Moves'
    BY <1>2, <2>1, LevelStays
  <2>4. Coupling' /\ Timed' /\ InScene' /\ SavedTruth'
    BY <1>2, <1>4, <2>1 DEF LightIInv, Coupling, Timed, InScene, SavedTruth
  <2> QED BY <2>2, <2>3, <2>4 DEF LightIInv
<1>6. CASE ~(only /\ ~onoff.on)
  <2> DEFINE e == Forever \in {t, w} \/ asked.endless
  <2>1. /\ onoff' = Started(TimedOffUpdate(onoff, t, w))
        /\ store' = IF onoff.wait > 0 /\ ~onoff.on THEN store ELSE Change(store)
        /\ asked' = [asked EXCEPT !.with = FALSE, !.endless = e]
    BY <1>6 DEF OnWithTimedOff
  <2>2. e \in BOOLEAN /\ t \in 0..Forever /\ w \in 0..Forever /\ asked.endless \in BOOLEAN
    BY <1>1, LightConstants DEF AskRec
  <2>3. /\ onoff' \in OnRec /\ (onoff.wait > 0 /\ ~onoff.on => ~onoff'.on)
        /\ TimesRun(onoff, asked.endless) => TimesRun(onoff', e)
    BY <1>1, <2>1, <2>2, TimedOffTypes
  <2> HIDE DEF e
  <2>4. /\ asked' \in AskRec /\ asked'.with = FALSE /\ asked'.goal = asked.goal
        /\ asked'.slow = asked.slow /\ asked'.endless = e /\ asked'.lost = asked.lost
    BY <1>1, <2>1, <2>2 DEF AskRec
  <2>5. store' \in StoreRec /\ (store'.changed \/ (store' = store /\ onoff'.on = onoff.on))
    <3>1. onoff'.on \in BOOLEAN /\ onoff.on \in BOOLEAN
      BY <1>1, <2>3 DEF OnRec
    <3> QED BY <1>1, <2>1, <2>3, <3>1, MarkTypes
  <2>6. LightTypeOK'
    BY <1>1, <1>2, <1>3, <1>4, <2>3, <2>4, <2>5, Parts
  <2>7. Heading' /\ Moves'
    BY <1>2, <2>4, LevelStays
  <2>8. Coupling' /\ Timed' /\ InScene' /\ SavedTruth'
    BY <1>2, <1>4, <2>3, <2>4, <2>5 DEF LightIInv, Coupling, Timed, InScene, SavedTruth
  <2> QED BY <2>6, <2>7, <2>8 DEF LightIInv
<1> QED BY <1>5, <1>6

\* A tick of the time on or off.
LEMMA TimedOffTickStep ==
  ASSUME LightIInv, TimedOffTick
  PROVE  LightIInv'
<1> DEFINE o == TimedOut(onoff)
           p == Waited(o)
<1>1. LightTypeOK /\ onoff \in OnRec /\ asked \in AskRec /\ store \in StoreRec /\ scene \in SceneRec
  BY Parts DEF LightIInv
<1>2. /\ onoff' = [p EXCEPT !.timer = p.time > 0 \/ p.wait > 0]
      /\ UNCHANGED <<level, left>>
      /\ IF o.on = onoff.on THEN UNCHANGED <<scene, store, asked>>
         ELSE /\ scene' = Invalid(scene) /\ store' = Change(store)
              /\ asked' = [asked EXCEPT !.with = FALSE]
  BY DEF TimedOffTick
<1>3. onoff' \in OnRec /\ onoff'.on = o.on /\ \A e \in BOOLEAN : TimesRun(onoff, e) => TimesRun(onoff', e)
  BY <1>1, <1>2, TimedOutTypes
<1> HIDE DEF o, p
<1>4. asked.endless \in BOOLEAN
  BY <1>1 DEF AskRec
<1>5. CASE o.on = onoff.on
  <2>1. LightTypeOK'
    BY <1>1, <1>2, <1>3, <1>5, Parts
  <2>2. Heading' /\ Moves'
    BY <1>2, <1>5, LevelStays
  <2>3. Coupling' /\ Timed' /\ InScene' /\ SavedTruth'
    BY <1>2, <1>3, <1>4, <1>5 DEF LightIInv, Coupling, Timed, InScene, SavedTruth
  <2> QED BY <2>1, <2>2, <2>3 DEF LightIInv
<1>6. CASE o.on # onoff.on
  <2>1. /\ asked' \in AskRec /\ asked'.with = FALSE /\ asked'.goal = asked.goal
        /\ asked'.slow = asked.slow /\ asked'.endless = asked.endless
    BY <1>1, <1>2, <1>6 DEF AskRec
  <2>2. /\ store' \in StoreRec /\ store'.changed /\ scene' \in SceneRec /\ ~scene'.valid
    BY <1>1, <1>2, <1>6, MarkTypes
  <2>3. LightTypeOK'
    BY <1>1, <1>2, <1>3, <2>1, <2>2, Parts
  <2>4. Heading' /\ Moves'
    BY <1>2, <2>1, LevelStays
  <2>5. Coupling' /\ Timed' /\ InScene' /\ SavedTruth'
    BY <1>3, <1>4, <2>1, <2>2 DEF LightIInv, Coupling, Timed, InScene, SavedTruth
  <2> QED BY <2>3, <2>4, <2>5 DEF LightIInv
<1> QED BY <1>5, <1>6

\* What the level commands have in common.
LEMMA LevelSetStep ==
  ASSUME LightIInv, left' \in [Kind -> Nat],
         NEW l \in LevelRec, NEW o \in OnRec, NEW switched \in BOOLEAN, NEW ble \in BOOLEAN,
         NEW ask \in [goal : 0..(Max + 1), slow : BOOLEAN, with : BOOLEAN, up : BOOLEAN],
         LevelSet(l, o, switched, ask, ble),
         Begun(l).c \in LevelRange,
         \A e \in BOOLEAN : TimesRun(onoff, e) => TimesRun(o, e),
         ask.goal # None /\ ~ask.slow =>
           \E n \in 0..(Max + 1) : /\ OnTheWay(n, Begun(l))
                                   /\ ask.goal = EndOf(n, Begun(l).step),
         ask.with => /\ l.with
                     /\ ~(l.rem > 0) /\ o.on => l.lvl > Min
                     /\ ask.up /\ ~ask.slow => o.on
  PROVE  LightIInv'
<1>1. LightTypeOK /\ asked \in AskRec /\ scene \in SceneRec
  BY Parts DEF LightIInv
<1> DEFINE y == Begun(l)
           a == asked.astray \/ (ble /\ scene.valid)
<1>2. /\ y \in LevelRec /\ y.timer = (y.rem > 0) /\ y.lvl = l.lvl /\ y.rem = l.rem /\ y.with = l.with
  BY BegunLevel
<1>3. /\ level' = y /\ onoff' = o /\ store' = Change(store)
      /\ scene' = IF ble /\ ~switched THEN scene ELSE Invalid(scene)
      /\ asked' = [asked EXCEPT !.goal = ask.goal, !.slow = ask.slow, !.with = ask.with,
                                !.up = ask.up, !.dipped = FALSE, !.astray = a]
  BY DEF LevelSet
<1>4. a \in BOOLEAN /\ (ble /\ scene.valid => a) /\ asked.endless \in BOOLEAN
  BY <1>1 DEF AskRec, SceneRec
<1> HIDE DEF y, a
<1>5. /\ asked' \in AskRec /\ asked'.goal = ask.goal /\ asked'.slow = ask.slow
      /\ asked'.with = ask.with /\ asked'.up = ask.up /\ asked'.dipped = FALSE
      /\ asked'.astray = a /\ asked'.endless = asked.endless
  BY <1>1, <1>3, <1>4 DEF AskRec
<1>6. store' \in StoreRec /\ store'.changed
  BY <1>1, <1>3, MarkTypes
<1>7. scene' \in SceneRec /\ (scene'.valid => asked'.astray)
  BY <1>1, <1>3, <1>4, <1>5, MarkTypes
<1>8. LightTypeOK'
  BY <1>2, <1>3, <1>5, <1>6, <1>7, Parts
<1>9. Heading'
  <2> SUFFICES ASSUME asked'.goal # None, ~asked'.slow
               PROVE  IF level'.timer
                      THEN /\ level'.rem < Forever
                           /\ \E n \in 0..(Max + 1) :
                                /\ Toward(n, level'.c, level'.step, level'.comp, level'.rem)
                                /\ asked'.goal = EndOf(n, level'.step)
                      ELSE level'.lvl = asked'.goal
    BY DEF Heading
  <2>1. PICK n \in 0..(Max + 1) : OnTheWay(n, y) /\ ask.goal = EndOf(n, y.step)
    BY <1>5 DEF y
  <2>2. CASE y.rem > 0
    <3>1. y.rem < Forever /\ Toward(n, y.c, y.step, y.comp, y.rem)
      BY <2>1, <2>2 DEF OnTheWay
    <3> QED BY <1>2, <1>3, <1>5, <2>1, <2>2, <3>1
  <2>3. CASE ~(y.rem > 0)
    <3>1. y.lvl = EndOf(n, y.step)
      BY <2>1, <2>3 DEF OnTheWay
    <3> QED BY <1>2, <1>3, <1>5, <2>1, <2>3, <3>1
  <2> QED BY <2>2, <2>3
<1>10. Moves'
  <2>1. y.c \in LevelRange
    BY DEF y
  <2>2. \A x \in LevelRange : x >= Min * Unit
    BY Ends DEF LevelRange
  <2> QED BY <1>3, <2>1, <2>2 DEF Moves
<1>11. Coupling' /\ Timed' /\ InScene' /\ SavedTruth'
  <2>1. Coupling'
    BY <1>2, <1>3, <1>5 DEF Coupling
  <2>2. Timed'
    BY <1>3, <1>4, <1>5 DEF LightIInv, Timed
  <2>3. InScene' /\ SavedTruth'
    BY <1>6, <1>7 DEF InScene, SavedTruth
  <2> QED BY <2>1, <2>2, <2>3
<1> QED BY <1>8, <1>9, <1>10, <1>11 DEF LightIInv

\* The level a command is to reach is the one its steps lead to, if it has steps.
LEMMA GoalTypes ==
  ASSUME LightTypeOK, NEW n \in 0..(Max + 1)
  PROVE  /\ GoalOf(n) \in Min..(Max + 1) /\ GoalOf(n) \in {n, Within(n)}
         /\ n > level.lvl => GoalOf(n) > Min
         /\ \A s \in Int : (s > 0 <=> n > level.lvl) => GoalOf(n) = EndOf(n, s)
<1>1. n \in Int /\ n <= Max + 1 /\ level.lvl \in Min..(Max + 1) /\ Min \in Int /\ Max \in Int /\ Min < Max
  BY Parts, LightConstants DEF LevelRec
<1>2. Within(n) = IF n < Min THEN Min ELSE IF n < Max THEN n ELSE Max
  BY <1>1 DEF Within, Smaller, Larger
<1> DEFINE v == level.lvl
           g == GoalOf(n)
<1>3. g = IF n = v THEN n ELSE IF n < Min THEN Min ELSE IF n < Max THEN n ELSE Max
  BY <1>2 DEF GoalOf
<1>4. g \in {n, Within(n)}
  BY DEF GoalOf
<1> HIDE DEF v, g
<1>5. v \in Int /\ Min <= v /\ v <= Max + 1
  BY <1>1 DEF v
<1>6. g \in Min..(Max + 1) /\ (n > v => g > Min)
  BY <1>1, <1>3, <1>5
<1>7. ASSUME NEW s \in Int, s > 0 <=> n > v
      PROVE  g = EndOf(n, s)
  <2>1. CASE n > v
    <3>1. EndOf(n, s) = IF n < Max THEN n ELSE Max
      BY <1>7, <2>1 DEF EndOf, Smaller
    <3> QED BY <1>1, <1>3, <1>5, <2>1, <3>1
  <2>2. CASE ~(n > v)
    <3>1. EndOf(n, s) = IF n < Min THEN Min ELSE n
      BY <1>7, <2>2 DEF EndOf, Larger
    <3> QED BY <1>1, <1>3, <1>5, <2>2, <3>1
  <2> QED BY <2>1, <2>2
<1> QED BY <1>4, <1>6, <1>7 DEF g, v

\* What a transition to a level leaves, whether a command or a scene asked for it.
LEMMA Transition ==
  ASSUME LightTypeOK, NEW n \in 0..(Max + 1), NEW t \in 0..Forever, NEW with \in BOOLEAN
  PROVE  LET x == MoveTo(level, n, t, with)
             y == Begun(x)
             slow == AskLevel(n, t, with).slow
         IN /\ x \in LevelRec /\ x.with = with /\ x.lvl = y.lvl /\ x.step = y.step /\ x.rem = y.rem
            /\ y \in LevelRec /\ y.timer = (y.rem > 0) /\ y.c \in LevelRange
            /\ slow \in BOOLEAN
            /\ ~slow => /\ y.step > 0 <=> n > level.lvl
                        /\ OnTheWay(n, y) /\ GoalOf(n) = EndOf(n, y.step)
            /\ slow => ~(y.step > 0)
            /\ y.step > 0 => n > level.lvl
<1> DEFINE x == MoveTo(level, n, t, with)
           y == Begun(x)
           d == (n - level.lvl) * Unit
           slow == AskLevel(n, t, with).slow
<1>1. level \in LevelRec
  BY Parts
<1>2. /\ x \in LevelRec /\ x.with = with /\ x.lvl = y.lvl /\ x.step = y.step
      /\ y \in LevelRec /\ y.timer = (y.rem > 0) /\ y.c \in LevelRange
      /\ x.step > 0 <=> d >= Ticks(t)
      /\ (n > level.lvl => d >= Ticks(t)) => OnTheWay(n, y)
  BY <1>1, MoveToTypes
<1>3. x.rem = y.rem
  BY <1>2, BegunLevel
<1>4. d \in Int /\ Ticks(t) \in Int /\ Ticks(t) >= 1 /\ (n > level.lvl <=> d > 0)
  <2>1. n \in Int /\ level.lvl \in Int /\ Unit \in Int
    BY <1>1, LightConstants DEF LevelRec
  <2>2. Ticks(t) \in Int /\ Ticks(t) >= 1
    BY TickTypes, LightConstants
  <2> DEFINE a == n * Unit
             b == level.lvl * Unit
  <2>3. d = a - b /\ a \in Int /\ b \in Int /\ d \in Int /\ (n <= level.lvl <=> a <= b)
    <3>1. n - level.lvl \in Int
      BY <2>1
    <3> QED BY <2>1, <3>1, Fractions
  <2> HIDE DEF a, b, d
  <2>4. n > level.lvl <=> d > 0
    BY <2>1, <2>3
  <2> QED BY <2>2, <2>3, <2>4
<1>5. slow <=> n > level.lvl /\ d < Ticks(t)
  BY DEF AskLevel
<1>6. slow \in BOOLEAN
  BY DEF AskLevel
<1> HIDE DEF x, y, d, slow
<1>7. /\ y.step \in Int
      /\ ~slow => (y.step > 0 <=> n > level.lvl) /\ OnTheWay(n, y)
      /\ slow => ~(y.step > 0)
      /\ y.step > 0 => n > level.lvl
  <2>1. y.step \in Int
    BY <1>2 DEF LevelRec
  <2> QED BY <1>2, <1>4, <1>5, <2>1
<1>8. ~slow => GoalOf(n) = EndOf(n, y.step)
  BY <1>7, GoalTypes
<1> QED BY <1>2, <1>3, <1>6, <1>7, <1>8 DEF x, y, slow

\* A command to a level.
LEMMA MoveToLevelStep ==
  ASSUME LightIInv, NEW n \in Targets, NEW t \in Times, NEW with \in BOOLEAN, NEW ble \in BOOLEAN,
         MoveToLevel(n, t, with, ble)
  PROVE  LightIInv'
<1> DEFINE x == MoveTo(level, n, t, with)
           y == Begun(x)
           o == CoupledTo(onoff, x)
           ask == AskLevel(n, t, with)
           switched == with /\ (x.step > 0 \/ x.lvl <= Min)
<1>1. LightTypeOK /\ onoff \in OnRec /\ n \in 0..(Max + 1) /\ t \in 0..Forever
  BY Parts, LightConstants DEF LightIInv
<1>2. left' \in [Kind -> Nat]
  BY <1>1, ComesTypes DEF MoveToLevel, Kind
<1>3. /\ x \in LevelRec /\ x.with = with /\ x.lvl = y.lvl /\ x.step = y.step /\ x.rem = y.rem
      /\ y \in LevelRec /\ y.timer = (y.rem > 0) /\ y.c \in LevelRange
      /\ ask.slow \in BOOLEAN
      /\ ~ask.slow => /\ y.step > 0 <=> n > level.lvl
                      /\ OnTheWay(n, y) /\ GoalOf(n) = EndOf(n, y.step)
      /\ ask.slow => ~(y.step > 0)
      /\ y.step > 0 => n > level.lvl
  BY <1>1, Transition
<1>4. /\ GoalOf(n) \in Min..(Max + 1) /\ (n > level.lvl => GoalOf(n) > Min)
  BY <1>1, GoalTypes
<1>5. GoalOf(n) \in 0..(Max + 1)
  BY <1>4, LightConstants
<1>6. /\ ask \in [goal : 0..(Max + 1), slow : BOOLEAN, with : BOOLEAN, up : BOOLEAN]
      /\ ask.goal = GoalOf(n) /\ ask.with = with /\ ask.up = (n > level.lvl)
  <2>1. ((n - level.lvl) * Unit < Ticks(t)) \in BOOLEAN /\ (n > level.lvl) \in BOOLEAN
    OBVIOUS
  <2> QED BY <1>5, <2>1 DEF AskLevel
<1>7. LevelSet(x, o, switched, ask, ble) /\ switched \in BOOLEAN
  BY DEF MoveToLevel
<1> HIDE DEF x, ask
<1>8. /\ o \in OnRec
      /\ with /\ x.step > 0 => o.on
      /\ with /\ ~(x.step > 0) /\ x.lvl <= Min => ~o.on
      /\ \A e \in BOOLEAN : TimesRun(onoff, e) => TimesRun(o, e)
  BY <1>1, <1>3, CoupledToTypes
<1> HIDE DEF y, o, switched
<1>9. ask.with => /\ x.with
                  /\ ~(x.rem > 0) /\ o.on => x.lvl > Min
                  /\ ask.up /\ ~ask.slow => o.on
  <2>1. ASSUME with, ~(x.rem > 0), o.on PROVE x.lvl > Min
    <3>1. x.lvl > Min <=> ~(x.lvl <= Min)
      BY <1>3, LightConstants DEF LevelRec
    <3>2. CASE x.step > 0
      <4>1. x.lvl = GoalOf(n)
        BY <1>3, <2>1, <3>2 DEF OnTheWay
      <4> QED BY <1>3, <1>4, <3>2, <4>1
    <3>3. CASE ~(x.step > 0)
      BY <1>8, <2>1, <3>1, <3>3
    <3> QED BY <3>2, <3>3
  <2>2. with /\ ask.up /\ ~ask.slow => o.on
    BY <1>3, <1>6, <1>8
  <2> QED BY <1>3, <1>6, <2>1, <2>2
<1>10. ask.goal # None /\ ~ask.slow =>
         \E k \in 0..(Max + 1) : OnTheWay(k, y) /\ ask.goal = EndOf(k, y.step)
  BY <1>1, <1>3, <1>6
<1>11. y = Begun(x)
  BY DEF y
<1> QED BY <1>2, <1>3, <1>6, <1>7, <1>8, <1>9, <1>10, <1>11, LevelSetStep

\* A move or a step.
LEMMA DriveStep ==
  ASSUME LightIInv, NEW step \in Int, NEW t \in 1..Forever, NEW with \in BOOLEAN,
         NEW up \in BOOLEAN, NEW ble \in BOOLEAN, Drive(Moving(level, step, t, with), up, ble)
  PROVE  LightIInv'
<1> DEFINE x == Moving(level, step, t, with)
           o == Coupled(onoff, x, up)
           ask == [goal |-> None, slow |-> FALSE, with |-> x.with, up |-> FALSE]
           switched == x.with /\ (up \/ x.lvl <= Min)
<1>1. LightTypeOK /\ onoff \in OnRec /\ level \in LevelRec
  BY Parts DEF LightIInv
<1>2. left' \in [Kind -> Nat]
  BY <1>1, ComesTypes DEF Drive, Kind
<1>3. x \in LevelRec /\ x.with = with /\ Begun(x).c \in LevelRange
  BY <1>1, MovingTypes
<1>4. LevelSet(x, o, switched, ask, ble)
  BY DEF Drive
<1> HIDE DEF x
<1>5. /\ ask \in [goal : 0..(Max + 1), slow : BOOLEAN, with : BOOLEAN, up : BOOLEAN]
      /\ ask.goal = None /\ ask.with = with /\ ~ask.up
  <2>1. None \in 0..(Max + 1)
    BY LightConstants DEF None
  <2> QED BY <1>3, <2>1
<1>6. /\ o \in OnRec
      /\ x.with /\ x.lvl <= Min => ~o.on
      /\ \A e \in BOOLEAN : TimesRun(onoff, e) => TimesRun(o, e)
  BY <1>1, <1>3, CoupledTypes
<1>7. x.lvl > Min <=> ~(x.lvl <= Min)
  BY <1>3, LightConstants DEF LevelRec
<1>8. switched \in BOOLEAN
  BY <1>3
<1> HIDE DEF o, ask, switched
<1> QED BY <1>2, <1>3, <1>4, <1>5, <1>6, <1>7, <1>8, LevelSetStep

\* A timer that does not run, and no time that remains.
LEMMA NoTime ==
  ASSUME NEW l, l.timer = FALSE, l.rem = 0
  PROVE  l.timer = (l.rem > 0)
<1>1. (0 > 0) = FALSE
  OBVIOUS
<1>2. (l.rem > 0) = FALSE
  BY <1>1
<1> QED BY <1>2, Zenon

\* The signs of moves and steps.
LEMMA SignedTypes ==
  ASSUME NEW n \in Int, NEW up \in BOOLEAN
  PROVE  Signed(n, up) \in Int
BY DEF Signed

\* The commands of the level cluster.
LEMMA LevelCommandStep ==
  ASSUME LightIInv, LevelCommand
  PROVE  LightIInv'
<1>1. PICK ble \in BOOLEAN, with \in BOOLEAN :
        \/ \E n \in Targets, t \in Times : MoveToLevel(n, t, with, ble)
        \/ \E up \in BOOLEAN, r \in Rates : Move(up, r, with, ble)
        \/ \E up \in BOOLEAN, s \in Steps, t \in Times : Step(up, s, t, with, ble)
        \/ Stop(ble)
  BY DEF LevelCommand
<1>2. ASSUME NEW up \in BOOLEAN, NEW r \in Rates, Move(up, r, with, ble)
      PROVE  LightIInv'
  <2>1. Signed(r, up) \in Int /\ Forever \in 1..Forever
    BY SignedTypes, LightConstants
  <2> QED BY <1>2, <2>1, DriveStep DEF Move
<1>3. ASSUME NEW up \in BOOLEAN, NEW s \in Steps, NEW t \in Times, Step(up, s, t, with, ble)
      PROVE  LightIInv'
  <2> DEFINE k == (s * Unit) \div Ticks(t)
  <2>1. Ticks(t) \in 1..(Forever - 1) /\ s * Unit \in Int
    <3>1. t \in 0..Forever /\ s \in Int
      BY LightConstants
    <3> QED BY <3>1, TickTypes, Fractions
  <2>2. Ticks(t) \in 1..Forever /\ k \in Int
    <3>1. Ticks(t) \in Nat \ {0} /\ Ticks(t) \in 1..Forever
      BY <2>1, LightConstants
    <3> DEFINE a == s * Unit
               b == Ticks(t)
    <3> HIDE DEF a, b
    <3>2. a \div b \in Int
      BY <2>1, <3>1 DEF a, b
    <3> QED BY <3>1, <3>2 DEF a, b
  <2>3. Drive(Moving(level, Signed(k, up), Ticks(t), with), up, ble)
    BY <1>3 DEF Step
  <2> HIDE DEF k
  <2>4. Signed(k, up) \in Int
    BY <2>2, SignedTypes
  <2> QED BY <2>2, <2>3, <2>4, DriveStep
<1>4. ASSUME Stop(ble)
      PROVE  LightIInv'
  <2> DEFINE a == asked.astray \/ (ble /\ scene.valid)
  <2>1. /\ LightTypeOK /\ onoff \in OnRec /\ level \in LevelRec /\ asked \in AskRec
        /\ scene \in SceneRec /\ store \in StoreRec
    BY Parts DEF LightIInv
  <2>2. left' \in [Kind -> Nat]
    BY <1>4, <2>1, ComesTypes DEF Stop, Kind
  <2>3. /\ level' = [level EXCEPT !.rem = 0, !.timer = FALSE]
        /\ scene' = IF ble THEN scene ELSE Invalid(scene)
        /\ asked' = [asked EXCEPT !.goal = None, !.with = FALSE, !.astray = a]
        /\ UNCHANGED <<onoff, store>>
    BY <1>4 DEF Stop
  <2>4. 0 \in 0..Forever /\ None \in 0..(Max + 1) /\ ~(0 > 0)
    BY LightConstants DEF None
  <2>5. a \in BOOLEAN /\ (ble /\ scene.valid => a) /\ asked.endless \in BOOLEAN
    BY <2>1 DEF AskRec, SceneRec
  <2> HIDE DEF a
  <2>6. /\ level' \in LevelRec /\ level'.rem = 0 /\ level'.timer = FALSE
        /\ level'.lvl = level.lvl
    BY <2>1, <2>3, <2>4 DEF LevelRec
  <2>7. /\ asked' \in AskRec /\ asked'.goal = None /\ asked'.with = FALSE /\ asked'.astray = a
        /\ asked'.endless = asked.endless /\ asked'.lost = asked.lost
    BY <2>1, <2>3, <2>4, <2>5 DEF AskRec
  <2>8. scene' \in SceneRec /\ (scene'.valid => asked'.astray)
    BY <2>1, <2>3, <2>5, <2>7, MarkTypes
  <2>9. LightTypeOK'
    <3>1. level'.timer = (level'.rem > 0)
      BY <2>6, NoTime
    <3>2. onoff' \in OnRec /\ store' \in StoreRec
      BY <2>1, <2>3
    <3> QED BY <2>2, <2>6, <2>7, <2>8, <3>1, <3>2, Parts
  <2>10. Heading' /\ Moves' /\ Coupling' /\ Timed' /\ InScene' /\ SavedTruth'
    BY <2>3, <2>6, <2>7, <2>8
    DEF LightIInv, Heading, Moves, Coupling, Timed, InScene, SavedTruth
  <2> QED BY <2>9, <2>10 DEF LightIInv
<1> QED BY <1>1, <1>2, <1>3, <1>4, MoveToLevelStep

\* A tick of the level's timer: the light is switched only off, at the lowest level.
LEMMA LevelTickStep ==
  ASSUME LightIInv, LevelTick
  PROVE  LightIInv'
<1> DEFINE l == Ended(Applied(Compensated(level)))
           y == Begun(l)
           off == l.with /\ l.lvl <= Min
           d == asked.dipped \/ (off /\ asked.up)
<1>1. /\ LightTypeOK /\ onoff \in OnRec /\ level \in LevelRec /\ asked \in AskRec
      /\ scene \in SceneRec /\ level.timer = (level.rem > 0) /\ level.timer
  BY Parts DEF LightIInv, LevelTick
<1>2. level.c \in LevelRange /\ level.rem >= 1
  <2>1. level.c >= Min * Unit
    BY <1>1 DEF LightIInv, Moves
  <2>2. level.c \in Fine /\ level.rem \in 0..Forever /\ Forever \in Nat /\ level.rem > 0
    BY <1>1, LightConstants DEF LevelRec
  <2>3. level.c \in LevelRange
    <3> DEFINE p == Min * Unit
               q == (Max + 1) * Unit
    <3>1. p \in Int /\ q \in Int
      BY LightConstants, Fractions
    <3> HIDE DEF p, q
    <3>2. level.c \in p..q
      BY <2>1, <2>2, <3>1 DEF Fine, p, q
    <3> QED BY <3>2 DEF LevelRange, p, q
  <2> QED BY <2>2, <2>3
<1>3. /\ l \in LevelRec /\ l.with = level.with /\ l.lvl = y.lvl
      /\ y \in LevelRec /\ y.timer = (y.rem > 0) /\ y.c \in LevelRange /\ y.with = level.with
      /\ \A n \in 0..(Max + 1) :
           OnTheWay(n, level) => OnTheWay(n, y) /\ (y.rem > 0 => EndOf(n, y.step) = EndOf(n, level.step))
                                                /\ (y.rem = 0 => y.lvl = EndOf(n, level.step))
  BY <1>1, <1>2, TickLevel
<1>4. /\ level' = y /\ onoff' = Coupled(onoff, l, FALSE)
      /\ scene' = IF off THEN Invalid(scene) ELSE scene
      /\ store' = Change(store)
      /\ asked' = [asked EXCEPT !.dipped = d]
      /\ UNCHANGED left
  BY DEF LevelTick
<1> HIDE DEF l, y
<1>5. /\ onoff' \in OnRec
      /\ l.with /\ l.lvl <= Min => ~onoff'.on
      /\ ~l.with \/ l.lvl > Min => onoff' = onoff
      /\ \A e \in BOOLEAN : TimesRun(onoff, e) => TimesRun(onoff', e)
  BY <1>1, <1>3, <1>4, CoupledTypes
<1>6. l.lvl > Min <=> ~(l.lvl <= Min)
  BY <1>3, LightConstants DEF LevelRec
<1>7. off \in BOOLEAN /\ d \in BOOLEAN /\ asked.endless \in BOOLEAN
  BY <1>1, <1>3 DEF AskRec, LevelRec
<1>8. (off => l.with /\ l.lvl <= Min) /\ (~off => ~l.with \/ l.lvl > Min) /\ (d <=> asked.dipped \/ (off /\ asked.up))
  BY <1>1, <1>3, <1>6 DEF AskRec, LevelRec
<1> HIDE DEF off, d
<1>9. /\ asked' \in AskRec /\ asked'.goal = asked.goal /\ asked'.slow = asked.slow
      /\ asked'.with = asked.with /\ asked'.up = asked.up /\ asked'.dipped = d
      /\ asked'.astray = asked.astray /\ asked'.endless = asked.endless
  BY <1>1, <1>4, <1>7 DEF AskRec
<1>10. store' \in StoreRec /\ store'.changed
  BY <1>1, <1>4, MarkTypes
<1>11. scene' \in SceneRec /\ (off => ~scene'.valid) /\ (~off => scene' = scene)
  BY <1>1, <1>4, MarkTypes
<1>12. LightTypeOK'
  BY <1>1, <1>3, <1>4, <1>5, <1>9, <1>10, <1>11, Parts
<1>13. Heading'
  <2> SUFFICES ASSUME asked'.goal # None, ~asked'.slow
               PROVE  IF level'.timer
                      THEN /\ level'.rem < Forever
                           /\ \E n \in 0..(Max + 1) :
                                /\ Toward(n, level'.c, level'.step, level'.comp, level'.rem)
                                /\ asked'.goal = EndOf(n, level'.step)
                      ELSE level'.lvl = asked'.goal
    BY DEF Heading
  <2>1. PICK n \in 0..(Max + 1) :
          /\ level.rem < Forever
          /\ Toward(n, level.c, level.step, level.comp, level.rem)
          /\ asked.goal = EndOf(n, level.step)
    BY <1>1, <1>9 DEF LightIInv, Heading
  <2>2. OnTheWay(n, level)
    BY <1>1, <2>1 DEF OnTheWay
  <2>3. /\ OnTheWay(n, y) /\ (y.rem > 0 => EndOf(n, y.step) = asked.goal)
        /\ (y.rem = 0 => y.lvl = asked.goal)
    BY <1>3, <2>1, <2>2
  <2>4. y.rem > 0 \/ (y.rem = 0 /\ ~(y.rem > 0))
    BY <1>3, LightConstants DEF LevelRec
  <2>5. CASE y.rem > 0
    <3>1. y.rem < Forever /\ Toward(n, y.c, y.step, y.comp, y.rem)
      BY <2>3, <2>5 DEF OnTheWay
    <3> QED BY <1>3, <1>4, <1>9, <2>3, <2>5, <3>1
  <2>6. CASE y.rem = 0 /\ ~(y.rem > 0)
    BY <1>3, <1>4, <1>9, <2>3, <2>6
  <2> QED BY <2>4, <2>5, <2>6
<1>14. Moves'
  <2>1. \A x \in LevelRange : x >= Min * Unit
    BY Ends DEF LevelRange
  <2> QED BY <1>3, <1>4, <2>1 DEF Moves
<1>15. Coupling'
  <2> SUFFICES ASSUME asked.with
               PROVE  /\ level'.with
                      /\ onoff'.on => level'.lvl > Min
                      /\ asked.up /\ ~asked.slow /\ ~d => onoff'.on
    BY <1>9 DEF Coupling
  <2>1. level.with /\ (asked.up /\ ~asked.slow /\ ~asked.dipped => onoff.on)
    BY DEF LightIInv, Coupling
  <2>2. l.with /\ level'.with /\ level'.lvl = l.lvl
    BY <1>3, <1>4, <2>1
  <2> QED BY <1>5, <1>6, <1>8, <2>1, <2>2
<1>16. Timed' /\ SavedTruth'
  BY <1>5, <1>7, <1>9, <1>10 DEF LightIInv, Timed, SavedTruth
<1>17. InScene'
  <2> SUFFICES ASSUME scene'.valid, ~asked'.astray
               PROVE  /\ scene'.has /\ scene'.on = onoff'.on
                      /\ \/ asked'.slow
                         \/ /\ level'.timer /\ asked'.goal # None
                            /\ asked'.goal \in {scene'.lvl, Within(scene'.lvl)}
                         \/ ~level'.timer /\ level'.lvl \in {scene'.lvl, Within(scene'.lvl)}
    BY DEF InScene
  <2>1. scene' = scene /\ onoff' = onoff
    BY <1>5, <1>8, <1>11
  <2>2. /\ scene.has /\ scene.on = onoff.on
        /\ \/ asked.slow
           \/ asked.goal # None /\ asked.goal \in {scene.lvl, Within(scene.lvl)}
    BY <1>1, <1>9, <2>1 DEF LightIInv, InScene
  <2>3. asked.goal # None /\ ~asked.slow => level'.timer \/ level'.lvl = asked.goal
    BY <1>9, <1>13 DEF Heading
  <2>4. level'.timer \in BOOLEAN
    BY <1>3, <1>4 DEF LevelRec
  <2> QED BY <1>9, <2>1, <2>2, <2>3, <2>4
<1> QED BY <1>12, <1>13, <1>14, <1>15, <1>16, <1>17 DEF LightIInv

\* A scene is stored: it is the light's, unless the level is moving.
LEMMA StoreSceneStep ==
  ASSUME LightIInv, StoreScene
  PROVE  LightIInv'
<1>1. /\ LightTypeOK /\ onoff \in OnRec /\ level \in LevelRec /\ asked \in AskRec /\ store \in StoreRec
      /\ level.timer = (level.rem > 0)
  BY Parts DEF LightIInv
<1>2. left' \in [Kind -> Nat]
  BY <1>1, ComesTypes DEF StoreScene, Kind
<1>3. /\ scene' = [valid |-> TRUE, has |-> TRUE, on |-> onoff.on, lvl |-> level.lvl]
      /\ asked' = [asked EXCEPT !.astray = level.timer]
      /\ UNCHANGED <<onoff, level, store>>
  BY DEF StoreScene
<1>4. onoff.on \in BOOLEAN /\ level.lvl \in 0..(Max + 1) /\ level.timer \in BOOLEAN
  <2>1. level.lvl \in Min..(Max + 1) /\ Min \in Nat
    BY <1>1, LightConstants DEF LevelRec
  <2> QED BY <1>1, <2>1 DEF OnRec, LevelRec
<1>5. /\ scene' \in SceneRec /\ scene'.has /\ scene'.on = onoff.on /\ scene'.lvl = level.lvl
  BY <1>3, <1>4 DEF SceneRec
<1>6. /\ asked' \in AskRec /\ asked'.astray = level.timer
      /\ asked'.goal = asked.goal /\ asked'.slow = asked.slow /\ asked'.with = asked.with
      /\ asked'.up = asked.up /\ asked'.dipped = asked.dipped
      /\ asked'.endless = asked.endless /\ asked'.lost = asked.lost
  BY <1>1, <1>3, <1>4 DEF AskRec
<1>7. LightTypeOK'
  BY <1>1, <1>2, <1>3, <1>5, <1>6, Parts
<1>8. Heading' /\ Moves'
  BY <1>3, <1>6, LevelStays
<1>9. Coupling' /\ Timed' /\ SavedTruth'
  BY <1>3, <1>6 DEF LightIInv, Coupling, Timed, SavedTruth
<1>10. InScene'
  BY <1>3, <1>5, <1>6 DEF InScene
<1> QED BY <1>7, <1>8, <1>9, <1>10 DEF LightIInv

\* A scene is recalled: the light is switched, and a transition begins.
LEMMA RecallSceneStep ==
  ASSUME LightIInv, NEW on \in BOOLEAN, NEW n \in Targets, NEW t \in Times, RecallScene(on, n, t)
  PROVE  LightIInv'
<1> DEFINE x == MoveTo(level, n, t, FALSE)
           y == Begun(x)
           slow == AskLevel(n, t, FALSE).slow
           up == n > level.lvl
           g == GoalOf(n)
<1>1. /\ LightTypeOK /\ onoff \in OnRec /\ asked \in AskRec
      /\ n \in 0..(Max + 1) /\ t \in 0..Forever
  BY Parts, LightConstants DEF LightIInv
<1>2. left' \in [Kind -> Nat]
  BY <1>1, ComesTypes DEF RecallScene, Kind
<1>3. /\ y \in LevelRec /\ y.timer = (y.rem > 0) /\ y.c \in LevelRange
      /\ slow \in BOOLEAN
      /\ ~slow => OnTheWay(n, y) /\ g = EndOf(n, y.step)
  BY <1>1, Transition
<1>4. g \in Min..(Max + 1) /\ g \in {n, Within(n)}
  BY <1>1, GoalTypes
<1>5. g \in 0..(Max + 1) /\ g # None
  BY <1>4, LightConstants DEF None
<1>6. /\ onoff' = Switched(onoff, on) /\ level' = y /\ store' = Change(store)
      /\ scene' = [valid |-> TRUE, has |-> TRUE, on |-> on, lvl |-> n]
      /\ asked' = [asked EXCEPT !.goal = g, !.slow = slow, !.with = FALSE, !.up = up,
                                !.dipped = FALSE, !.astray = FALSE]
  BY DEF RecallScene
<1>7. up \in BOOLEAN
  OBVIOUS
<1> HIDE DEF x, y, slow, up, g
<1>8. /\ asked' \in AskRec /\ asked'.goal = g /\ asked'.slow = slow /\ asked'.with = FALSE
      /\ asked'.endless = asked.endless /\ asked.endless \in BOOLEAN
  BY <1>1, <1>3, <1>5, <1>6, <1>7 DEF AskRec
<1>9. scene' \in SceneRec /\ scene'.has /\ scene'.on = on /\ scene'.lvl = n
  BY <1>1, <1>6 DEF SceneRec
<1>10. store' \in StoreRec /\ store'.changed
  BY <1>1, <1>6, MarkTypes
<1>11. /\ onoff' \in OnRec /\ onoff'.on = on
       /\ \A e \in BOOLEAN : TimesRun(onoff, e) => TimesRun(onoff', e)
  BY <1>1, <1>6, SwitchedTypes
<1>12. LightTypeOK'
  BY <1>2, <1>3, <1>6, <1>8, <1>9, <1>10, <1>11, Parts
<1>13. Heading'
  <2> SUFFICES ASSUME ~slow
               PROVE  IF level'.timer
                      THEN /\ level'.rem < Forever
                           /\ \E k \in 0..(Max + 1) :
                                /\ Toward(k, level'.c, level'.step, level'.comp, level'.rem)
                                /\ asked'.goal = EndOf(k, level'.step)
                      ELSE level'.lvl = asked'.goal
    BY <1>8 DEF Heading
  <2>1. OnTheWay(n, y) /\ g = EndOf(n, y.step)
    BY <1>3
  <2>2. CASE y.rem > 0
    <3>1. y.rem < Forever /\ Toward(n, y.c, y.step, y.comp, y.rem)
      BY <2>1, <2>2 DEF OnTheWay
    <3> QED BY <1>1, <1>3, <1>6, <1>8, <2>1, <2>2, <3>1
  <2>3. CASE ~(y.rem > 0)
    <3>1. y.lvl = EndOf(n, y.step)
      BY <2>1, <2>3 DEF OnTheWay
    <3> QED BY <1>3, <1>6, <1>8, <2>1, <2>3, <3>1
  <2> QED BY <2>2, <2>3
<1>14. Moves'
  <2>1. \A c \in LevelRange : c >= Min * Unit
    BY Ends DEF LevelRange
  <2> QED BY <1>3, <1>6, <2>1 DEF Moves
<1>15. Coupling' /\ Timed' /\ SavedTruth'
  BY <1>8, <1>10, <1>11 DEF LightIInv, Coupling, Timed, SavedTruth
<1>16. InScene'
  <2>1. ~slow /\ ~level'.timer => level'.lvl = g
    BY <1>5, <1>8, <1>13 DEF Heading
  <2>2. level'.timer \in BOOLEAN
    BY <1>3, <1>6 DEF LevelRec
  <2> QED BY <1>3, <1>4, <1>5, <1>8, <1>9, <1>11, <2>1, <2>2 DEF InScene
<1> QED BY <1>12, <1>13, <1>14, <1>15, <1>16 DEF LightIInv

\* The current scene is changed: the light need not be as it is.
LEMMA ChangeSceneStep ==
  ASSUME LightIInv, NEW has \in BOOLEAN, NEW on \in BOOLEAN, NEW n \in Targets,
         ChangeScene(has, on, n)
  PROVE  LightIInv'
<1>1. /\ LightTypeOK /\ asked \in AskRec /\ scene \in SceneRec /\ n \in 0..(Max + 1)
      /\ onoff \in OnRec /\ level \in LevelRec /\ store \in StoreRec /\ level.timer = (level.rem > 0)
  BY Parts, LightConstants DEF LightIInv
<1>2. left' \in [Kind -> Nat]
  BY <1>1, ComesTypes DEF ChangeScene, Kind
<1>3. /\ scene' = [scene EXCEPT !.has = has, !.on = on, !.lvl = n]
      /\ asked' = [asked EXCEPT !.astray = TRUE]
      /\ UNCHANGED <<onoff, level, store>>
  BY DEF ChangeScene
<1>4. scene' \in SceneRec
  BY <1>1, <1>3 DEF SceneRec
<1>5. /\ asked' \in AskRec /\ asked'.astray
      /\ asked'.goal = asked.goal /\ asked'.slow = asked.slow /\ asked'.with = asked.with
      /\ asked'.up = asked.up /\ asked'.dipped = asked.dipped
      /\ asked'.endless = asked.endless /\ asked'.lost = asked.lost
  BY <1>1, <1>3 DEF AskRec
<1>6. LightTypeOK'
  BY <1>1, <1>2, <1>3, <1>4, <1>5, Parts
<1>7. Heading' /\ Moves'
  BY <1>3, <1>5, LevelStays
<1>8. Coupling' /\ Timed' /\ InScene' /\ SavedTruth'
  BY <1>3, <1>5 DEF LightIInv, Coupling, Timed, InScene, SavedTruth
<1> QED BY <1>6, <1>7, <1>8 DEF LightIInv

\* The changes are seen: they are to be saved, or lost outside any network.
LEMMA AttrsChkStep ==
  ASSUME LightIInv, AttrsChk
  PROVE  LightIInv'
<1> DEFINE k == store.timer \/ store.joined
           b == asked.lost \/ ~store.joined
<1>1. /\ LightTypeOK /\ asked \in AskRec /\ scene \in SceneRec /\ onoff \in OnRec
      /\ level \in LevelRec /\ store \in StoreRec /\ level.timer = (level.rem > 0)
      /\ left \in [Kind -> Nat]
  BY Parts DEF LightIInv
<1>2. /\ store' = [store EXCEPT !.changed = FALSE, !.timer = k]
      /\ asked' = [asked EXCEPT !.lost = b]
      /\ UNCHANGED <<onoff, level, scene, left>>
  BY DEF AttrsChk
<1>3. k \in BOOLEAN /\ b \in BOOLEAN /\ (k \/ b)
  BY <1>1 DEF StoreRec, AskRec
<1> HIDE DEF k, b
<1>4. store' \in StoreRec /\ store'.timer = k
  BY <1>1, <1>2, <1>3 DEF StoreRec
<1>5. /\ asked' \in AskRec /\ asked'.lost = b
      /\ asked'.goal = asked.goal /\ asked'.slow = asked.slow /\ asked'.with = asked.with
      /\ asked'.up = asked.up /\ asked'.dipped = asked.dipped
      /\ asked'.endless = asked.endless /\ asked'.astray = asked.astray
  BY <1>1, <1>2, <1>3 DEF AskRec
<1>6. LightTypeOK'
  BY <1>1, <1>2, <1>4, <1>5, Parts
<1>7. Heading' /\ Moves'
  BY <1>2, <1>5, LevelStays
<1>8. Coupling' /\ Timed' /\ InScene'
  BY <1>2, <1>5 DEF LightIInv, Coupling, Timed, InScene
<1>9. SavedTruth'
  BY <1>3, <1>4, <1>5 DEF SavedTruth
<1> QED BY <1>6, <1>7, <1>8, <1>9 DEF LightIInv

\* The light's state is saved.
LEMMA SaveStep ==
  ASSUME LightIInv, Save
  PROVE  LightIInv'
<1>1. /\ LightTypeOK /\ asked \in AskRec /\ scene \in SceneRec /\ onoff \in OnRec
      /\ level \in LevelRec /\ store \in StoreRec /\ level.timer = (level.rem > 0)
      /\ left \in [Kind -> Nat]
  BY Parts DEF LightIInv
<1>2. /\ store' = [store EXCEPT !.on = onoff.on, !.lvl = level.lvl, !.timer = FALSE]
      /\ asked' = [asked EXCEPT !.lost = FALSE]
      /\ UNCHANGED <<onoff, level, scene, left>>
  BY DEF Save
<1>3. onoff.on \in BOOLEAN /\ level.lvl \in Min..(Max + 1)
  BY <1>1 DEF OnRec, LevelRec
<1>4. store' \in StoreRec /\ store'.on = onoff.on /\ store'.lvl = level.lvl
  BY <1>1, <1>2, <1>3 DEF StoreRec
<1>5. /\ asked' \in AskRec
      /\ asked'.goal = asked.goal /\ asked'.slow = asked.slow /\ asked'.with = asked.with
      /\ asked'.up = asked.up /\ asked'.dipped = asked.dipped
      /\ asked'.endless = asked.endless /\ asked'.astray = asked.astray
  BY <1>1, <1>2 DEF AskRec
<1>6. LightTypeOK'
  BY <1>1, <1>2, <1>4, <1>5, Parts
<1>7. Heading' /\ Moves'
  BY <1>2, <1>5, LevelStays
<1>8. Coupling' /\ Timed' /\ InScene'
  BY <1>2, <1>5 DEF LightIInv, Coupling, Timed, InScene
<1>9. SavedTruth'
  BY <1>2, <1>4 DEF SavedTruth
<1> QED BY <1>6, <1>7, <1>8, <1>9 DEF LightIInv

\* The light joins a network or leaves it.
LEMMA JoinOrLeaveStep ==
  ASSUME LightIInv, JoinOrLeave
  PROVE  LightIInv'
<1>1. /\ LightTypeOK /\ asked \in AskRec /\ scene \in SceneRec /\ onoff \in OnRec
      /\ level \in LevelRec /\ store \in StoreRec /\ level.timer = (level.rem > 0)
  BY Parts DEF LightIInv
<1>2. left' \in [Kind -> Nat]
  BY <1>1, ComesTypes DEF JoinOrLeave, Kind
<1>3. store' = [store EXCEPT !.joined = ~store.joined] /\ UNCHANGED <<onoff, level, scene, asked>>
  BY DEF JoinOrLeave
<1>4. /\ store' \in StoreRec /\ store'.on = store.on /\ store'.lvl = store.lvl
      /\ store'.changed = store.changed /\ store'.timer = store.timer
  BY <1>1, <1>3 DEF StoreRec
<1>5. LightTypeOK'
  BY <1>1, <1>2, <1>3, <1>4, Parts
<1>6. Heading' /\ Moves'
  BY <1>3, LevelStays
<1>7. Coupling' /\ Timed' /\ InScene' /\ SavedTruth'
  BY <1>3, <1>4 DEF LightIInv, Coupling, Timed, InScene, SavedTruth
<1> QED BY <1>5, <1>6, <1>7 DEF LightIInv

\* A light that has just started: nothing was asked of it, and it is not saved yet.
LEMMA Fresh ==
  ASSUME left' \in [Kind -> Nat], NEW on \in BOOLEAN, NEW n \in Min..(Max + 1),
         store' \in StoreRec, store'.changed, onoff' = FreshOnOff(on), level' = FreshLevel(n),
         scene' = NoScene, asked' = NoAsk
  PROVE  LightIInv'
<1>1. /\ 0 \in 0..Forever /\ 0 \in Fine /\ 0 \in 0..(Max + 1) /\ Min \in 0..(Max + 1) /\ 0 # Forever
      /\ ~(0 > 0) /\ 0 \in Nat /\ 0 \in Int
  <2>1. (Max + 1) * Unit \in Int /\ 0 <= (Max + 1) * Unit
    <3>1. Max + 1 \in Nat /\ Unit \in Nat
      BY LightConstants
    <3> DEFINE m == Max + 1
    <3> HIDE DEF m
    <3>2. m * Unit \in Nat
      BY <3>1 DEF m
    <3> QED BY <3>2 DEF m
  <2> DEFINE q == (Max + 1) * Unit
  <2> HIDE DEF q
  <2>2. 0 \in 0..q
    BY <2>1 DEF q
  <2> QED BY <2>2, LightConstants DEF Fine, q
<1>2. onoff' \in OnRec /\ onoff'.time = 0 /\ onoff'.wait = 0
  BY <1>1 DEF FreshOnOff, OnRec
<1>3. level' \in LevelRec /\ level'.timer = FALSE /\ level'.rem = 0
  BY <1>1 DEF FreshLevel, LevelRec
<1>4. scene' \in SceneRec /\ scene'.valid = FALSE
  BY <1>1 DEF NoScene, SceneRec
<1>5. asked' \in AskRec /\ asked'.goal = None /\ asked'.with = FALSE
  BY <1>1 DEF NoAsk, AskRec, None
<1>6. level'.timer = (level'.rem > 0)
  BY <1>3, NoTime
<1>7. LightTypeOK'
  BY <1>2, <1>3, <1>4, <1>5, <1>6, Parts
<1>8. Timed'
  BY <1>1, <1>2 DEF Timed, TimesRun
<1>9. Heading' /\ Moves' /\ Coupling' /\ InScene' /\ SavedTruth'
  BY <1>3, <1>4, <1>5 DEF Heading, Moves, Coupling, InScene, SavedTruth
<1> QED BY <1>7, <1>8, <1>9 DEF LightIInv

\* A restart.
LEMMA RestartStep ==
  ASSUME LightIInv, LightRestart
  PROVE  LightIInv'
<1> DEFINE on == StartsOn(store.start, store.on)
<1>1. LightTypeOK /\ store \in StoreRec
  BY Parts DEF LightIInv
<1>2. left' \in [Kind -> Nat]
  BY <1>1, ComesTypes DEF LightRestart, Kind
<1>3. on \in BOOLEAN /\ store.lvl \in Min..(Max + 1)
  BY <1>1 DEF StartsOn, StoreRec
<1>4. /\ onoff' = FreshOnOff(on) /\ level' = FreshLevel(store.lvl) /\ scene' = NoScene
      /\ store' = [Change(store) EXCEPT !.timer = FALSE] /\ asked' = NoAsk
  BY DEF LightRestart
<1> HIDE DEF on
<1>5. Change(store) \in StoreRec /\ Change(store).changed
  BY <1>1, MarkTypes
<1>6. store' \in StoreRec /\ store'.changed
  BY <1>4, <1>5 DEF StoreRec
<1> QED BY <1>2, <1>3, <1>4, <1>6, Fresh

\* The light as it leaves the factory.
LEMMA LightStarts ==
  ASSUME LightInit
  PROVE  LightIInv
<1> DEFINE on == StartsOn(store.start, FALSE)
<1>1. /\ 0 \in 0..Forever /\ 0 \in Fine /\ 0 \in 0..(Max + 1) /\ Min \in 0..(Max + 1) /\ 0 # Forever
      /\ ~(0 > 0) /\ 0 \in Nat /\ 0 \in Int /\ Max \in Min..(Max + 1)
  <2>1. (Max + 1) * Unit \in Int /\ 0 <= (Max + 1) * Unit
    <3>1. Max + 1 \in Nat /\ Unit \in Nat
      BY LightConstants
    <3> DEFINE m == Max + 1
    <3> HIDE DEF m
    <3>2. m * Unit \in Nat
      BY <3>1 DEF m
    <3> QED BY <3>2 DEF m
  <2> DEFINE q == (Max + 1) * Unit
  <2> HIDE DEF q
  <2>2. 0 \in 0..q
    BY <2>1 DEF q
  <2> QED BY <2>2, LightConstants DEF Fine, q
<1>2. /\ onoff = FreshOnOff(on) /\ level = FreshLevel(Max) /\ scene = NoScene /\ asked = NoAsk
      /\ left \in Worlds
      /\ store \in [on : {FALSE}, lvl : {Max}, changed : {TRUE}, timer : {FALSE},
                    joined : BOOLEAN, start : StartUp]
  BY DEF LightInit
<1>3. on \in BOOLEAN
  BY <1>2 DEF StartsOn
<1> HIDE DEF on
<1>4. onoff \in OnRec /\ onoff.time = 0 /\ onoff.wait = 0
  BY <1>1, <1>2, <1>3 DEF FreshOnOff, OnRec
<1>5. level \in LevelRec /\ level.timer = FALSE /\ level.rem = 0
  BY <1>1, <1>2 DEF FreshLevel, LevelRec
<1>6. scene \in SceneRec /\ scene.valid = FALSE
  BY <1>1, <1>2 DEF NoScene, SceneRec
<1>7. asked \in AskRec /\ asked.goal = None /\ asked.with = FALSE
  BY <1>1, <1>2 DEF NoAsk, AskRec, None
<1>8. store \in StoreRec /\ store.changed
  BY <1>1, <1>2 DEF StoreRec
<1>9. left \in [Kind -> Nat]
  BY <1>2, LightAssumption
<1>10. level.timer = (level.rem > 0)
  BY <1>5, NoTime
<1>11. LightTypeOK
  BY <1>4, <1>5, <1>6, <1>7, <1>8, <1>9, <1>10, Parts
<1>12. Timed
  BY <1>1, <1>4 DEF Timed, TimesRun
<1>13. Heading /\ Moves /\ Coupling /\ InScene /\ SavedTruth
  BY <1>5, <1>6, <1>7, <1>8 DEF Heading, Moves, Coupling, InScene, SavedTruth
<1> QED BY <1>11, <1>12, <1>13 DEF LightIInv

\* Every step.
LEMMA LightSteps ==
  ASSUME LightIInv, [LightNext]_lightVars
  PROVE  LightIInv'
<1>1. CASE OnOffCommand
  BY <1>1, SwitchStep, OnWithTimedOffStep DEF OnOffCommand
<1>2. CASE LevelCommand
  BY <1>2, LevelCommandStep
<1>3. CASE SceneCommand
  BY <1>3, StoreSceneStep, RecallSceneStep, ChangeSceneStep DEF SceneCommand
<1>4. CASE JoinOrLeave
  BY <1>4, JoinOrLeaveStep
<1>5. CASE LightRestart
  BY <1>5, RestartStep
<1>6. CASE TimedOffTick
  BY <1>6, TimedOffTickStep
<1>7. CASE LevelTick
  BY <1>7, LevelTickStep
<1>8. CASE AttrsChk
  BY <1>8, AttrsChkStep
<1>9. CASE Save
  BY <1>9, SaveStep
<1>10. CASE UNCHANGED lightVars
  BY <1>10 DEF lightVars, LightIInv, LightTypeOK, Heading, Moves, Coupling, Timed, InScene, SavedTruth
<1> QED BY <1>1, <1>2, <1>3, <1>4, <1>5, <1>6, <1>7, <1>8, <1>9, <1>10 DEF LightNext

\* The parts of the invariant hold of every light, with any levels, times and rates.
THEOREM LightInvariant == LightSpec => []LightIInv
BY LightStarts, LightSteps, PTL DEF LightSpec

\* What was asked is what became of it, in every state of the invariant.
LEMMA Told ==
  ASSUME LightIInv
  PROVE  AsTold
<1>1. /\ LightTypeOK /\ level \in LevelRec /\ asked \in AskRec /\ onoff \in OnRec
      /\ Forever \in Nat /\ 0 < Forever
  BY Parts, LightConstants DEF LightIInv
<1>2. LevelReached
  BY DEF LightIInv, Heading, LevelReached, LevelAsAsked
<1>3. PairedOnOff
  BY DEF LightIInv, Coupling, PairedOnOff
<1>4. TimedWillEnd
  <2>1. onoff.time \in 0..Forever /\ onoff.wait \in 0..Forever
    BY <1>1 DEF OnRec
  <2> QED BY <1>1, <2>1 DEF LightIInv, Timed, TimesRun, TimedWillEnd
<1> QED BY <1>1, <1>2, <1>3, <1>4 DEF AsTold

\* So is what is said of the light.
LEMMA Said ==
  ASSUME LightIInv
  PROVE  AsSaid
<1>1. LightTypeOK /\ level \in LevelRec /\ asked \in AskRec /\ scene \in SceneRec
  BY Parts DEF LightIInv
<1>2. SceneTruth
  BY <1>1 DEF LightIInv, InScene, SceneTruth
<1> QED BY <1>2 DEF LightIInv, AsSaid

\* The light does what it was told: a transition over any other ends at its level
\* with its remainder made up for, for every number of fractions and ticks, a
\* command with on/off leaves the light on above the lowest level and off at it,
\* and a time on or off has a timer that ends it.
THEOREM LightAsTold == LightSpec => []AsTold
BY LightInvariant, Told, PTL

\* SceneValid is only said of a light that is as its current scene, and what is in
\* flash, with nothing left to save, is the light's state.
THEOREM LightAsSaid == LightSpec => []AsSaid
BY LightInvariant, Said, PTL
==============================================================================
