----------------------------- MODULE GroupScene ------------------------------
(***************************************************************************)
(* The group table (stack/zigbee/aps/aps_group.c) and the scene table      *)
(* (stack/zigbee/zcl/general/zcl_scene.c), as the clients of the groups    *)
(* and scenes clusters change them, and their copies in flash.             *)
(*                                                                         *)
(* A change of the scene table is saved at once, one of the group table by *)
(* a task that runs later (aps_groupTblSave2Flash); power may be lost in   *)
(* between.  A save replaces what is stored as a whole or not at all       *)
(* (NvMap), and is assumed to succeed, so that a command that is cut by a  *)
(* power loss shows as one that was never received, or as a whole one      *)
(* whose task has not run.                                                 *)
(*                                                                         *)
(* A scene is told by its endpoint, group and identifier; what it holds is *)
(* in Light.  The order of the entries of the tables is left out, and so   *)
(* are the commands that only answer (view, get membership, recall).       *)
(***************************************************************************)
EXTENDS Integers, FiniteSets

CONSTANTS Ep,         \* endpoints
          Group,      \* group addresses
          Global,     \* group 0, for scenes without a group
          SceneId,
          GroupSlots, \* APS_GROUP_TABLE_SIZE
          EpSlots,    \* APS_EP_NUM_IN_GROUP_TBL
          SceneSlots  \* ZCL_SCENE_TABLE_NUM

\* what the constants are assumed to be
ASSUME GroupAssumption ==
  /\ IsFiniteSet(Ep) /\ IsFiniteSet(Group) /\ IsFiniteSet(SceneId) /\ Global \in Group
  /\ GroupSlots \in Nat /\ EpSlots \in Nat \ {0} /\ SceneSlots \in Nat

VARIABLES member,      \* aps_group_tbl: the endpoints of each group, {} if not in it
          scenes,      \* g_zcl_sceneTab
          savedMember, \* NV_ITEM_APS_GROUP_TABLE
          savedScenes, \* NV_ITEM_ZCL_SCENE_TABLE
          task,        \* aps_groupTblSave2Flash is posted
          forgot,      \* history: scenes a remove-all-groups has left in flash
          known        \* history: scenes that have lost their group, see Drop, Restart

ram == <<member, scenes>>
flash == <<savedMember, savedScenes>>
vars == <<ram, flash, task, forgot, known>>

Scene == [ep : Ep, group : Group, id : SceneId]

Init ==
  /\ member = [g \in Group |-> {}] /\ scenes = {}
  /\ savedMember = member /\ savedScenes = {}
  /\ task = FALSE /\ forgot = {} /\ known = {}

InUse(m) == {g \in Group : m[g] # {}}

Listed == InUse(member)

ScenesOf(e, groups) == {s \in scenes : s.ep = e /\ s.group \in groups}

\* The scenes of groups that their endpoint is not in.
Orphans(s, m) == {x \in s : x.group # Global /\ x.ep \notin m[x.group]}

-----------------------------------------------------------------------------
(* The group table.  A change posts the task that saves it.                 *)

GroupsChange(m) == member' = m /\ task' = TRUE /\ UNCHANGED savedMember

\* bug: an endpoint is added where no entry is free
BugAddGroup(e, g) ==
  /\ e \notin member[g]
  /\ GroupsChange([member EXCEPT ![g] = @ \cup {e}])
  /\ UNCHANGED <<scenes, savedScenes, forgot, known>>

\* zcl_addGroupPrc, and zcl_addGroupIfIdentifyPrc on a device that identifies
\* itself; a duplicate and a full table are answered
AddGroup(e, g) ==
  /\ e \notin member[g]
  /\ IF g \in Listed THEN Cardinality(member[g]) < EpSlots
                     ELSE Cardinality(Listed) < GroupSlots
  /\ GroupsChange([member EXCEPT ![g] = @ \cup {e}])
  /\ UNCHANGED <<scenes, savedScenes, forgot, known>>

\* zcl_scenesSave: what is in RAM now
ScenesChange(s) ==
  /\ scenes' = s /\ savedScenes' = s
  /\ forgot' = {} /\ known' = known \cap s

ScenesStay == UNCHANGED <<scenes, savedScenes, forgot, known>>

\* zcl_scene_removeAllSceneEntry saves only if it has found a scene
Discard(s) == IF s = {} THEN ScenesStay ELSE ScenesChange(scenes \ s)

\* bug: the scenes of the group stay
BugRemoveGroup(e, g) ==
  /\ e \in member[g] /\ GroupsChange([member EXCEPT ![g] = @ \ {e}])
  /\ ScenesStay

\* zcl_removeGroupPrc: the endpoint's scenes of the group go first, whether or
\* not it is in the group
RemoveGroup(e, g) ==
  /\ Discard(ScenesOf(e, {g}))
  /\ IF e \in member[g] THEN GroupsChange([member EXCEPT ![g] = @ \ {e}])
                        ELSE UNCHANGED <<member, savedMember, task>>

\* zcl_removeAllGroupPrc: the endpoint's scenes of every group of the table go,
\* but are not removed from flash (i >= groupCnt never holds); then the whole
\* table is reset, and the other endpoints leave their groups too, but keep
\* their scenes.
Drop(e) ==
  LET gone == ScenesOf(e, Listed) IN
  /\ scenes' = scenes \ gone
  /\ forgot' = forgot \cup gone
  /\ known' = {s \in scenes \ gone : s.group # Global /\ (s.ep # e \/ s \in known)}
  /\ UNCHANGED savedScenes

RemoveAllGroups(e) == GroupsChange([g \in Group |-> {}]) /\ Drop(e)

\* bug: the task saves nothing new
BugSaved == savedMember

Saved == member

\* the task
SaveGroups ==
  /\ task
  /\ savedMember' = Saved /\ task' = FALSE
  /\ UNCHANGED <<ram, savedScenes, forgot, known>>

-----------------------------------------------------------------------------
(* The scene table.                                                         *)

GroupsStay == UNCHANGED <<member, savedMember, task>>

MayHave(e, g) == g = Global \/ e \in member[g]

Fits(s) == Cardinality(s) <= SceneSlots

\* zcl_addScenePrc and zcl_storeScenePrc: a scene that is there is overwritten,
\* a full table is answered
PutScene(e, g, i) ==
  LET s == scenes \cup {[ep |-> e, group |-> g, id |-> i]} IN
  /\ MayHave(e, g) /\ Fits(s)
  /\ ScenesChange(s) /\ GroupsStay

\* zcl_removeScenePrc does not ask for the group
RemoveScene(e, g, i) ==
  /\ [ep |-> e, group |-> g, id |-> i] \in scenes
  /\ ScenesChange(scenes \ {[ep |-> e, group |-> g, id |-> i]}) /\ GroupsStay

RemoveAllScenes(e, g) ==
  /\ MayHave(e, g) /\ ScenesOf(e, {g}) # {}
  /\ ScenesChange(scenes \ ScenesOf(e, {g})) /\ GroupsStay

\* bug: the group that is copied to is not looked at
BugMayCopy(e, from, to) == e \in member[from]

\* zcl_copyScenePrc; scenes without a group are copied only by an endpoint that
\* is in group 0
MayCopy(e, from, to) == e \in member[from] /\ e \in member[to]

\* zcl_scene_copySceneEntry, of the scenes with identifiers ids, each to as[i].
\* Room is asked for under the identifiers that are copied from, also where a
\* single scene gets another one.
Copy(e, from, to, ids, as) ==
  LET new(i) == [ep |-> e, group |-> to, id |-> i]
      missing == {i \in ids : new(i) \notin scenes}
      s == scenes \cup {new(as[i]) : i \in ids}
  IN /\ Cardinality(missing) <= SceneSlots - Cardinality(scenes) /\ Fits(s)
     /\ ScenesChange(s)

CopyOne(e, from, to, i, j) ==
  /\ MayCopy(e, from, to)
  /\ [ep |-> e, group |-> from, id |-> i] \in scenes
  /\ Copy(e, from, to, {i}, [k \in {i} |-> j])
  /\ GroupsStay

CopyAll(e, from, to) ==
  LET ids == {s.id : s \in ScenesOf(e, {from})} IN
  /\ MayCopy(e, from, to)
  /\ ids # {} /\ Copy(e, from, to, ids, [i \in ids |-> i])
  /\ GroupsStay

-----------------------------------------------------------------------------
(* Power is lost, or the device is reset: aps_groupTblNvInit,               *)
(* zcl_scenesRestore.                                                       *)

\* Scenes that were forgotten are back without a group, and, if the group table
\* had not been saved, those whose endpoint had joined just before.
Restart ==
  /\ member' = savedMember /\ scenes' = savedScenes
  /\ task' = FALSE /\ forgot' = {}
  /\ known' = (known \cup forgot \cup
                 (IF task THEN Orphans(savedScenes, savedMember) ELSE {})) \cap savedScenes
  /\ UNCHANGED flash

Next ==
  \/ \E e \in Ep, g \in Group :
       \/ AddGroup(e, g) \/ RemoveGroup(e, g) \/ RemoveAllScenes(e, g)
       \/ \E i \in SceneId : PutScene(e, g, i) \/ RemoveScene(e, g, i)
       \/ \E to \in Group : CopyAll(e, g, to) \/ \E i, j \in SceneId : CopyOne(e, g, to, i, j)
  \/ \E e \in Ep : RemoveAllGroups(e)
  \/ SaveGroups \/ Restart

Spec == Init /\ [][Next]_vars
-----------------------------------------------------------------------------
(* Correctness *)

GroupsFit(m) ==
  Cardinality(InUse(m)) <= GroupSlots /\ \A g \in Group : Cardinality(m[g]) <= EpSlots

\* The tables hold entries of the right form and no more than fit in them.
TypeOK ==
  /\ member \in [Group -> SUBSET Ep] /\ savedMember \in [Group -> SUBSET Ep]
  /\ scenes \subseteq Scene /\ savedScenes \subseteq Scene /\ task \in BOOLEAN
  /\ forgot \subseteq Scene /\ known \subseteq Scene
  /\ Fits(scenes) /\ Fits(savedScenes) /\ GroupsFit(member) /\ GroupsFit(savedMember)

\* An endpoint has scenes only of groups it is in, whatever commands and power
\* losses the two tables went through, but for the ways the code is known to
\* leave scenes behind: another endpoint removed all groups, the endpoint's own
\* removal was not written to flash, or power was lost with the group table
\* still to be saved.
NoOrphans == Orphans(scenes, member) \subseteq known

\* A restart brings back what was in the tables: the groups once the task has
\* run, the scenes always, and with them those a remove-all-groups forgot.
Restored ==
  /\ ~task => savedMember = member
  /\ savedScenes = scenes \cup forgot
=============================================================================
