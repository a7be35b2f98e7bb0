-------------------------------- MODULE Light --------------------------------
(***************************************************************************)
(* The dimmable light: on/off with its timed off, level transitions, the   *)
(* scene it is in, and what of it is kept in flash                         *)
(* (apps/sampleLight_concurrent/zcl_onOffCb.c, zcl_levelCb.c,              *)
(* zcl_sceneCb.c, sampleLight.c).                                          *)
(*                                                                         *)
(* Commands come over Zigbee, through the parsers of the clusters, or over *)
(* BLE, from which the handlers are called without an address; they read   *)
(* through it whether the command is for them, so that it is carried out   *)
(* or not.  Two timers run, one tick at a time: that of the timed off and  *)
(* that of the level.                                                      *)
(*                                                                         *)
(* One scene is modelled, the one that was stored or recalled last, by its *)
(* on/off state, level and transition time.  Color, effects, the global    *)
(* scene and commands that write attributes are left out, and so is the    *)
(* rule by which a light that is off ignores level commands: an option of  *)
(* the command overrides it.                                               *)
(***************************************************************************)
EXTENDS Integers

CONSTANTS Unit,      \* fractions of a level that are counted: 256
          Min, Max,  \* the lowest and the highest level: 1 and 254
          Forever,   \* 0xFFFF, larger than any time that is asked for
          Targets,   \* levels of commands and scenes, also ones the light cannot have
          Times,     \* transition times of commands and scenes
          Steps,     \* step sizes
          Rates,     \* the changes per tick of the move commands, in fractions
          OnTimes,   \* times of the timed off
          StartUp,   \* values of the attribute startUpOnOff
          Worlds     \* how often each kind of happening comes at most

Kind == {"onoff", "level", "scene", "other"}

\* what the constants are assumed to be; a step up is rounded, by less than half a
\* level, which a level of one fraction has not
ASSUME LightAssumption ==
  /\ {Min, Max} \subseteq Nat \ {0} /\ Min < Max
  /\ {Unit, Forever} \subseteq Nat \ {0, 1}
  /\ Targets \subseteq 0..(Max + 1) /\ Times \subseteq 0..Forever /\ OnTimes \subseteq 0..Forever
  /\ Steps \subseteq Nat /\ Rates \subseteq Nat
  /\ StartUp \subseteq {"on", "off", "previous", "toggle"} /\ Worlds \subseteq [Kind -> Nat]

VARIABLES onoff,  \* g_zcl_onOffAttrs, and whether its timer runs
          level,  \* g_zcl_levelAttrs and levelInfo, and whether the timer runs
          scene,  \* sceneValid, and what the current scene holds
          store,  \* what is in flash, and what there is to save
          left,   \* how often each kind of happening may still come
          asked   \* history: what the last level command was to reach, and whether ...

lightVars == <<onoff, level, scene, store, left, asked>>

\* no level was named
None == 0

\* what was asked of the light, and what became of it:
\*   goal    the level the last level command was to reach, if it named one
\*   slow    it was to rise by less than a fraction a tick
\*   with    it was one with on/off, and nothing else has switched the light since
\*   up      it was to rise
\*   dipped  while it rose, the level still rounded to the lowest
\*   endless the timed off was asked for with a time of Forever
\*   astray  the current scene, or the level with no word to it, has changed
\*   lost    a change was not saved, as the light was in no network
NoAsk == [goal |-> None, slow |-> FALSE, with |-> FALSE, up |-> FALSE, dipped |-> FALSE,
          endless |-> FALSE, astray |-> FALSE, lost |-> FALSE]

FreshLevel(n) ==
  [lvl |-> n, c |-> 0, step |-> 0, comp |-> 0, rem |-> 0, with |-> FALSE, timer |-> FALSE]

FreshOnOff(on) == [on |-> on, time |-> 0, wait |-> 0, timer |-> FALSE]

\* zcl_onOff_startUpOnOff: what the light starts as that was on or not
StartsOn(start, on) == start = "on" \/ (start = "previous" /\ on) \/ (start = "toggle" /\ ~on)

NoScene == [valid |-> FALSE, has |-> FALSE, on |-> FALSE, lvl |-> Min]

\* nothing was saved yet: the defaults of the attributes
LightInit ==
  /\ store \in [on : {FALSE}, lvl : {Max}, changed : {TRUE}, timer : {FALSE},
                joined : BOOLEAN, start : StartUp]
  /\ onoff = FreshOnOff(StartsOn(store.start, FALSE))
  /\ level = FreshLevel(Max)
  /\ scene = NoScene
  /\ left \in Worlds
  /\ asked = NoAsk

-----------------------------------------------------------------------------
(* What the commands are made of *)

\* light_refresh
Change(s) == [s EXCEPT !.changed = TRUE]

Smaller(a, b) == IF a < b THEN a ELSE b
Larger(a, b) == IF a < b THEN b ELSE a

\* sampleLight_onOffUpdate; it also clears sceneValid and calls light_refresh
Switched(o, on) ==
  [o EXCEPT !.on = on, !.time = IF on THEN @ ELSE 0,
            !.wait = IF on /\ o.time = 0 THEN 0 ELSE @]

\* light_applyUpdate: a step, not past the ends; rising levels are rounded to the
\* nearest, others down
Applied(l) ==
  LET sum == l.c + l.step
      c == IF l.step > 0 /\ sum \div Unit > Max THEN Max * Unit
           ELSE IF l.step < 0 /\ sum \div Unit < Min THEN Min * Unit ELSE sum
  IN [l EXCEPT !.c = c,
               !.lvl = IF l.step > 0 THEN (c + Unit \div 2 - 1) \div Unit ELSE c \div Unit,
               !.rem = IF @ = Forever THEN @ ELSE @ - 1]

Quotient(a, b) == IF a < 0 THEN -((-a) \div b) ELSE a \div b

Ticks(t) == IF t \in {0, Forever} THEN 1 ELSE t

\* the ends of the three commands, which stop the timer or start it anew
Begun(l) == [l EXCEPT !.timer = l.rem > 0]

\* bug: the remainder is dropped
BugMoveTo(l, n, t, with) ==
  LET diff == (n - l.lvl) * Unit IN
  Applied([l EXCEPT !.rem = Ticks(t), !.with = with, !.c = l.lvl * Unit,
                    !.step = Quotient(diff, Ticks(t)), !.comp = 0])

\* sampleLight_moveToLevelProcess, up to its calls of the on/off cluster
MoveTo(l, n, t, with) ==
  LET diff == (n - l.lvl) * Unit IN
  Applied([l EXCEPT !.rem = Ticks(t), !.with = with, !.c = l.lvl * Unit,
                    !.step = Quotient(diff, Ticks(t)),
                    !.comp = (IF diff > 0 THEN diff ELSE -diff) % Ticks(t)])

\* a change of the level by step a tick, for t ticks; the compensation is left
\* from the last command
Moving(l, step, t, with) ==
  Applied([l EXCEPT !.rem = t, !.with = with, !.c = l.lvl * Unit, !.step = step])

\* The light is switched by a level command.  Off at the lowest level; by the
\* commands that move and step up on at first, by the one to a level if it rises
\* and then not off.
Coupled(o, l, up) ==
  LET p == IF l.with /\ up THEN Switched(o, TRUE) ELSE o IN
  IF l.with /\ l.lvl <= Min THEN Switched(p, FALSE) ELSE p

CoupledTo(o, l) == IF l.with /\ l.step > 0 THEN Switched(o, TRUE) ELSE Coupled(o, l, FALSE)

\* bug: the scene stays the current one
BugInvalid(s) == s

\* sceneValid is cleared
Invalid(s) == [s EXCEPT !.valid = FALSE]

Comes(kind) == left[kind] > 0 /\ left' = [left EXCEPT ![kind] = @ - 1]

-----------------------------------------------------------------------------
(* On/off: zcl_onOff_clientCmdHandler, zb_ble_hci_cmd_handler *)

\* on, off, toggle, off with effect
Switch(on) ==
  /\ Comes("onoff")
  /\ onoff' = Switched(onoff, on)
  /\ scene' = Invalid(scene) /\ store' = Change(store)
  /\ asked' = [asked EXCEPT !.with = FALSE]
  /\ UNCHANGED level

\* sampleLight_onoff_onWithTimedOffProcess: while it waits a light that was
\* switched off stays off
TimedOffUpdate(o, t, w) ==
  IF o.wait > 0 /\ ~o.on THEN [o EXCEPT !.wait = Smaller(@, w)]
  ELSE Switched([o EXCEPT !.time = Larger(@, t), !.wait = w], TRUE)

\* the timer is started only for times that are not Forever
Started(o) ==
  IF o.time < Forever /\ o.wait < Forever /\ (o.time > 0 \/ o.wait > 0)
  THEN [o EXCEPT !.timer = TRUE] ELSE o

OnWithTimedOff(onlyWhenOn, t, w) ==
  /\ Comes("onoff")
  /\ scene' = Invalid(scene)
  /\ IF onlyWhenOn /\ ~onoff.on THEN UNCHANGED <<onoff, store, asked>>
     ELSE /\ onoff' = Started(TimedOffUpdate(onoff, t, w))
          /\ store' = IF onoff.wait > 0 /\ ~onoff.on THEN store ELSE Change(store)
          /\ asked' = [asked EXCEPT !.with = FALSE, !.endless = Forever \in {t, w} \/ @]
  /\ UNCHANGED level

\* the first half of the timer's callback: the time on has come to an end
TimedOut(o) ==
  LET time == o.time - 1 IN
  IF o.on /\ o.time > 0
  THEN IF time = 0 THEN Switched([o EXCEPT !.time = 0, !.wait = 0], FALSE)
                   ELSE [o EXCEPT !.time = time]
  ELSE o

\* the second: the wait
Waited(o) == IF ~o.on /\ o.wait > 0 THEN [o EXCEPT !.wait = @ - 1] ELSE o

\* sampleLight_OnWithTimedOffTimerCb
TimedOffTick ==
  /\ onoff.timer
  /\ LET o == TimedOut(onoff)  p == Waited(o) IN
     /\ onoff' = [p EXCEPT !.timer = p.time > 0 \/ p.wait > 0]
     /\ IF o.on = onoff.on THEN UNCHANGED <<scene, store, asked>>
        ELSE /\ scene' = Invalid(scene) /\ store' = Change(store)
             /\ asked' = [asked EXCEPT !.with = FALSE]
  /\ UNCHANGED <<level, left>>

-----------------------------------------------------------------------------
(* Levels: zcl_level_clientCmdHandler, zb_ble_hci_cmd_handler *)

\* a level command has set the level to l and the light to o, and was ask; only
\* one over Zigbee clears sceneValid if the light was not switched
LevelSet(l, o, switched, ask, ble) ==
  /\ level' = Begun(l) /\ onoff' = o
  /\ scene' = IF ble /\ ~switched THEN scene ELSE Invalid(scene)
  /\ store' = Change(store)
  /\ asked' = [asked EXCEPT !.goal = ask.goal, !.slow = ask.slow, !.with = ask.with,
                            !.up = ask.up, !.dipped = FALSE, !.astray = @ \/ (ble /\ scene.valid)]

Within(n) == Smaller(Larger(n, Min), Max)

\* the level a command to level n is to reach: one it can have, or the one it has
GoalOf(n) == IF n = level.lvl THEN n ELSE Within(n)

\* what a command to level n has asked for
AskLevel(n, t, with) ==
  [goal |-> GoalOf(n), with |-> with, up |-> n > level.lvl,
   slow |-> n > level.lvl /\ (n - level.lvl) * Unit < Ticks(t)]

MoveToLevel(n, t, with, ble) ==
  LET l == MoveTo(level, n, t, with) IN
  /\ Comes("level")
  /\ LevelSet(l, CoupledTo(onoff, l), with /\ (l.step > 0 \/ l.lvl <= Min),
              AskLevel(n, t, with), ble)

\* sampleLight_moveProcess, sampleLight_stepProcess
Drive(l, up, ble) ==
  /\ Comes("level")
  /\ LevelSet(l, Coupled(onoff, l, up), l.with /\ (up \/ l.lvl <= Min),
              [goal |-> None, slow |-> FALSE, with |-> l.with, up |-> FALSE], ble)

Signed(n, up) == IF up THEN n ELSE -n

Move(up, rate, with, ble) == Drive(Moving(level, Signed(rate, up), Forever, with), up, ble)

Step(up, size, t, with, ble) ==
  Drive(Moving(level, Signed((size * Unit) \div Ticks(t), up), Ticks(t), with), up, ble)

Stop(ble) ==
  /\ Comes("level")
  /\ level' = [level EXCEPT !.rem = 0, !.timer = FALSE]
  /\ scene' = IF ble THEN scene ELSE Invalid(scene)
  /\ asked' = [asked EXCEPT !.goal = None, !.with = FALSE, !.astray = @ \/ (ble /\ scene.valid)]
  /\ UNCHANGED <<onoff, store>>

\* the remainder of the division is made up for in the last ticks
Compensated(l) ==
  IF l.comp >= l.rem
  THEN [l EXCEPT !.comp = 0, !.step = IF @ > 0 THEN @ + 1 ELSE @ - 1] ELSE l

\* bug: a move goes on at the end of the range
BugEnded(l) == l

\* a move has come to the end of the range
Ended(l) ==
  IF l.rem = Forever /\ ((l.step > 0 /\ l.lvl >= Max) \/ (l.step < 0 /\ l.lvl <= Min))
  THEN [l EXCEPT !.rem = 0] ELSE l

\* sampleLight_levelTimerEvtCb
LevelTick ==
  /\ level.timer
  /\ LET l == Ended(Applied(Compensated(level)))
         off == l.with /\ l.lvl <= Min
     IN /\ level' = Begun(l)
        /\ onoff' = Coupled(onoff, l, FALSE)
        /\ scene' = IF off THEN Invalid(scene) ELSE scene
        /\ store' = Change(store)
        /\ asked' = [asked EXCEPT !.dipped = @ \/ (off /\ asked.up)]
  /\ UNCHANGED left

-----------------------------------------------------------------------------
(* Scenes: zcl_scene.c with sampleLight_sceneCb *)

\* a scene is stored; if the level is moving it will be another
StoreScene ==
  /\ Comes("scene")
  /\ scene' = [valid |-> TRUE, has |-> TRUE, on |-> onoff.on, lvl |-> level.lvl]
  /\ asked' = [asked EXCEPT !.astray = level.timer]
  /\ UNCHANGED <<onoff, level, store>>

\* a scene, this one or another, is recalled that holds on and n
RecallScene(on, n, t) ==
  LET l == MoveTo(level, n, t, FALSE) IN
  /\ Comes("scene")
  /\ onoff' = Switched(onoff, on)
  /\ level' = Begun(l)
  /\ scene' = [valid |-> TRUE, has |-> TRUE, on |-> on, lvl |-> n]
  /\ store' = Change(store)
  /\ asked' = [asked EXCEPT !.goal = GoalOf(n), !.slow = AskLevel(n, t, FALSE).slow,
                            !.with = FALSE, !.up = n > level.lvl, !.dipped = FALSE,
                            !.astray = FALSE]

\* the current scene is added anew, with other contents, or removed
ChangeScene(has, on, n) ==
  /\ Comes("scene")
  /\ scene.has
  /\ scene' = [scene EXCEPT !.has = has, !.on = on, !.lvl = n]
  /\ asked' = [asked EXCEPT !.astray = TRUE]
  /\ UNCHANGED <<onoff, level, store>>

-----------------------------------------------------------------------------
(* What is kept in flash *)

\* sampleLightAttrsChk, when commissioning is idle: a change is saved 200 ms after
\* the last one, but only in a network
AttrsChk ==
  /\ store.changed
  /\ store' = [store EXCEPT !.changed = FALSE, !.timer = @ \/ store.joined]
  /\ asked' = [asked EXCEPT !.lost = @ \/ ~store.joined]
  /\ UNCHANGED <<onoff, level, scene, left>>

\* sampleLightAttrsStoreTimerCb
Save ==
  /\ store.timer
  /\ store' = [store EXCEPT !.on = onoff.on, !.lvl = level.lvl, !.timer = FALSE]
  /\ asked' = [asked EXCEPT !.lost = FALSE]
  /\ UNCHANGED <<onoff, level, scene, left>>

\* the light joins or leaves a network
JoinOrLeave ==
  /\ Comes("other")
  /\ store' = [store EXCEPT !.joined = ~@]
  /\ UNCHANGED <<onoff, level, scene, asked>>

\* power is lost: user_zb_init, with zcl_sampleLightAttrsInit and light_adjust
LightRestart ==
  /\ Comes("other")
  /\ onoff' = FreshOnOff(StartsOn(store.start, store.on))
  /\ level' = FreshLevel(store.lvl)
  /\ scene' = NoScene
  /\ store' = [Change(store) EXCEPT !.timer = FALSE]
  /\ asked' = NoAsk

-----------------------------------------------------------------------------
OnOffCommand ==
  \/ \E on \in BOOLEAN : Switch(on)
  \/ \E only \in BOOLEAN, t, w \in OnTimes : OnWithTimedOff(only, t, w)

LevelCommand ==
  \E ble, with \in BOOLEAN :
    \/ \E n \in Targets, t \in Times : MoveToLevel(n, t, with, ble)
    \/ \E up \in BOOLEAN, r \in Rates : Move(up, r, with, ble)
    \/ \E up \in BOOLEAN, s \in Steps, t \in Times : Step(up, s, t, with, ble)
    \/ Stop(ble)

SceneCommand ==
  \/ StoreScene
  \/ \E on \in BOOLEAN, n \in Targets, t \in Times : RecallScene(on, n, t)
  \/ \E has, on \in BOOLEAN, n \in Targets : ChangeScene(has, on, n)

LightNext ==
  \/ OnOffCommand \/ LevelCommand \/ SceneCommand \/ JoinOrLeave \/ LightRestart
  \/ TimedOffTick \/ LevelTick \/ AttrsChk \/ Save

LightSpec == LightInit /\ [][LightNext]_lightVars

\* Timers are run by the main loop, and the check for changes in every turn of it
\* in which commissioning is idle.
LightFairSpec ==
  /\ LightSpec
  /\ WF_lightVars(TimedOffTick) /\ WF_lightVars(LevelTick)
  /\ WF_lightVars(AttrsChk) /\ WF_lightVars(Save)
-----------------------------------------------------------------------------
(* Correctness *)

\* A level that rises can be rounded to one above the highest.
LightTypeOK ==
  /\ onoff \in [on : BOOLEAN, time : 0..Forever, wait : 0..Forever, timer : BOOLEAN]
  /\ level \in [lvl : Min..(Max + 1), c : 0..((Max + 1) * Unit), step : Int, comp : Nat,
                rem : 0..Forever, with : BOOLEAN, timer : BOOLEAN]
  /\ level.timer = (level.rem > 0)
  /\ scene \in [valid : BOOLEAN, has : BOOLEAN, on : BOOLEAN, lvl : 0..(Max + 1)]
  /\ store \in [on : BOOLEAN, lvl : Min..(Max + 1), changed : BOOLEAN, timer : BOOLEAN,
                joined : BOOLEAN, start : StartUp]
  /\ left \in [Kind -> Nat]
  /\ asked \in [goal : 0..(Max + 1), slow : BOOLEAN, with : BOOLEAN, up : BOOLEAN, dipped : BOOLEAN,
                endless : BOOLEAN, astray : BOOLEAN, lost : BOOLEAN]

\* When a transition to a level is over the light has that level.
LevelAsAsked == asked.goal # None /\ ~level.timer => level.lvl = asked.goal

\* A transition to a level, from any level and in any number of ticks, started
\* over any other, ends at that level, not past it or short of it, except one
\* that rises by less than one fraction a tick: its step is zero, which the
\* timer's callback takes for a falling one.
LevelReached == ~asked.slow => LevelAsAsked

\* After a level command with on/off, the light is not on at the lowest level,
\* and is on at another one it was to rise to, unless it rose so slowly that
\* the rounded level was the lowest at a tick, or the step was zero.
PairedOnOff ==
  asked.with /\ ~level.timer =>
    /\ onoff.on => level.lvl > Min
    /\ asked.up /\ ~asked.slow /\ ~asked.dipped /\ level.lvl > Min => onoff.on

\* A light that is on for a time, or off for a time in which timed commands do not
\* switch it on, has a timer that ends it, unless a time of Forever was asked
\* for, with which the timer is not started.
TimedWillEnd ==
  (IF onoff.on THEN onoff.time ELSE onoff.wait) \in 1..(Forever - 1) =>
    onoff.timer \/ asked.endless

\* SceneValid says that the light is as its current scene: it is not set when the
\* light was switched, timed out or dimmed since, except for a change of the
\* scene itself, for a level that was moving when the scene was stored or that
\* was changed over BLE, and for a transition that ends elsewhere.
SceneTruth ==
  scene.valid /\ ~asked.astray =>
    /\ scene.has /\ scene.on = onoff.on
    /\ level.timer \/ asked.slow \/ level.lvl \in {scene.lvl, Within(scene.lvl)}

\* What a restart would bring back is the light's state, once there is nothing
\* left to save, unless a change was made outside any network.
SavedTruth ==
  ~store.changed /\ ~store.timer /\ ~asked.lost =>
    store.on = onoff.on /\ store.lvl = level.lvl

\* The light does what it was told, whatever commands, timers and restarts came
\* between: a transition ends at its level, a command with on/off leaves the
\* light on above the lowest level and off at it, and a time on or off ends, but
\* for the exceptions these name.
AsTold == LightTypeOK /\ LevelReached /\ PairedOnOff /\ TimedWillEnd

\* What is said of the light is true of it: SceneValid, and, with nothing left to
\* save, what is in flash.
AsSaid == SceneTruth /\ SavedTruth

\* a move at rate zero
Endless == level.timer /\ level.rem = Forever /\ level.step = 0

\* The light comes to rest: when no more commands come its timers end, and what
\* is to be saved is saved, except in a move at rate zero, whose timer goes on
\* for ever.
ComesToRest ==
  <>[](~onoff.timer /\ (Endless \/ (~level.timer /\ ~store.changed /\ ~store.timer)))
=============================================================================
