------------------------------ MODULE BdbProofs ------------------------------
(***************************************************************************)
(* Proofs about Bdb, for any number of happenings of any kind.             *)
(*                                                                         *)
(* OneAttempt counts the attempts the application is owed an outcome of.   *)
(* The code keeps no such count: what it reads is the attribute that says  *)
(* an attempt is in progress.  The inductive invariant ties the two: while *)
(* no attempt is in progress, nothing is owed.                             *)
(*                                                                         *)
(* KeepsTrying looks at a device at rest.  A device that was ever told to  *)
(* join its network again, or has been in one since its start, is cared    *)
(* for: that lasts until it is in a network or restarts.  For any other    *)
(* one the inductive invariant says, in each state, why its attempt or its *)
(* touch link will end with the timer set.                                 *)
(***************************************************************************)
EXTENDS Bdb, TLAPS

Owing ==
  ~story.late /\ ~story.untold =>
    story.owed <= (IF bdb.attr = "IN_PROGRESS" THEN 1 ELSE 0)

BdbIInv == TypeOK /\ Owing

-----------------------------------------------------------------------------
(* The helpers *)

\* The bounds the constants allow every counter to start from.
LEMMA Bounds ==
  /\ {MaxAttempts, QueueSize, MaxShots, MaxAsked} \subseteq Nat \ {0}
  /\ 0 \in 0..MaxAttempts /\ 0 \in 0..(QueueSize - 1) /\ 0 \in 0..MaxShots /\ 0 \in 0..MaxAsked
  /\ \A w \in Worlds : w.new \in BOOLEAN /\ w.left \in [Happening -> Nat]
<1>1. {MaxAttempts, QueueSize, MaxShots, MaxAsked} \subseteq Nat \ {0}
  BY BdbAssumption DEF BdbAssumption
<1>2. \A w \in Worlds : w.new \in BOOLEAN /\ w.left \in [Happening -> Nat]
  BY BdbAssumption DEF BdbAssumption
<1> QED BY <1>1, <1>2

\* The states, and the tasks that are events of one of them.
LEMMA Names ==
  /\ DOMAIN Meant = {"INIT", "IDLE", "TOUCHLINK", "STEER", "FORMATION", "FINDORBIND"}
  /\ {"START", "STEER_FINISH", "REJOIN_DONE", "NO_RESP", "TL_FINISH", "RETRIEVE", "PERMITJOIN",
      "FORM_PERMITJOIN", "FORM_FINISH", "FB_REQ", "FB_FINISH", "INIT_DONE", "PERMIT_CNF",
      "INFO_SAVE", "SIMPLE_SEND", "DIRECT_JOIN"} \subseteq Tasks
  /\ <<>> \in Seq(Tasks) /\ \A t \in Tasks : <<t>> \in Seq(Tasks)
<1>1. DOMAIN Meant = {"INIT", "IDLE", "TOUCHLINK", "STEER", "FORMATION", "FINDORBIND"}
  BY DEF Meant
<1>2. /\ Meant["IDLE"] = {"START"} \cup Finish
      /\ Meant["TOUCHLINK"] = {"NO_RESP", "TL_FINISH"}
      /\ Meant["STEER"] = {"RETRIEVE", "PERMITJOIN"} \cup Finish
      /\ Meant["FORMATION"] = {"FORM_PERMITJOIN", "FORM_FINISH"}
      /\ Meant["FINDORBIND"] = {"FB_REQ", "FB_FINISH"}
  BY DEF Meant
<1>3. \A s \in DOMAIN Meant : Meant[s] \subseteq Events
  BY DEF Events
<1>4. "INIT_DONE" \in Events
  BY DEF Events
<1>5. Events \subseteq Tasks /\ {"PERMIT_CNF", "INFO_SAVE", "SIMPLE_SEND", "DIRECT_JOIN"} \subseteq Tasks
  BY DEF Tasks
<1>6. {"START", "STEER_FINISH", "REJOIN_DONE", "NO_RESP", "TL_FINISH", "RETRIEVE", "PERMITJOIN",
       "FORM_PERMITJOIN", "FORM_FINISH", "FB_REQ", "FB_FINISH"} \subseteq Events
  BY <1>1, <1>2, <1>3 DEF Finish
<1>7. <<>> \in Seq(Tasks) /\ \A t \in Tasks : <<t>> \in Seq(Tasks)
  OBVIOUS
<1> QED BY <1>1, <1>4, <1>5, <1>6, <1>7

\* What a task that has run, or a call, leaves in the queue are tasks.
LEMMA QueueTypes ==
  ASSUME TypeOK, NEW b \in Context, NEW q \in Seq(Tasks)
  PROVE  /\ tasks # <<>> /\ Ran(b, q) => bdb' \in Context /\ tasks' \in Seq(Tasks)
         /\ Called(b, q) => bdb' \in Context /\ tasks' \in Seq(Tasks)
<1>1. tasks \in Seq(Tasks)
  BY DEF TypeOK
<1>2. tasks \o q \in Seq(Tasks)
  BY <1>1
<1>3. tasks # <<>> => Tail(tasks) \in Seq(Tasks)
  BY <1>1
<1>4. tasks # <<>> => Tail(tasks) \o q \in Seq(Tasks)
  BY <1>3
<1> QED BY <1>2, <1>4 DEF Ran, Called

\* A timer that nobody holds is armed or is at its bound.
LEMMA ShotTypes ==
  ASSUME TypeOK, NEW s \in Shot
  PROVE  /\ Arm(s) => later' \in [Shot -> 0..MaxShots]
         /\ \A c : ArmIf(c, s) => later' \in [Shot -> 0..MaxShots]
         /\ \A l : l = [later EXCEPT ![s] = @ - 1] /\ later[s] > 0 => l \in [Shot -> 0..MaxShots]
<1>1. later \in [Shot -> 0..MaxShots] /\ MaxShots \in Nat
  BY Bounds DEF TypeOK
<1>2. ASSUME NEW n \in 0..MaxShots
      PROVE  [later EXCEPT ![s] = n] \in [Shot -> 0..MaxShots]
  BY <1>1
<1>3. (IF later[s] < MaxShots THEN later[s] + 1 ELSE later[s]) \in 0..MaxShots
  BY <1>1
<1>4. later[s] > 0 => later[s] - 1 \in 0..MaxShots
  BY <1>1
<1>5. Arm(s) => later' \in [Shot -> 0..MaxShots]
  BY <1>2, <1>3 DEF Arm
<1> QED BY <1>1, <1>2, <1>4, <1>5 DEF ArmIf

\* A happening that has come may come one time less.
LEMMA HappensTypes ==
  ASSUME TypeOK, NEW h \in Happening, Happens(h)
  PROVE  left' \in [Happening -> Nat]
BY DEF TypeOK, Happens

\* What the application is told may arm its timer, or start a rejoin.
LEMMA HearsTypes ==
  ASSUME TypeOK, NEW s \in Status, AppHears(s)
  PROVE  later' \in [Shot -> 0..MaxShots] /\ net' \in Network
<1>1. "steer" \in Shot BY DEF Shot
<1>2. later' \in [Shot -> 0..MaxShots]
  BY <1>1, ShotTypes DEF AppHears
<1>3. net' \in Network
  BY DEF AppHears, TypeOK, Network, Op
<1> QED BY <1>2, <1>3

\* A start that is accepted is of an attempt, one that is not changes nothing.
LEMMA StartedTypes ==
  ASSUME NEW b \in Context, NEW role \in {"INITIATOR", "TARGET"}
  PROVE  Started(b, role) \in Context /\ StartTask(b) \in Seq(Tasks)
<1>1. [b EXCEPT !.role = role, !.attr = "IN_PROGRESS"] \in Context
  BY DEF Context
<1> QED BY <1>1, Names DEF Started, StartTask

\* A phase is a state, and entering it sets nothing but the state and the timer.
LEMMA PhaseTypes ==
  ASSUME NEW b \in Context
  PROVE  /\ FormPhase(b) \in {"FORMATION", "FINDORBIND", "IDLE"}
         /\ FindPhase(b) \in {"FINDORBIND", "IDLE"}
         /\ \A p \in {"FORMATION", "FINDORBIND", "IDLE"} :
              Entered(b, p) \in Context /\ Entered(b, p).attr = b.attr
<1>1. FormPhase(b) \in {"FORMATION", "FINDORBIND", "IDLE"} /\ FindPhase(b) \in {"FINDORBIND", "IDLE"}
  BY DEF FormPhase, FindPhase
<1>2. ASSUME NEW p \in {"FORMATION", "FINDORBIND", "IDLE"},
             NEW t \in {"off", "key", "query", "simple", "target"}
      PROVE  LET x == [b EXCEPT !.state = p, !.timer = t] IN x \in Context /\ x.attr = b.attr
  BY Names DEF Context
<1>3. ASSUME NEW p \in {"FORMATION", "FINDORBIND", "IDLE"}
      PROVE  Entered(b, p) \in Context /\ Entered(b, p).attr = b.attr
  <2>1. b.timer \in {"off", "key", "query", "simple", "target"}
    BY DEF Context
  <2> QED BY <1>2, <2>1 DEF Entered
<1> QED BY <1>1, <1>3

\* The outcomes of the key exchange and of touch link are statuses.
LEMMA OutcomeTypes ==
  ASSUME NEW b \in Context, NEW ok \in BOOLEAN
  PROVE  /\ KeyDone(b, ok) \in Context /\ KeyDone(b, ok).attr = b.attr
         /\ KeyDoneTask(ok) \in Seq(Tasks)
         /\ \A how : TouchStatus(b, how) \in Status /\ TouchTask(b, how) \in Seq(Tasks)
<1>1. KeyDone(b, ok) \in Context /\ KeyDone(b, ok).attr = b.attr
  BY DEF KeyDone, Context, Status
<1>2. KeyDoneTask(ok) \in Seq(Tasks)
  BY Names DEF KeyDoneTask
<1>3. \A how : TouchStatus(b, how) \in Status /\ TouchTask(b, how) \in Seq(Tasks)
  BY Names DEF TouchStatus, TouchTask, Status
<1> QED BY <1>1, <1>2, <1>3

\* Saving the commissioning information changes the mode.
LEMMA SavedTypes ==
  ASSUME NEW b \in Context
  PROVE  Saved(b) \in Context /\ Saved(b).attr = b.attr
BY DEF Saved, Context

-----------------------------------------------------------------------------
(* What an action does to the attempts owed *)

\* The history goes on, but for what is owed.
Remembers ==
  /\ story' \in Story
  /\ story'.owed = story.owed /\ story'.untold = story.untold
  /\ story.late => story'.late

\* The fields of the history.
LEMMA Noted ==
  ASSUME NEW t \in Story
  PROVE  t.owed \in Nat /\ {t.untold, t.late, t.swapped, t.unheard, t.cut} \subseteq BOOLEAN
BY DEF Story

\* What is told is told.
LEMMA ToldNote ==
  ASSUME story \in Story
  PROVE  /\ Told \in Story
         /\ Told.owed = 0 /\ Told.untold = FALSE /\ Told.late = story.late /\ Told.swapped = story.swapped
         /\ Told.unheard = story.unheard /\ Told.cut = story.cut
BY DEF Told, Story

\* An action that changes neither the attribute nor what is owed: what is owed
\* stays at most what is in progress, whether or not an answer came late.
LEMMA NothingOwed ==
  ASSUME BdbIInv, bdb' \in Context, bdb'.attr = bdb.attr,
         UNCHANGED story \/ (\E c \in BOOLEAN : Late(c)) \/ Remembers
  PROVE  Owing' /\ story' \in Story
<1>1. CASE UNCHANGED story
  BY <1>1 DEF BdbIInv, TypeOK, Owing
<1>2. CASE Remembers
  BY <1>2 DEF BdbIInv, TypeOK, Owing, Remembers
<1>3. ASSUME NEW c \in BOOLEAN, Late(c)
      PROVE  Remembers
  <2>1. story \in Story
    BY DEF BdbIInv, TypeOK
  <2> QED BY <1>3, <2>1 DEF Late, Story, Remembers
<1> QED BY <1>1, <1>2, <1>3

\* An attempt whose outcome is told is owed no more.
LEMMA Repaid ==
  ASSUME BdbIInv, story' \in Story, story'.owed = 0
  PROVE  Owing'
BY DEF Owing

\* What the history says of an outcome that is told.
LEMMA ConfirmNotes ==
  ASSUME story \in Story, NEW b, NEW s, Confirm(b, s)
  PROVE  /\ story' \in Story
         /\ \/ story'.owed = story.owed /\ (story.owed > 0 => story'.late)
            \/ story'.owed = 0
         /\ story.late => story'.late
         /\ bdb.state = "IDLE" /\ Head(tasks) # "REJOIN_DONE" => story'.late
         /\ story'.swapped = story.swapped
         /\ story'.unheard = (story.unheard /\ b.status # "REJOIN_FAILURE")
         /\ story'.cut = (story.cut \/ (bdb.state = "TOUCHLINK" /\ net.touch # "off"))
<1> DEFINE rejoined == bdb.state = "IDLE" /\ Head(tasks) = "REJOIN_DONE"
           early == story.late \/ story.owed > 0
           other == story.late \/ (bdb.state = "IDLE" \/ Head(tasks) = "REJOIN_DONE")
           t == IF rejoined THEN [story EXCEPT !.late = early] ELSE [Told EXCEPT !.late = other]
           u == t.unheard /\ b.status # "REJOIN_FAILURE"
           c == t.cut \/ (bdb.state = "TOUCHLINK" /\ net.touch # "off")
<1>1. story' = [t EXCEPT !.unheard = u, !.cut = c]
  <2>1. Told.late = story.late
    BY ToldNote
  <2> QED BY <2>1 DEF Confirm
<1>2. /\ t \in Story
      /\ \/ t.owed = story.owed /\ (story.owed > 0 => t.late)
         \/ t.owed = 0
      /\ story.late => t.late
      /\ bdb.state = "IDLE" /\ Head(tasks) # "REJOIN_DONE" => t.late
      /\ t.swapped = story.swapped /\ t.unheard = story.unheard /\ t.cut = story.cut
  <2>0. rejoined \/ (bdb.state = "IDLE" /\ Head(tasks) # "REJOIN_DONE" => other)
    OBVIOUS
  <2>1. early \in BOOLEAN /\ other \in BOOLEAN
    BY Noted
  <2>2. (story.late => early) /\ (story.owed > 0 => early) /\ (story.late => other)
        /\ (rejoined => ~(bdb.state = "IDLE" /\ Head(tasks) # "REJOIN_DONE"))
    OBVIOUS
  <2> HIDE DEF early, other, rejoined
  <2>3. LET x == [story EXCEPT !.late = early] IN
        /\ x \in Story /\ x.owed = story.owed /\ x.late = early
        /\ x.swapped = story.swapped /\ x.unheard = story.unheard /\ x.cut = story.cut
    BY <2>1 DEF Story
  <2>4. LET x == [Told EXCEPT !.late = other] IN
        /\ x \in Story /\ x.owed = 0 /\ x.late = other
        /\ x.swapped = story.swapped /\ x.unheard = story.unheard /\ x.cut = story.cut
    BY <2>1, ToldNote DEF Story
  <2> QED BY <2>0, <2>2, <2>3, <2>4
<1> HIDE DEF t
<1>3. t.unheard \in BOOLEAN /\ t.cut \in BOOLEAN
  BY <1>2, Noted
<1>4. u \in BOOLEAN /\ c \in BOOLEAN
  BY <1>3
<1>5. u = (story.unheard /\ b.status # "REJOIN_FAILURE")
      /\ c = (story.cut \/ (bdb.state = "TOUCHLINK" /\ net.touch # "off"))
  BY <1>2
<1> HIDE DEF u, c
<1>6. /\ story' \in Story /\ story'.owed = t.owed /\ story'.late = t.late
      /\ story'.swapped = t.swapped /\ story'.unheard = u /\ story'.cut = c
  BY <1>1, <1>2, <1>4 DEF Story
<1> QED BY <1>2, <1>5, <1>6

\* The outcome of an attempt, or the end of a rejoin, is told.
LEMMA Confirmed ==
  ASSUME BdbIInv, NEW b \in Context, tasks # <<>>, Confirm(b, "IDLE")
  PROVE  BdbIInv'
<1> DEFINE x == [b EXCEPT !.attr = b.status, !.timer = "off", !.state = "IDLE"]
<1>1. x \in Context /\ x.attr = b.status /\ b.status \in Status
  BY Names DEF Context
<1>2. b.status # "IN_PROGRESS"
  BY <1>1 DEF Status
<1>3. bdb' = x /\ bdb' \in Context /\ tasks' \in Seq(Tasks)
  <2>1. <<>> \in Seq(Tasks) BY Names
  <2>2. Ran(x, <<>>) BY DEF Confirm
  <2> HIDE DEF x
  <2> QED BY <1>1, <2>1, <2>2, QueueTypes DEF BdbIInv, Ran
<1>4. later' \in [Shot -> 0..MaxShots] /\ net' \in Network
  <2>1. AppHears(b.status) BY DEF Confirm
  <2> QED BY <1>1, <2>1, HearsTypes DEF BdbIInv
<1>5. left' \in [Happening -> Nat]
  BY DEF Confirm, BdbIInv, TypeOK
<1>6. Owing' /\ story' \in Story
  <2>1. story \in Story
    BY DEF BdbIInv, TypeOK
  <2>2. story.owed \in Nat
    BY <2>1, Noted
  <2> QED BY <2>1, <2>2, ConfirmNotes DEF Owing
<1> QED BY <1>3, <1>4, <1>5, <1>6 DEF BdbIInv, TypeOK

\* A start: of an attempt if none is in progress, else of none.
LEMMA Starting ==
  ASSUME BdbIInv, NEW kind \in DOMAIN Mode, NEW role \in {"INITIATOR", "TARGET"},
         Start(kind, role)
  PROVE  /\ bdb' \in Context /\ tasks' \in Seq(Tasks)
         /\ Owing' /\ story' \in Story
<1> DEFINE b == [bdb EXCEPT !.mode = Mode[kind]]
<1>0. Mode[kind] \in SUBSET {"steer", "form", "find", "touchlink"}
  BY DEF Mode
<1>1. b \in Context /\ b.attr = bdb.attr
  BY <1>0 DEF BdbIInv, TypeOK, Context
<1>2. Called(Started(b, role), StartTask(b))
  BY DEF Start
<1>3. story' = IF CanStart(b) THEN [story EXCEPT !.owed = @ + 1]
               ELSE [story EXCEPT !.swapped = @ \/ b.mode # bdb.mode]
  BY DEF Start
<1> HIDE DEF b
<1>4. bdb' \in Context /\ tasks' \in Seq(Tasks)
  BY <1>1, <1>2, StartedTypes, QueueTypes DEF BdbIInv
<1>5. CASE CanStart(b)
  <2>1. bdb' = [b EXCEPT !.role = role, !.attr = "IN_PROGRESS"]
    BY <1>2, <1>5 DEF Called, Started
  <2>2. bdb'.attr = "IN_PROGRESS"
    BY <2>1, <1>1 DEF Context
  <2>3. bdb.attr # "IN_PROGRESS"
    BY <1>1, <1>5 DEF CanStart
  <2>4. story \in Story
    BY DEF BdbIInv, TypeOK
  <2>5. story' = [story EXCEPT !.owed = @ + 1]
    BY <1>3, <1>5
  <2>6. story' \in Story /\ story'.owed = story.owed + 1 /\ story'.late = story.late
        /\ story'.untold = story.untold /\ story.owed \in Nat
    BY <2>4, <2>5 DEF Story
  <2> QED BY <1>4, <2>2, <2>3, <2>6 DEF BdbIInv, Owing
<1>6. CASE ~CanStart(b)
  <2>1. bdb' = b
    BY <1>2, <1>6 DEF Called, Started
  <2>2. story \in Story
    BY DEF BdbIInv, TypeOK
  <2>3. Remembers
    BY <1>3, <1>6, <2>2 DEF Remembers, Story
  <2> QED BY <1>1, <1>4, <2>1, <2>3, NothingOwed
<1> QED BY <1>4, <1>5, <1>6

\* An action that leaves the context as b and posts q, where b is in progress as
\* much as before and the other variables stay what they may be.
LEMMA Passing ==
  ASSUME BdbIInv, NEW b \in Context, b.attr = bdb.attr, NEW q \in Seq(Tasks),
         (tasks # <<>> /\ Ran(b, q)) \/ Called(b, q),
         later' \in [Shot -> 0..MaxShots], net' \in Network, left' \in [Happening -> Nat],
         UNCHANGED story \/ (\E c \in BOOLEAN : Late(c)) \/ Remembers
  PROVE  BdbIInv'
<1>1. bdb' = b /\ tasks' \in Seq(Tasks)
  BY QueueTypes DEF BdbIInv, Ran, Called
<1>2. Owing' /\ story' \in Story
  BY <1>1, NothingOwed
<1> QED BY <1>1, <1>2 DEF BdbIInv, TypeOK

\* The fields that handlers set alone or in pairs.
LEMMA ContextFields ==
  ASSUME NEW b \in Context
  PROVE  /\ b.attr \in Status \cup {"IN_PROGRESS"} /\ b.status \in Status
         /\ \A s \in {"INIT", "IDLE", "TOUCHLINK", "STEER", "FORMATION", "FINDORBIND"} :
              [b EXCEPT !.state = s] \in Context /\ [b EXCEPT !.state = s].attr = b.attr
         /\ \A s \in Status : [b EXCEPT !.status = s] \in Context /\ [b EXCEPT !.status = s].attr = b.attr
         /\ [b EXCEPT !.timer = "off"] \in Context /\ [b EXCEPT !.timer = "off"].attr = b.attr
         /\ [b EXCEPT !.match = FALSE] \in Context /\ [b EXCEPT !.match = FALSE].attr = b.attr
         /\ [b EXCEPT !.match = TRUE] \in Context /\ [b EXCEPT !.match = TRUE].attr = b.attr
         /\ \A o \in BOOLEAN : [b EXCEPT !.on = o] \in Context /\ [b EXCEPT !.on = o].attr = b.attr
         /\ \A o \in BOOLEAN : [b EXCEPT !.ok = o] \in Context /\ [b EXCEPT !.ok = o].attr = b.attr
         /\ \A n \in 0..(QueueSize - 1) : [b EXCEPT !.queue = n] \in Context /\ [b EXCEPT !.queue = n].attr = b.attr
BY Names DEF Context

\* The statuses the handlers set by name.
LEMMA StatusNames ==
  {"SUCCESS", "NO_NETWORK", "TCLK_EX_FAILURE", "TARGET_FAILURE", "NO_SCAN_RESPONSE",
   "FORMATION_FAILURE", "REJOIN_FAILURE", "NO_IDENTIFY_QUERY_RESPONSE",
   "BINDING_TABLE_FULL"} = Status
BY DEF Status

\* What an action that leaves a variable alone leaves it.
LEMMA Same ==
  ASSUME BdbIInv
  PROVE  /\ bdb \in Context /\ net \in Network /\ tasks \in Seq(Tasks)
         /\ later \in [Shot -> 0..MaxShots] /\ left \in [Happening -> Nat]
         /\ story \in Story
         /\ UNCHANGED later => later' \in [Shot -> 0..MaxShots]
         /\ UNCHANGED net => net' \in Network
         /\ UNCHANGED left => left' \in [Happening -> Nat]
BY DEF BdbIInv, TypeOK

\* The network layer's fields.
LEMMA NetworkFields ==
  ASSUME NEW n \in Network
  PROVE  /\ \A o \in SUBSET Op : [n EXCEPT !.ops = o] \in Network
         /\ \A i \in 0..MaxAsked : [n EXCEPT !.node = i] \in Network /\ [n EXCEPT !.simple = i] \in Network
         /\ \A i \in 0..MaxAsked, c \in BOOLEAN : [n EXCEPT !.node = i, !.key = c] \in Network
         /\ \A c \in BOOLEAN : /\ [n EXCEPT !.key = c] \in Network /\ [n EXCEPT !.leave = c] \in Network
                               /\ [n EXCEPT !.ieee = c] \in Network
         /\ \A t \in {"off", "scan", "link", "join"} :
              /\ [n EXCEPT !.touch = t] \in Network
              /\ \A o \in SUBSET Op : [n EXCEPT !.touch = t, !.ops = o] \in Network
         /\ n.ops \in SUBSET Op /\ n.node \in 0..MaxAsked /\ n.simple \in 0..MaxAsked
BY DEF Network

-----------------------------------------------------------------------------
(* Every action preserves the invariant *)

\* Events that begin something, end nothing, or are dropped.
LEMMA PlainTasks ==
  ASSUME BdbIInv,
         InitDone \/ Dropped \/ Retrieve \/ PermitJoin \/ FormPermitJoin \/ FindRequest \/ InfoSave
  PROVE  BdbIInv'
<1>1. CASE InitDone
  <2>1. PICK q \in {<<>>, <<"INFO_SAVE">>} : Ran([bdb EXCEPT !.state = "IDLE"], q)
    BY <1>1, Zenon DEF InitDone
  <2>2. q \in Seq(Tasks)
    BY Names
  <2>3. tasks # <<>> /\ UNCHANGED <<net, left, story>>
    BY <1>1 DEF InitDone, Event
  <2>4. later' \in [Shot -> 0..MaxShots]
    <3>1. "steer" \in Shot BY DEF Shot
    <3> QED BY <1>1, <3>1, ShotTypes DEF InitDone, BdbIInv
  <2> QED BY <2>1, <2>2, <2>3, <2>4, Same, ContextFields, Passing
<1>2. CASE Dropped
  BY <1>2, Names, Same, Passing DEF Dropped
<1>3. CASE Retrieve
  <2>1. "key" \in Shot BY DEF Shot
  <2> QED BY <1>3, <2>1, ShotTypes, Names, Same, Passing DEF Retrieve, Event, BdbIInv
<1>4. CASE PermitJoin
  BY <1>4, Names, Same, Passing DEF PermitJoin, Event
<1>5. CASE FormPermitJoin
  <2> DEFINE b == [bdb EXCEPT !.mode = @ \cup {"steer"}]
  <2>1. b \in Context /\ b.attr = bdb.attr
    BY Same DEF Context
  <2>2. Ran(b, <<"PERMIT_CNF">>) /\ tasks # <<>> /\ UNCHANGED <<later, net, left, story>>
    BY <1>5 DEF FormPermitJoin, Event
  <2> HIDE DEF b
  <2> QED BY <2>1, <2>2, Names, Same, Passing
<1>6. CASE FindRequest
  <2>1. net' \in Network
    <3>1. (IF bdb.role = "INITIATOR" /\ net.simple < MaxAsked THEN net.simple + 1 ELSE net.simple) \in 0..MaxAsked
      <4>1. net.simple \in 0..MaxAsked /\ MaxAsked \in Nat
        BY Same, NetworkFields, Bounds
      <4> QED BY <4>1
    <3> QED BY <1>6, <3>1, Same, NetworkFields DEF FindRequest
  <2> QED BY <1>6, <2>1, Names, Same, Passing DEF FindRequest, Event
<1>7. CASE InfoSave
  BY <1>7, Names, Same, SavedTypes, Passing DEF InfoSave, Task
<1> QED BY <1>1, <1>2, <1>3, <1>4, <1>5, <1>6, <1>7

\* An outcome that the start of a phase comes to at once is told.
LEMMA NotStarted ==
  ASSUME BdbIInv, tasks # <<>>, Ran([bdb EXCEPT !.attr = "NO_NETWORK"], <<>>),
         AppHears("NO_NETWORK"), story' = Told, UNCHANGED left
  PROVE  BdbIInv'
<1>1. [bdb EXCEPT !.attr = "NO_NETWORK"] \in Context
  BY Same, StatusNames DEF Context
<1>2. bdb' \in Context /\ tasks' \in Seq(Tasks)
  BY <1>1, Names, QueueTypes DEF BdbIInv
<1>3. later' \in [Shot -> 0..MaxShots] /\ net' \in Network
  BY StatusNames, HearsTypes DEF BdbIInv
<1>4. Owing' /\ story' \in Story
  BY Same, ToldNote, Repaid
<1> QED BY <1>2, <1>3, <1>4, Same DEF BdbIInv, TypeOK

\* A phase is entered, with the operation of the network layer it begins with.
LEMMA PhaseStep ==
  ASSUME BdbIInv, tasks # <<>>, NEW p \in {"FORMATION", "FINDORBIND"},
         Ran(Entered(bdb, p), <<>>), net' = [net EXCEPT !.ops = @ \cup PhaseOp(p)],
         UNCHANGED <<later, left, story>>
  PROVE  BdbIInv'
<1>1. net.ops \cup PhaseOp(p) \in SUBSET Op
  BY Same, NetworkFields DEF PhaseOp, Op
<1>2. net' \in Network
  BY <1>1, Same, NetworkFields
<1> QED BY <1>2, Same, PhaseTypes, Names, Passing

\* The starts of the phases.
LEMMA StartTasks ==
  ASSUME BdbIInv, CommissionStart \/ TouchStart
  PROVE  BdbIInv'
<1>1. CASE CommissionStart
  <2>1. tasks # <<>> /\ UNCHANGED left
    BY <1>1 DEF CommissionStart, Event
  <2>2. CASE "steer" \in bdb.mode
    <3>1. /\ Ran([bdb EXCEPT !.state = "STEER"], IF bdb.on THEN <<"PERMIT_CNF">> ELSE <<>>)
          /\ net' = [net EXCEPT !.ops = IF bdb.on THEN @ ELSE @ \cup {"join"}]
          /\ UNCHANGED <<later, story>>
      BY <1>1, <2>2 DEF CommissionStart
    <3>2. (IF bdb.on THEN net.ops ELSE net.ops \cup {"join"}) \in SUBSET Op
      BY Same, NetworkFields DEF Op
    <3>3. net' \in Network
      BY <3>1, <3>2, Same, NetworkFields
    <3>4. (IF bdb.on THEN <<"PERMIT_CNF">> ELSE <<>>) \in Seq(Tasks)
      BY Names
    <3> QED BY <2>1, <3>1, <3>3, <3>4, Same, ContextFields, Passing
  <2>3. CASE "steer" \notin bdb.mode
    <3>1. CASE FormPhase(bdb) = "IDLE"
      BY <1>1, <2>1, <2>3, <3>1, NotStarted DEF CommissionStart
    <3>2. CASE FormPhase(bdb) # "IDLE"
      <4>1. FormPhase(bdb) \in {"FORMATION", "FINDORBIND"}
        BY <3>2, Same, PhaseTypes
      <4> QED BY <1>1, <2>1, <2>3, <3>2, <4>1, PhaseStep DEF CommissionStart
    <3> QED BY <3>1, <3>2
  <2> QED BY <2>2, <2>3
<1>2. CASE TouchStart
  <2>1. tasks # <<>> /\ UNCHANGED left
    BY <1>2 DEF TouchStart, Event
  <2>2. CASE bdb.role = "TARGET"
    BY <1>2, <2>1, <2>2, NotStarted DEF TouchStart
  <2>3. CASE bdb.role # "TARGET" /\ net.touch # "off"
    <3> DEFINE st == TouchStatus(bdb, "BUSY")
               b == [bdb EXCEPT !.state = "TOUCHLINK", !.status = st]
    <3>1. /\ Ran([bdb EXCEPT !.state = "TOUCHLINK", !.status = TouchStatus(bdb, "BUSY")], <<"TL_FINISH">>)
          /\ UNCHANGED <<net, later, story>>
      BY <1>2, <2>3 DEF TouchStart
    <3>2. st \in Status
      BY Same, OutcomeTypes
    <3> HIDE DEF st
    <3>3. b \in Context /\ b.attr = bdb.attr
      BY <3>2, Same, Names DEF Context
    <3>4. Ran(b, <<"TL_FINISH">>)
      BY <3>1 DEF st
    <3> HIDE DEF b
    <3> QED BY <2>1, <3>1, <3>3, <3>4, Same, Names, Passing
  <2>4. CASE bdb.role # "TARGET" /\ net.touch = "off"
    <3>1. /\ Ran([bdb EXCEPT !.state = "TOUCHLINK"], <<>>) /\ UNCHANGED <<later, story>>
          /\ \E got \in BOOLEAN : net' = [net EXCEPT !.touch = IF got THEN "scan" ELSE "off"]
      BY <1>2, <2>4 DEF TouchStart
    <3>2. net' \in Network
      <4>1. PICK got \in BOOLEAN : net' = [net EXCEPT !.touch = IF got THEN "scan" ELSE "off"]
        BY <3>1
      <4>2. (IF got THEN "scan" ELSE "off") \in {"off", "scan", "link", "join"}
        OBVIOUS
      <4> QED BY <4>1, <4>2, Same, NetworkFields
    <3> QED BY <2>1, <3>1, <3>2, Same, ContextFields, Names, Passing
  <2> QED BY <2>2, <2>3, <2>4
<1> QED BY <1>1, <1>2

\* The ends: of a rejoin, of touch link, and of the phases.
LEMMA FinishTasks ==
  ASSUME BdbIInv, RejoinDone \/ TouchDone \/ SteerFinish \/ FormFinish \/ FindFinish
  PROVE  BdbIInv'
<1>1. ASSUME NEW p, p \in {"FORMATION", "FINDORBIND", "IDLE"}, tasks # <<>>, NextPhase(p)
      PROVE  BdbIInv'
  <2>1. CASE p = "IDLE"
    BY <1>1, <2>1, Same, Confirmed DEF NextPhase
  <2>2. CASE p # "IDLE"
    BY <1>1, <2>2, PhaseStep DEF NextPhase
  <2> QED BY <2>1, <2>2
<1>2. CASE RejoinDone
  BY <1>2, Same, Confirmed DEF RejoinDone, Event
<1>3. CASE TouchDone
  BY <1>3, Same, Confirmed DEF TouchDone, Event
<1>4. CASE SteerFinish
  BY <1>4, <1>1, Same, PhaseTypes DEF SteerFinish, Event
<1>5. CASE FormFinish
  BY <1>5, <1>1, Same, PhaseTypes DEF FormFinish, Event
<1>6. CASE FindFinish
  <2>1. [bdb EXCEPT !.queue = 0] \in Context
    BY Same, ContextFields, Bounds
  <2> QED BY <1>6, <2>1, Confirmed DEF FindFinish, Event
<1> QED BY <1>2, <1>3, <1>4, <1>5, <1>6

\* The fall-back from touch link: another attempt, under the same debt; or none,
\* and then what is owed is not told.
LEMMA FallBack ==
  ASSUME BdbIInv, TouchNoResp
  PROVE  BdbIInv'
<1> DEFINE b == [bdb EXCEPT !.mode = @ \ {"touchlink"}, !.state = "IDLE", !.attr = bdb.status]
<1>1. b \in Context /\ b.attr = bdb.status /\ bdb.status \in Status
  BY Same, Names DEF Context
<1>2. /\ Ran(Started(b, "TARGET"), StartTask(b))
      /\ story' = [story EXCEPT !.untold = @ \/ (~CanStart(b) /\ story.owed > 0),
                                !.cut = @ \/ net.touch = "scan"]
      /\ tasks # <<>> /\ UNCHANGED <<later, net, left>>
  BY DEF TouchNoResp, Event
<1> HIDE DEF b
<1>3. bdb' \in Context /\ tasks' \in Seq(Tasks)
  BY <1>1, <1>2, StartedTypes, QueueTypes DEF BdbIInv
<1>4. CASE CanStart(b)
  <2>1. bdb' = [b EXCEPT !.role = "TARGET", !.attr = "IN_PROGRESS"]
    BY <1>2, <1>4 DEF Ran, Started
  <2>2. bdb'.attr = "IN_PROGRESS"
    BY <2>1, <1>1 DEF Context
  <2>3. Remembers
    <3>1. story \in Story
      BY Same
    <3>2. story' = [story EXCEPT !.untold = @, !.cut = @ \/ net.touch = "scan"]
      BY <1>2, <1>4, <3>1 DEF Story
    <3> QED BY <3>1, <3>2 DEF Remembers, Story
  <2>4. Owing' /\ story' \in Story
    BY <2>2, <2>3, Same, Noted DEF BdbIInv, Owing, Remembers
  <2> QED BY <1>2, <1>3, <2>3, <2>4, Same DEF BdbIInv, TypeOK
<1>5. CASE ~CanStart(b)
  <2>1. bdb' = b
    BY <1>2, <1>5 DEF Ran, Started
  <2>2. story' = [story EXCEPT !.untold = @ \/ story.owed > 0, !.cut = @ \/ net.touch = "scan"]
    BY <1>2, <1>5
  <2>3. /\ story' \in Story
        /\ story'.owed = story.owed /\ (story.owed > 0 => story'.untold)
    BY <2>2, Same DEF Story
  <2>4. bdb'.attr # "IN_PROGRESS"
    BY <1>1, <2>1 DEF Status
  <2>5. Owing'
    BY <2>3, <2>4, Noted DEF Owing
  <2> QED BY <1>2, <1>3, <2>3, <2>5, Same DEF BdbIInv, TypeOK
<1> QED BY <1>4, <1>5

\* The other tasks: the confirmation of permit joining, finding's next peer,
\* and the direct join of a touch link target.
LEMMA OtherTasks ==
  ASSUME BdbIInv, PermitCnf \/ SimpleSend \/ DirectJoin
  PROVE  BdbIInv'
<1>1. CASE PermitCnf
  <2> DEFINE b == [bdb EXCEPT !.status = "SUCCESS"]
             c == IF bdb.on THEN Saved(b) ELSE b
             q == CASE bdb.state = "STEER" -> <<"STEER_FINISH">>
                    [] bdb.state = "FORMATION" -> <<"FORM_FINISH">>
                    [] OTHER -> <<>>
  <2>1. b \in Context /\ b.attr = bdb.attr
    BY Same, ContextFields, StatusNames
  <2>2. Ran(c, q) /\ tasks # <<>> /\ UNCHANGED <<later, net, left, story>>
    BY <1>1 DEF PermitCnf, Task
  <2>3. q \in Seq(Tasks)
    BY Names
  <2> HIDE DEF b, q
  <2>4. c \in Context /\ c.attr = bdb.attr
    BY <2>1, SavedTypes
  <2> HIDE DEF c
  <2> QED BY <2>2, <2>3, <2>4, Same, Passing
<1>2. CASE SimpleSend
  <2>1. tasks # <<>> /\ UNCHANGED <<later, net, left, story>>
    BY <1>2 DEF SimpleSend, Task
  <2>2. CASE bdb.queue > 0
    <3> DEFINE n == bdb.queue - 1
               b == [bdb EXCEPT !.queue = n, !.timer = "simple"]
    <3>1. n \in 0..(QueueSize - 1)
      BY <2>2, Same, Bounds DEF Context
    <3>2. Ran(b, <<"FB_REQ">>)
      BY <1>2, <2>2 DEF SimpleSend
    <3> HIDE DEF n
    <3>3. b \in Context /\ b.attr = bdb.attr
      BY <3>1, Same DEF Context
    <3> HIDE DEF b
    <3> QED BY <2>1, <3>2, <3>3, Same, Names, Passing
  <2>3. CASE ~(bdb.queue > 0)
    BY <1>2, <2>1, <2>3, Same, ContextFields, StatusNames, Names, Passing DEF SimpleSend
  <2> QED BY <2>2, <2>3
<1>3. CASE DirectJoin
  <2>1. tasks # <<>> /\ UNCHANGED <<later, left, story>>
    BY <1>3 DEF DirectJoin, Task
  <2>2. net' \in Network
    BY <1>3, Same, NetworkFields DEF DirectJoin
  <2>3. CASE net.touch = "off"
    BY <1>3, <2>1, <2>2, <2>3, Same, Names, Passing DEF DirectJoin
  <2>4. CASE net.touch # "off"
    <3>1. PICK how \in {"SUCC", "FAIL"} :
            Ran([bdb EXCEPT !.status = TouchStatus(bdb, how)], TouchTask(bdb, how))
      BY <1>3, <2>4 DEF DirectJoin
    <3>2. TouchStatus(bdb, how) \in Status /\ TouchTask(bdb, how) \in Seq(Tasks)
      BY Same, OutcomeTypes
    <3> QED BY <2>1, <2>2, <3>1, <3>2, Same, ContextFields, Passing
  <2> QED BY <2>3, <2>4
<1> QED BY <1>1, <1>2, <1>3

\* Starts by the host, by the light's timer and over BLE, and what comes to the
\* device from outside.
LEMMA Outside ==
  ASSUME BdbIInv, HostStart \/ SteerTimer \/ DirectCmd \/ JoinDirect \/ AddPeer \/ TargetScan
  PROVE  BdbIInv'
<1>0. /\ {"start", "retry", "scan", "direct", "peer"} \subseteq Happening
      /\ {"steer", "direct"} \subseteq Shot
  BY DEF Happening, Shot
<1>1. CASE HostStart
  <2>1. PICK kind \in DOMAIN Mode, role \in {"INITIATOR", "TARGET"} : Start(kind, role)
    BY <1>1 DEF HostStart
  <2>2. left' \in [Happening -> Nat] /\ UNCHANGED <<later, net>>
    BY <1>0, <1>1, HappensTypes DEF HostStart, BdbIInv
  <2> QED BY <2>1, <2>2, Starting, Same DEF BdbIInv, TypeOK
<1>2. CASE SteerTimer
  <2>1. Start("steer", "TARGET") /\ "steer" \in DOMAIN Mode /\ UNCHANGED net
    BY <1>2 DEF SteerTimer, Mode
  <2>2. left' \in [Happening -> Nat]
    BY <1>0, <1>2, HappensTypes DEF SteerTimer, BdbIInv
  <2>3. later' \in [Shot -> 0..MaxShots]
    BY <1>0, <1>2, ShotTypes DEF SteerTimer, BdbIInv
  <2> QED BY <2>1, <2>2, <2>3, Starting, Same DEF BdbIInv, TypeOK
<1>3. CASE DirectCmd
  <2>1. left' \in [Happening -> Nat] /\ UNCHANGED <<bdb, tasks, net, story>>
    BY <1>0, <1>3, HappensTypes DEF DirectCmd, BdbIInv
  <2>2. later' \in [Shot -> 0..MaxShots]
    BY <1>0, <1>3, ShotTypes DEF DirectCmd, BdbIInv
  <2> QED BY <2>1, <2>2, Same, NothingOwed DEF BdbIInv, TypeOK
<1>4. CASE JoinDirect
  <2>1. later' \in [Shot -> 0..MaxShots] /\ UNCHANGED <<bdb, tasks, left, story>>
    BY <1>0, <1>4, ShotTypes DEF JoinDirect, BdbIInv
  <2>2. net.ops \cup {"start"} \in SUBSET Op
    BY Same, NetworkFields DEF Op
  <2>3. net' \in Network
    BY <1>4, <2>2, Same, NetworkFields DEF JoinDirect
  <2> QED BY <2>1, <2>3, Same, NothingOwed DEF BdbIInv, TypeOK
<1>5. CASE AddPeer
  <2>1. left' \in [Happening -> Nat] /\ UNCHANGED <<tasks, later, net, story>>
    BY <1>0, <1>5, HappensTypes DEF AddPeer, BdbIInv
  <2>2. bdb.queue + 1 \in 0..(QueueSize - 1)
    BY <1>5, Same, Bounds DEF AddPeer, Context
  <2>3. bdb' \in Context /\ bdb'.attr = bdb.attr
    BY <1>5, <2>2, Same, ContextFields DEF AddPeer
  <2> QED BY <2>1, <2>3, Same, NothingOwed DEF BdbIInv, TypeOK
<1>6. CASE TargetScan
  <2>1. left' \in [Happening -> Nat] /\ UNCHANGED <<tasks, later, story>>
    BY <1>0, <1>6, HappensTypes DEF TargetScan, BdbIInv
  <2>2. bdb' = [bdb EXCEPT !.state = "TOUCHLINK", !.mode = @ \cup {"touchlink"}, !.role = "TARGET"]
    BY <1>6 DEF TargetScan
  <2>3. bdb' \in Context /\ bdb'.attr = bdb.attr
    BY <2>2, Same, Names DEF Context
  <2>4. net' \in Network
    <3>1. PICK stopped \in {{}, {"join"}} : net' = [net EXCEPT !.touch = "link", !.ops = @ \ stopped]
      BY <1>6 DEF TargetScan
    <3>2. net.ops \ stopped \in SUBSET Op
      BY Same, NetworkFields
    <3> QED BY <3>1, <3>2, Same, NetworkFields
  <2> QED BY <2>1, <2>3, <2>4, Same, NothingOwed DEF BdbIInv, TypeOK
<1> QED BY <1>1, <1>2, <1>3, <1>4, <1>5, <1>6

\* Asking for the descriptor of the trust center.
LEMMA AskTypes ==
  ASSUME BdbIInv, AskNode
  PROVE  net' \in Network
<1>1. net.node \in 0..MaxAsked /\ MaxAsked \in Nat
  BY Same, NetworkFields, Bounds
<1>2. (IF net.node < MaxAsked THEN net.node + 1 ELSE net.node) \in 0..MaxAsked
  BY <1>1
<1> QED BY <1>2, Same, NetworkFields DEF AskNode

\* The timers of the key exchange and of finding and binding, and the delays.
LEMMA TimerSteps ==
  ASSUME BdbIInv,
         KeyStart \/ KeyTimeout \/ FindTimeout \/ \E s \in Shot : TaskDelay(s)
  PROVE  BdbIInv'
<1>1. CASE KeyStart
  <2>1. net' \in Network /\ UNCHANGED <<tasks, left, story>>
    BY <1>1, AskTypes DEF KeyStart
  <2>2. later' \in [Shot -> 0..MaxShots]
    <3>1. "key" \in Shot BY DEF Shot
    <3> QED BY <1>1, <3>1, ShotTypes DEF KeyStart, BdbIInv
  <2>3. bdb' \in Context /\ bdb'.attr = bdb.attr
    BY <1>1, Same, Bounds DEF KeyStart, Context
  <2> QED BY <2>1, <2>2, <2>3, Same, NothingOwed DEF BdbIInv, TypeOK
<1>2. CASE KeyTimeout
  <2>1. UNCHANGED <<later, left, story>>
    BY <1>2 DEF KeyTimeout
  <2>2. CASE bdb.tries < MaxAttempts
    <3>1. net' \in Network /\ UNCHANGED tasks
      BY <1>2, <2>2, AskTypes DEF KeyTimeout
    <3>2. bdb' \in Context /\ bdb'.attr = bdb.attr
      <4>1. bdb.tries \in 0..MaxAttempts /\ MaxAttempts \in Nat
        BY Same, Bounds DEF Context
      <4>2. bdb.tries + 1 \in 0..MaxAttempts
        BY <2>2, <4>1
      <4> QED BY <1>2, <2>2, <4>2, Same DEF KeyTimeout, Context
    <3> QED BY <2>1, <3>1, <3>2, Same, NothingOwed DEF BdbIInv, TypeOK
  <2>3. CASE ~(bdb.tries < MaxAttempts) /\ net.joined
    <3>1. PICK ok \in BOOLEAN : /\ bdb' = [bdb EXCEPT !.leaving = ok]
                                /\ net' = [net EXCEPT !.leave = @ \/ ok]
      BY <1>2, <2>3 DEF KeyTimeout
    <3>2. UNCHANGED tasks
      BY <1>2, <2>3 DEF KeyTimeout
    <3>3. bdb' \in Context /\ bdb'.attr = bdb.attr
      BY <3>1, Same DEF Context
    <3>4. net' \in Network
      <4>1. (net.leave \/ ok) \in BOOLEAN OBVIOUS
      <4> QED BY <3>1, <4>1, Same, NetworkFields
    <3> QED BY <2>1, <3>2, <3>3, <3>4, Same, NothingOwed DEF BdbIInv, TypeOK
  <2>4. CASE ~(bdb.tries < MaxAttempts) /\ ~net.joined
    <3> DEFINE b == [bdb EXCEPT !.tries = 0]
    <3>1. Called(KeyDone(b, FALSE), KeyDoneTask(FALSE)) /\ UNCHANGED net
      BY <1>2, <2>4 DEF KeyTimeout
    <3>2. b \in Context /\ b.attr = bdb.attr
      BY Same, Bounds DEF Context
    <3> HIDE DEF b
    <3> QED BY <2>1, <3>1, <3>2, OutcomeTypes, Same, Passing
  <2> QED BY <2>2, <2>3, <2>4
<1>3. CASE FindTimeout
  <2> DEFINE b == [bdb EXCEPT !.timer = "off"]
  <2>0. UNCHANGED <<later, net, left, story>>
    BY <1>3 DEF FindTimeout
  <2>1. b \in Context /\ b.attr = bdb.attr
    BY Same, ContextFields
  <2>2. \/ Called([b EXCEPT !.status = "SUCCESS"], <<"FB_FINISH">>)
        \/ Called([b EXCEPT !.status = "NO_IDENTIFY_QUERY_RESPONSE"], <<"FB_FINISH">>)
        \/ Called(b, <<"SIMPLE_SEND">>)
    BY <1>3, Zenon DEF FindTimeout
  <2> HIDE DEF b
  <2> QED BY <2>0, <2>1, <2>2, ContextFields, StatusNames, Names, Same, Passing
<1>4. ASSUME NEW s \in Shot, TaskDelay(s)
      PROVE  BdbIInv'
  <2>1. later' \in [Shot -> 0..MaxShots]
    BY <1>4, ShotTypes DEF TaskDelay, BdbIInv
  <2>2. <<s>> \in Seq(Tasks)
    BY <1>4, Names DEF TaskDelay
  <2> QED BY <1>4, <2>1, <2>2, Same, Passing DEF TaskDelay
<1> QED BY <1>1, <1>2, <1>3, <1>4

\* An operation of the network layer is over.
LEMMA DevCnf ==
  ASSUME BdbIInv, NEW op \in Op, NEW ok \in BOOLEAN, StartDevCnf(op, ok)
  PROVE  BdbIInv'
<1> DEFINE on == [bdb EXCEPT !.on = TRUE, !.status = "SUCCESS"]
           c == op \notin OwnOp[bdb.state] \/ (bdb.state = "IDLE" /\ bdb.attr = "IN_PROGRESS")
<1>1. on \in Context /\ on.attr = bdb.attr
  BY Same, StatusNames DEF Context
<1>2. /\ UNCHANGED left
      /\ story' = [story EXCEPT !.late = @ \/ c, !.unheard = @ \/ (bdb.state = "IDLE" /\ ~ok)]
  BY DEF StartDevCnf
<1>3. c \in BOOLEAN
  OBVIOUS
<1> HIDE DEF c
<1>4. Remembers
  <2>1. story \in Story BY Same
  <2> QED BY <1>2, <1>3, <2>1 DEF Remembers, Story
<1>5. net' \in Network
  <2> DEFINE ops == net.ops \ {op}
             j == ok \/ (net.joined /\ op \notin {"start", "rejoin"})
             t == IF bdb.state = "TOUCHLINK" /\ ~ok THEN "off" ELSE net.touch
  <2>1. net' = [net EXCEPT !.ops = ops, !.joined = j, !.touch = t]
    BY DEF StartDevCnf
  <2>2. ops \in SUBSET Op /\ j \in BOOLEAN /\ t \in {"off", "scan", "link", "join"}
    BY Same DEF Network
  <2> HIDE DEF ops, j, t
  <2> QED BY <2>1, <2>2, Same DEF Network
<1>6. ASSUME NEW b \in Context, b.attr = bdb.attr, NEW q \in Seq(Tasks), Called(b, q),
             later' \in [Shot -> 0..MaxShots]
      PROVE  BdbIInv'
  BY <1>2, <1>4, <1>5, <1>6, Same, Passing
<1>7. CASE bdb.state = "IDLE"
  <2>1. PICK q \in {<<>>, <<"INFO_SAVE">>} :
          Called(IF ok THEN on ELSE [bdb EXCEPT !.status = "REJOIN_FAILURE"], Append(q, "REJOIN_DONE"))
    BY <1>7, Zenon DEF StartDevCnf
  <2>2. UNCHANGED later
    BY <1>7, Zenon DEF StartDevCnf
  <2> HIDE DEF on
  <2>3. LET b == IF ok THEN on ELSE [bdb EXCEPT !.status = "REJOIN_FAILURE"] IN
        b \in Context /\ b.attr = bdb.attr
    BY <1>1, Same, ContextFields, StatusNames
  <2>4. Append(q, "REJOIN_DONE") \in Seq(Tasks)
    <3>1. q \in Seq(Tasks) BY Names
    <3> QED BY <3>1, Names
  <2> QED BY <1>6, <2>1, <2>2, <2>3, <2>4, Same
<1>8. CASE bdb.state = "INIT"
  <2>1. Called([bdb EXCEPT !.ok = ok], <<"INIT_DONE">>) /\ UNCHANGED later
    BY <1>8, Zenon DEF StartDevCnf
  <2> QED BY <1>6, <2>1, Same, ContextFields, Names
<1>9. CASE bdb.state = "TOUCHLINK"
  <2>1. UNCHANGED later
    BY <1>9, Zenon DEF StartDevCnf
  <2>2. CASE ok
    <3>1. Called([bdb EXCEPT !.on = TRUE],
                 IF bdb.role = "TARGET" THEN <<"INFO_SAVE", "DIRECT_JOIN">> ELSE <<"INFO_SAVE">>)
      BY <1>9, <2>2, Zenon DEF StartDevCnf
    <3>2. (IF bdb.role = "TARGET" THEN <<"INFO_SAVE", "DIRECT_JOIN">> ELSE <<"INFO_SAVE">>) \in Seq(Tasks)
      <4>1. {"INFO_SAVE", "DIRECT_JOIN"} \subseteq Tasks BY Names
      <4> QED BY <4>1
    <3> QED BY <1>6, <2>1, <3>1, <3>2, Same, ContextFields
  <2>3. CASE ~ok
    <3>1. Called([bdb EXCEPT !.status = TouchStatus(bdb, "FAIL")], TouchTask(bdb, "FAIL"))
      BY <1>9, <2>3, Zenon DEF StartDevCnf
    <3>2. TouchStatus(bdb, "FAIL") \in Status /\ TouchTask(bdb, "FAIL") \in Seq(Tasks)
      BY Same, OutcomeTypes
    <3> QED BY <1>6, <2>1, <3>1, <3>2, Same, ContextFields
  <2> QED BY <2>2, <2>3
<1>10. CASE bdb.state = "STEER"
  <2>1. CASE ok
    <3>1. Called(on, <<>>) /\ \E s \in {"RETRIEVE", "PERMITJOIN"} : Arm(s)
      BY <1>10, <2>1, Zenon DEF StartDevCnf
    <3> HIDE DEF on
    <3>2. {"RETRIEVE", "PERMITJOIN"} \subseteq Shot
      BY DEF Shot
    <3>3. later' \in [Shot -> 0..MaxShots]
      BY <3>1, <3>2, ShotTypes DEF BdbIInv
    <3> QED BY <1>1, <1>6, <3>1, <3>3, Names
  <2>2. CASE ~ok
    <3>1. Called([bdb EXCEPT !.status = "NO_NETWORK"], <<"STEER_FINISH">>) /\ UNCHANGED later
      BY <1>10, <2>2, Zenon DEF StartDevCnf
    <3> QED BY <1>6, <3>1, Same, ContextFields, StatusNames, Names
  <2> QED BY <2>1, <2>2
<1>11. CASE bdb.state = "FORMATION"
  <2>1. /\ Called(IF ok THEN on ELSE [bdb EXCEPT !.status = "FORMATION_FAILURE"],
                  IF ok THEN <<"FORM_PERMITJOIN">> ELSE <<"FORM_FINISH">>)
        /\ UNCHANGED later
    BY <1>11, Zenon DEF StartDevCnf
  <2> HIDE DEF on
  <2>2. LET b == IF ok THEN on ELSE [bdb EXCEPT !.status = "FORMATION_FAILURE"] IN
        b \in Context /\ b.attr = bdb.attr
    BY <1>1, Same, ContextFields, StatusNames
  <2>3. (IF ok THEN <<"FORM_PERMITJOIN">> ELSE <<"FORM_FINISH">>) \in Seq(Tasks)
    BY Names
  <2> QED BY <1>6, <2>1, <2>2, <2>3, Same
<1>12. CASE bdb.state = "FINDORBIND"
  <2>1. UNCHANGED <<bdb, tasks, later>>
    BY <1>12, Zenon DEF StartDevCnf
  <2> QED BY <1>2, <1>4, <1>5, <2>1, Same, NothingOwed DEF BdbIInv, TypeOK
<1> QED
  <2>1. bdb.state \in {"INIT", "IDLE", "TOUCHLINK", "STEER", "FORMATION", "FINDORBIND"}
    BY Same, Names DEF Context
  <2> QED BY <2>1, <1>7, <1>8, <1>9, <1>10, <1>11, <1>12

\* The answers of the trust center, and the end of the leave they may lead to.
LEMMA KeyAnswers ==
  ASSUME BdbIInv, NodeDescResp \/ (\E ok \in BOOLEAN : KeyResult(ok)) \/ LeaveCnf
  PROVE  BdbIInv'
<1> DEFINE c == bdb.state # "STEER" \/ bdb.timer # "key"
<1>1. c \in BOOLEAN
  OBVIOUS
<1>2. CASE NodeDescResp
  <2>1. UNCHANGED <<later, left>> /\ \E l \in BOOLEAN : Late(l)
    BY <1>1, <1>2 DEF NodeDescResp
  <2>2. net.node - 1 \in 0..MaxAsked
    <3>1. net.node \in 0..MaxAsked /\ net.node > 0 /\ MaxAsked \in Nat
      BY <1>2, Same, NetworkFields, Bounds DEF NodeDescResp
    <3> QED BY <3>1
  <2>3. net' \in Network
    <3> DEFINE i == net.node - 1
    <3>1. net' = [net EXCEPT !.node = i] \/ net' = [net EXCEPT !.node = i, !.key = TRUE]
      BY <1>2 DEF NodeDescResp
    <3>2. i \in 0..MaxAsked
      BY <2>2
    <3> HIDE DEF i
    <3>3. [net EXCEPT !.node = i] \in Network /\ [net EXCEPT !.node = i, !.key = TRUE] \in Network
      BY <3>2, Same, NetworkFields
    <3> QED BY <3>1, <3>3
  <2>4. \/ UNCHANGED <<bdb, tasks>>
        \/ bdb' = [bdb EXCEPT !.on = FALSE] /\ UNCHANGED tasks
        \/ Called(KeyDone(bdb, TRUE), KeyDoneTask(TRUE))
    BY <1>2 DEF NodeDescResp
  <2>5. CASE UNCHANGED <<bdb, tasks>>
    BY <2>1, <2>3, <2>5, Same, NothingOwed DEF BdbIInv, TypeOK
  <2>6. CASE bdb' = [bdb EXCEPT !.on = FALSE] /\ UNCHANGED tasks
    <3>1. bdb' \in Context /\ bdb'.attr = bdb.attr
      BY <2>6, Same, ContextFields
    <3> QED BY <2>1, <2>3, <2>6, <3>1, Same, NothingOwed DEF BdbIInv, TypeOK
  <2>7. CASE Called(KeyDone(bdb, TRUE), KeyDoneTask(TRUE))
    BY <2>1, <2>3, <2>7, OutcomeTypes, Same, Passing
  <2> QED BY <2>4, <2>5, <2>6, <2>7
<1>3. ASSUME NEW ok \in BOOLEAN, KeyResult(ok)
      PROVE  BdbIInv'
  <2>1. UNCHANGED <<later, left>> /\ \E l \in BOOLEAN : Late(l)
    BY <1>1, <1>3 DEF KeyResult
  <2>2. net' \in Network
    BY <1>3, Same, NetworkFields DEF KeyResult
  <2>3. Called(KeyDone(bdb, ok), KeyDoneTask(ok))
    BY <1>3 DEF KeyResult
  <2> QED BY <2>1, <2>2, <2>3, OutcomeTypes, Same, Passing
<1>4. CASE LeaveCnf
  <2>1. net' \in Network
    BY <1>4, Same, Bounds DEF LeaveCnf, Network
  <2>2. later' \in [Shot -> 0..MaxShots]
    <3>1. "reset" \in Shot BY DEF Shot
    <3> QED BY <1>4, <3>1, ShotTypes DEF LeaveCnf, BdbIInv
  <2>3. UNCHANGED <<bdb, tasks, left, story>>
    BY <1>4 DEF LeaveCnf
  <2> QED BY <2>1, <2>2, <2>3, Same, NothingOwed DEF BdbIInv, TypeOK
<1> QED BY <1>2, <1>3, <1>4

\* The answers of the peers that finding asked.
LEMMA PeerAnswers ==
  ASSUME BdbIInv, SimpleDescResp \/ IeeeAddrResp
  PROVE  BdbIInv'
<1> DEFINE c == bdb.state # "FINDORBIND"
<1>1. c \in BOOLEAN
  OBVIOUS
<1>2. ASSUME NEW b \in Context, b.attr = bdb.attr, Binding(b), net' \in Network,
             UNCHANGED <<later, left>>, \E l \in BOOLEAN : Late(l)
      PROVE  BdbIInv'
  <2> DEFINE x == [b EXCEPT !.match = FALSE]
             y == [b EXCEPT !.match = FALSE, !.status = "BINDING_TABLE_FULL"]
  <2>1. x \in Context /\ x.attr = b.attr /\ y \in Context /\ y.attr = b.attr
    BY StatusNames DEF Context
  <2>2. Called(y, <<"FB_FINISH">>) \/ Called(x, <<"SIMPLE_SEND">>)
    BY <1>2 DEF Binding
  <2> HIDE DEF x, y
  <2>3. <<"FB_FINISH">> \in Seq(Tasks) /\ <<"SIMPLE_SEND">> \in Seq(Tasks)
    BY Names
  <2>4. later' \in [Shot -> 0..MaxShots] /\ left' \in [Happening -> Nat]
    BY <1>2, Same
  <2>5. CASE Called(y, <<"FB_FINISH">>)
    BY <1>2, <2>1, <2>3, <2>4, <2>5, Passing
  <2>6. CASE Called(x, <<"SIMPLE_SEND">>)
    BY <1>2, <2>1, <2>3, <2>4, <2>6, Passing
  <2> QED BY <2>2, <2>5, <2>6
<1>3. CASE SimpleDescResp
  <2> DEFINE n == [net EXCEPT !.simple = @ - 1]
             b == [bdb EXCEPT !.timer = "off"]
  <2>1. UNCHANGED <<later, left>> /\ \E l \in BOOLEAN : Late(l)
    BY <1>1, <1>3 DEF SimpleDescResp
  <2>2. net.simple - 1 \in 0..MaxAsked
    <3>1. net.simple \in 0..MaxAsked /\ net.simple > 0 /\ MaxAsked \in Nat
      BY <1>3, Same, NetworkFields, Bounds DEF SimpleDescResp
    <3> QED BY <3>1
  <2>3. n \in Network
    BY <2>2, Same, NetworkFields
  <2>4. b \in Context /\ b.attr = bdb.attr
    BY Same, ContextFields
  <2>5. \/ Called(bdb, <<"SIMPLE_SEND">>) /\ net' = n
        \/ UNCHANGED <<bdb, tasks>> /\ net' = n
        \/ Called(b, <<"SIMPLE_SEND">>) /\ net' = n
        \/ Binding(b) /\ net' = n
        \/ Called([b EXCEPT !.match = TRUE], <<>>) /\ net' = [n EXCEPT !.ieee = TRUE]
    BY <1>3, Zenon DEF SimpleDescResp
  <2> HIDE DEF n, b
  <2>6. CASE (Called(bdb, <<"SIMPLE_SEND">>) \/ Called(b, <<"SIMPLE_SEND">>)) /\ net' = n
    BY <2>1, <2>3, <2>4, <2>6, Names, Same, Passing
  <2>7. CASE UNCHANGED <<bdb, tasks>> /\ net' = n
    BY <2>1, <2>3, <2>7, Same, NothingOwed DEF BdbIInv, TypeOK
  <2>8. CASE Binding(b) /\ net' = n
    BY <1>2, <2>1, <2>3, <2>4, <2>8
  <2>9. CASE Called([b EXCEPT !.match = TRUE], <<>>) /\ net' = [n EXCEPT !.ieee = TRUE]
    <3>1. net' \in Network
      BY <2>3, <2>9, NetworkFields
    <3> QED BY <2>1, <2>4, <2>9, <3>1, ContextFields, Names, Same, Passing
  <2> QED BY <2>5, <2>6, <2>7, <2>8, <2>9
<1>4. CASE IeeeAddrResp
  <2>1. UNCHANGED <<later, left>> /\ \E l \in BOOLEAN : Late(l)
    BY <1>1, <1>4 DEF IeeeAddrResp
  <2>2. net' \in Network
    BY <1>4, Same, NetworkFields DEF IeeeAddrResp
  <2>3. Binding(bdb) \/ UNCHANGED <<bdb, tasks>>
    BY <1>4 DEF IeeeAddrResp
  <2>4. CASE Binding(bdb)
    BY <1>2, <2>1, <2>2, <2>4, Same
  <2>5. CASE UNCHANGED <<bdb, tasks>>
    BY <2>1, <2>2, <2>5, Same, NothingOwed DEF BdbIInv, TypeOK
  <2> QED BY <2>3, <2>4, <2>5
<1> QED BY <1>3, <1>4

\* Touch link, as far as commissioning sees it.
LEMMA TouchSteps ==
  ASSUME BdbIInv, TouchOver \/ TouchJoin
  PROVE  BdbIInv'
<1>1. ASSUME NEW how, TouchFinish(how)
      PROVE  BdbIInv'
  <2>1. /\ Called([bdb EXCEPT !.status = TouchStatus(bdb, how)], TouchTask(bdb, how))
        /\ net' = [net EXCEPT !.touch = "off"]
        /\ UNCHANGED <<later, left, story>>
    BY <1>1 DEF TouchFinish
  <2>2. TouchStatus(bdb, how) \in Status /\ TouchTask(bdb, how) \in Seq(Tasks)
    BY Same, OutcomeTypes
  <2>3. net' \in Network
    BY <2>1, Same, NetworkFields
  <2> QED BY <2>1, <2>2, <2>3, Same, ContextFields, Passing
<1>2. CASE TouchJoin
  <2>1. net' = [net EXCEPT !.touch = "join", !.ops = @ \cup {"touch"}]
        /\ UNCHANGED <<bdb, tasks, later, left, story>>
    BY <1>2 DEF TouchJoin
  <2>2. net.ops \cup {"touch"} \in SUBSET Op
    BY Same, NetworkFields DEF Op
  <2>3. net' \in Network
    BY <2>1, <2>2, Same, NetworkFields
  <2> QED BY <2>1, <2>3, Same, NothingOwed DEF BdbIInv, TypeOK
<1> QED BY <1>1, <1>2 DEF TouchOver

\* A device that has just started: it owes nothing.
LEMMA FreshTypes ==
  ASSUME NEW new \in BOOLEAN
  PROVE  /\ FreshBdb(new) \in Context /\ FreshTasks(new) \in Seq(Tasks)
         /\ FreshNet(new) \in Network /\ NoShots \in [Shot -> 0..MaxShots]
<1>1. FreshBdb(new) \in Context
  BY Names, StatusNames, Bounds DEF FreshBdb, Context
<1>2. FreshTasks(new) \in Seq(Tasks)
  BY Names DEF FreshTasks
<1>3. FreshNet(new) \in Network
  BY Bounds DEF FreshNet, Network, Op
<1>4. NoShots \in [Shot -> 0..MaxShots]
  BY Bounds DEF NoShots
<1> QED BY <1>1, <1>2, <1>3, <1>4

\* The restart after a leave.
LEMMA RestartStep ==
  ASSUME BdbIInv, Restart
  PROVE  BdbIInv'
<1>1. (~net.joined) \in BOOLEAN
  BY Same DEF Network
<1>2. /\ bdb' = FreshBdb(~net.joined) /\ tasks' = FreshTasks(~net.joined)
      /\ net' = FreshNet(~net.joined) /\ later' = NoShots
      /\ story' = [Told EXCEPT !.unheard = FALSE] /\ UNCHANGED left
  BY DEF Restart
<1>3. bdb' \in Context /\ tasks' \in Seq(Tasks) /\ net' \in Network /\ later' \in [Shot -> 0..MaxShots]
  BY <1>1, <1>2, FreshTypes
<1>4. story' \in Story /\ story'.owed = 0
  BY <1>2, Same, ToldNote DEF Story
<1> QED BY <1>2, <1>3, <1>4, Same, Repaid DEF BdbIInv, TypeOK

\* The inductive invariant holds at the start of the device.
LEMMA CommissioningStarts ==
  ASSUME Init
  PROVE  BdbIInv
<1>1. PICK w \in Worlds : /\ bdb = FreshBdb(w.new) /\ tasks = FreshTasks(w.new)
                          /\ net = FreshNet(w.new) /\ left = w.left
  BY DEF Init
<1>2. w.new \in BOOLEAN /\ w.left \in [Happening -> Nat]
  BY Bounds
<1>3. later = NoShots /\ story = [owed |-> 0, untold |-> FALSE, late |-> FALSE, swapped |-> FALSE,
                                   unheard |-> FALSE, cut |-> FALSE]
  BY DEF Init
<1>4. TypeOK
  BY <1>1, <1>2, <1>3, FreshTypes DEF TypeOK, Story
<1>5. Owing
  BY <1>3 DEF Owing
<1> QED BY <1>4, <1>5 DEF BdbIInv

\* Every step keeps it.
LEMMA CommissioningSteps ==
  ASSUME BdbIInv, [Next]_vars
  PROVE  BdbIInv'
<1>1. CASE RunTask
  BY <1>1, PlainTasks, StartTasks, FinishTasks, FallBack, OtherTasks DEF RunTask
<1>2. CASE Timers
  BY <1>2, TimerSteps, Outside, RestartStep DEF Timers
<1>3. CASE Done
  BY <1>3, DevCnf DEF Done
<1>4. CASE TouchOver \/ TouchJoin
  BY <1>4, TouchSteps
<1>5. CASE NodeDescResp \/ (\E ok \in BOOLEAN : KeyResult(ok)) \/ LeaveCnf
  BY <1>5, KeyAnswers
<1>6. CASE SimpleDescResp \/ IeeeAddrResp
  BY <1>6, PeerAnswers
<1>7. CASE HostStart \/ DirectCmd \/ AddPeer \/ TargetScan
  BY <1>7, Outside
<1>8. CASE UNCHANGED vars
  BY <1>8, Same, NothingOwed DEF vars, BdbIInv, TypeOK
<1> QED BY <1>1, <1>2, <1>3, <1>4, <1>5, <1>6, <1>7, <1>8 DEF Next

-----------------------------------------------------------------------------
(* A device that is in no network: who cares for it, and where its attempt is *)

\* The statuses after which the light sets its timer (zbdemo_bdbCommissioningCb).
Arming == {"NO_NETWORK", "TCLK_EX_FAILURE", "TARGET_FAILURE"}

\* No attempt is in progress: bdb_topLevelCommissioning accepts one.
Free == bdb.attr # "IN_PROGRESS"

\* The application's timer is set, and will start the next attempt.
Armed == later["steer"] > 0

\* What the attempts of a light that has been in no network may post.
Own == {"INIT_DONE", "START", "NO_RESP", "TL_FINISH", "STEER_FINISH", "FORM_FINISH"}

\* A light that has been in no network since its start: what it has never done.
Unjoined ==
  /\ ~net.joined /\ ~bdb.on /\ bdb.fn /\ bdb.timer = "off"
  /\ \A s \in {"RETRIEVE", "PERMITJOIN", "key"} : later[s] = 0
  /\ bdb.mode \in {{"steer"}, {"form"}, {"steer", "touchlink"}, {"form", "touchlink"}}
  /\ tasks \in Seq(Own)

\* In each state, why its attempt will end with the timer set, or with an
\* operation of the network layer still to be answered.
Course ==
  /\ bdb.state \in {"INIT", "IDLE", "TOUCHLINK", "STEER", "FORMATION"}
  /\ bdb.state = "INIT" => tasks = <<"INIT_DONE">> /\ net.ops = {} /\ net.touch = "off"
  /\ bdb.state = "IDLE" /\ Free => Armed \/ net.ops # {}
  /\ bdb.state = "STEER" => bdb.mode = {"steer"} /\ (net.ops = {} => bdb.status \in Arming)
  /\ bdb.state = "FORMATION" => "form" \in bdb.mode
  /\ bdb.state = "TOUCHLINK" =>
       "touchlink" \in bdb.mode /\ (net.touch = "off" => Armed \/ bdb.status \in Arming)
  /\ net.touch = "scan" => bdb.state = "TOUCHLINK" /\ Armed
  /\ "form" \in bdb.mode => Armed
  /\ "touchlink" \in bdb.mode /\ bdb.role = "INITIATOR" => Armed

Newcomer == Unjoined /\ Course

\* Nothing is to be done: the device is in a network, will restart, has failed to
\* start, or its network layer joins again, or has failed to and will be told to.
Cared ==
  \/ net.joined \/ later["reset"] > 0 \/ ~bdb.ok \/ story.unheard
  \/ net.ops \cap {"start", "rejoin"} # {}

\* What KeepsTrying excepts for good.
Misled == story.late \/ story.swapped \/ story.cut

\* The inductive invariant of KeepsTrying.
TryIInv == BdbIInv /\ (Misled \/ Cared \/ Newcomer)

-----------------------------------------------------------------------------
(* What a step leaves alone *)

\* The state's types and the timers nobody holds.
LEMMA Parts ==
  ASSUME BdbIInv
  PROVE  /\ bdb \in Context /\ net \in Network /\ story \in Story
         /\ later \in [Shot -> 0..MaxShots] /\ MaxShots \in Nat \ {0}
         /\ Shot = {"RETRIEVE", "PERMITJOIN", "key", "steer", "direct", "reset"}
BY Same, Bounds DEF Shot

\* Arming a timer leaves the others alone, and leaves one that is set set.
LEMMA Arms ==
  ASSUME BdbIInv, NEW s \in Shot, NEW c, ArmIf(c, s) \/ Arm(s)
  PROVE  /\ \A t \in Shot \ {s} : later'[t] = later[t]
         /\ Armed => Armed'
         /\ s = "steer" /\ (c \/ Arm(s)) => Armed'
<1>1. later \in [Shot -> 0..MaxShots] /\ MaxShots \in Nat \ {0} /\ "steer" \in Shot
  BY Parts
<1>2. CASE Arm(s)
  BY <1>1, <1>2 DEF Arm, Armed
<1>3. CASE later' = later /\ ~c /\ ~Arm(s)
  BY <1>3 DEF Armed
<1> QED BY <1>2, <1>3 DEF ArmIf

\* What the application does when it is told: it arms its timer or asks for a
\* rejoin.
LEMMA Hears ==
  ASSUME BdbIInv, NEW s, AppHears(s)
  PROVE  /\ \A t \in Shot \ {"steer"} : later'[t] = later[t]
         /\ Armed \/ s \in Arming => Armed'
         /\ net'.joined = net.joined /\ net'.touch = net.touch
         /\ net.ops \subseteq net'.ops
         /\ s = "REJOIN_FAILURE" => "rejoin" \in net'.ops
<1>1. "steer" \in Shot
  BY Parts
<1>2. ArmIf(s \in Arming, "steer")
  BY DEF AppHears, Arming
<1>3. net' = [net EXCEPT !.ops = IF s = "REJOIN_FAILURE" THEN @ \cup {"rejoin"} ELSE @]
  BY DEF AppHears
<1>4. /\ net'.joined = net.joined /\ net'.touch = net.touch
      /\ net'.ops = IF s = "REJOIN_FAILURE" THEN net.ops \cup {"rejoin"} ELSE net.ops
  BY <1>3, Parts DEF Network
<1> QED BY <1>1, <1>2, <1>4, Arms

\* The fields a start, a phase and an outcome leave alone.
LEMMA OkKept ==
  ASSUME NEW b \in Context
  PROVE  /\ \A r : Started(b, r).ok = b.ok
         /\ \A p : Entered(b, p).ok = b.ok
         /\ \A k : KeyDone(b, k).ok = b.ok
         /\ Saved(b).ok = b.ok
BY DEF Context, Started, Entered, KeyDone, Saved

\* The outcomes of touch link for a device that is new.
LEMMA TouchOutcomes ==
  ASSUME NEW b, NEW how, b.fn
  PROVE  /\ how = "NO_SERVER" => TouchStatus(b, how) = "NO_SCAN_RESPONSE" /\ TouchTask(b, how) = <<"NO_RESP">>
         /\ how \in {"FAIL", "BUSY"} => TouchStatus(b, how) = "TARGET_FAILURE" /\ TouchTask(b, how) = <<"TL_FINISH">>
BY DEF TouchStatus, TouchTask

-----------------------------------------------------------------------------
(* A device that is cared for stays so *)

\* A step that leaves alone all that a device is cared for by.
Steady ==
  /\ net'.joined = net.joined /\ net.ops \cap {"start", "rejoin"} \subseteq net'.ops
  /\ later'["reset"] = later["reset"] /\ bdb'.ok = bdb.ok
  /\ story.unheard => story'.unheard

\* It stays cared for, and misled if it was.
LEMMA SteadyCared ==
  ASSUME Steady, Cared
  PROVE  Cared'
BY DEF Steady, Cared

\* Telling the application keeps the device cared for: of a rejoin that failed it
\* hears, and asks for another.
LEMMA ConfirmCared ==
  ASSUME BdbIInv, NEW b \in Context, b.ok = bdb.ok, Confirm(b, "IDLE"), Cared
  PROVE  Cared'
<1>1. bdb'.ok = bdb.ok
  BY DEF Confirm, Ran, Context
<1>2. AppHears(b.status)
  BY DEF Confirm
<1>3. /\ net'.joined = net.joined /\ net.ops \subseteq net'.ops
      /\ b.status = "REJOIN_FAILURE" => "rejoin" \in net'.ops
      /\ later'["reset"] = later["reset"]
  BY <1>2, Hears, Parts
<1>4. story.unheard => story'.unheard \/ b.status = "REJOIN_FAILURE"
  BY Parts, ConfirmNotes
<1> QED BY <1>1, <1>3, <1>4 DEF Cared

\* So does entering the next phase, or ending the attempt.
LEMMA PhaseCared ==
  ASSUME BdbIInv, NEW p, NextPhase(p), Cared
  PROVE  Cared'
<1>1. bdb \in Context
  BY Parts
<1>2. CASE Confirm(bdb, "IDLE")
  BY <1>1, <1>2, ConfirmCared
<1>3. CASE /\ Ran(Entered(bdb, p), <<>>)
           /\ net' = [net EXCEPT !.ops = @ \cup PhaseOp(p)] /\ UNCHANGED <<later, left, story>>
  <2>1. bdb'.ok = bdb.ok
    BY <1>1, <1>3, OkKept DEF Ran
  <2>2. net'.joined = net.joined /\ net.ops \subseteq net'.ops
    BY <1>3, Parts DEF Network
  <2> QED BY <1>3, <2>1, <2>2, SteadyCared DEF Steady
<1> QED BY <1>2, <1>3, Zenon DEF NextPhase

\* A start.
LEMMA StartCared ==
  ASSUME BdbIInv, NEW kind \in DOMAIN Mode, NEW role, Start(kind, role),
         net' = net, later'["reset"] = later["reset"], Cared
  PROVE  Cared'
<1> DEFINE b == [bdb EXCEPT !.mode = Mode[kind]]
<1>1. Mode[kind] \in SUBSET {"steer", "form", "find", "touchlink"}
  BY DEF Mode
<1>2. b \in Context /\ b.ok = bdb.ok
  BY <1>1, Parts DEF Context
<1>3. bdb' = Started(b, role)
  BY DEF Start, Called
<1>4. story' = IF CanStart(b) THEN [story EXCEPT !.owed = @ + 1]
               ELSE [story EXCEPT !.swapped = @ \/ b.mode # bdb.mode]
  BY DEF Start
<1> HIDE DEF b
<1>5. story'.unheard = story.unheard
  BY <1>4, Parts DEF Story
<1> QED BY <1>2, <1>3, <1>5, OkKept, SteadyCared DEF Steady

\* The tasks.
LEMMA TaskCared ==
  ASSUME BdbIInv, Cared, RunTask
  PROVE  Cared'
<1>1. /\ bdb \in Context /\ net \in Network /\ story \in Story
      /\ Shot = {"RETRIEVE", "PERMITJOIN", "key", "steer", "direct", "reset"}
  BY Parts
<1>2. ASSUME UNCHANGED <<later, net, story>>, bdb'.ok = bdb.ok PROVE Cared'
  BY <1>2, SteadyCared DEF Steady
<1>3. CASE Dropped \/ PermitJoin
  BY <1>2, <1>3, Zenon DEF Dropped, PermitJoin, Ran
<1>4. CASE FormPermitJoin \/ InfoSave
  BY <1>1, <1>2, <1>4, OkKept DEF FormPermitJoin, InfoSave, Ran, Context
<1>5. CASE PermitCnf
  <2> DEFINE b == [bdb EXCEPT !.status = "SUCCESS"]
  <2>1. b \in Context /\ b.ok = bdb.ok
    BY <1>1, StatusNames DEF Context
  <2>2. bdb' = (IF bdb.on THEN Saved(b) ELSE b) /\ UNCHANGED <<later, net, story>>
    BY <1>5 DEF PermitCnf, Ran
  <2> HIDE DEF b
  <2> QED BY <1>2, <2>1, <2>2, OkKept
<1>6. CASE SimpleSend
  BY <1>1, <1>2, <1>6 DEF SimpleSend, Ran, Context
<1>7. CASE InitDone
  <2>1. bdb'.ok = bdb.ok
    BY <1>1, <1>7 DEF InitDone, Ran, Context
  <2>2. \E c : ArmIf(c, "steer")
    BY <1>7 DEF InitDone
  <2>3. later'["reset"] = later["reset"]
    BY <1>1, <2>2, Arms
  <2> QED BY <1>7, <2>1, <2>3, SteadyCared DEF InitDone, Steady
<1>8. CASE Retrieve
  <2>1. later'["reset"] = later["reset"]
    BY <1>1, <1>8, Arms DEF Retrieve
  <2> QED BY <1>8, <2>1, SteadyCared DEF Retrieve, Steady, Ran
<1>9. CASE FindRequest \/ DirectJoin
  <2>1. net'.joined = net.joined /\ net'.ops = net.ops /\ bdb'.ok = bdb.ok
    BY <1>1, <1>9 DEF FindRequest, DirectJoin, Ran, Network, Context
  <2> QED BY <1>9, <2>1, SteadyCared DEF FindRequest, DirectJoin, Steady
<1>10. CASE TouchNoResp
  <2> DEFINE b == [bdb EXCEPT !.mode = @ \ {"touchlink"}, !.state = "IDLE", !.attr = bdb.status]
  <2>1. b \in Context /\ b.ok = bdb.ok
    BY <1>1, Names DEF Context
  <2>2. bdb' = Started(b, "TARGET") /\ UNCHANGED <<later, net>>
    BY <1>10 DEF TouchNoResp, Ran
  <2>3. \E u, c : story' = [story EXCEPT !.untold = u, !.cut = c]
    BY <1>10, Zenon DEF TouchNoResp
  <2> HIDE DEF b
  <2>4. story'.unheard = story.unheard
    BY <1>1, <2>3 DEF Story
  <2> QED BY <2>1, <2>2, <2>4, OkKept, SteadyCared DEF Steady
<1>11. ASSUME Ran([bdb EXCEPT !.attr = "NO_NETWORK"], <<>>), AppHears("NO_NETWORK"), story' = Told
       PROVE  Cared'
  <2>1. bdb'.ok = bdb.ok
    BY <1>1, <1>11 DEF Ran, Context
  <2> QED BY <1>1, <1>11, <2>1, Hears, ToldNote, SteadyCared DEF Steady
<1>12. ASSUME NEW s, NEW ops, net' = [net EXCEPT !.ops = @ \cup ops],
              bdb' = [bdb EXCEPT !.state = s] \/ bdb' = Entered(bdb, s), UNCHANGED <<later, story>>
       PROVE  Cared'
  BY <1>1, <1>12, OkKept, SteadyCared DEF Steady, Network, Context
<1>13. CASE CommissionStart
  <2>1. CASE "steer" \in bdb.mode
    <3>1. bdb' = [bdb EXCEPT !.state = "STEER"] /\ UNCHANGED <<later, story>>
          /\ net' = [net EXCEPT !.ops = IF bdb.on THEN @ ELSE @ \cup {"join"}]
      BY <1>13, <2>1 DEF CommissionStart, Ran
    <3>2. net' = [net EXCEPT !.ops = @ \cup (IF bdb.on THEN {} ELSE {"join"})]
      BY <1>1, <3>1 DEF Network
    <3> QED BY <1>12, <3>1, <3>2
  <2>2. CASE "steer" \notin bdb.mode
    BY <1>11, <1>12, <1>13, <2>2, Zenon DEF CommissionStart, Ran
  <2> QED BY <2>1, <2>2
<1>14. CASE TouchStart
  <2>1. CASE bdb.role = "TARGET"
    BY <1>11, <1>14, <2>1, Zenon DEF TouchStart
  <2>2. CASE bdb.role # "TARGET"
    <3>1. UNCHANGED <<later, story>> /\ net'.joined = net.joined /\ net'.ops = net.ops
      BY <1>1, <1>14, <2>2 DEF TouchStart, Network
    <3>2. bdb'.ok = bdb.ok
      BY <1>1, <1>14, <2>2 DEF TouchStart, Ran, Context
    <3> QED BY <3>1, <3>2, SteadyCared DEF Steady
  <2> QED BY <2>1, <2>2
<1>15. CASE RejoinDone \/ TouchDone
  BY <1>1, <1>15, ConfirmCared DEF RejoinDone, TouchDone
<1>16. CASE FindFinish
  <2>1. [bdb EXCEPT !.queue = 0] \in Context /\ [bdb EXCEPT !.queue = 0].ok = bdb.ok
    BY <1>1, Bounds DEF Context
  <2> QED BY <1>16, <2>1, ConfirmCared DEF FindFinish
<1>17. CASE SteerFinish \/ FormFinish
  BY <1>17, PhaseCared DEF SteerFinish, FormFinish
<1> QED BY <1>3, <1>4, <1>5, <1>6, <1>7, <1>8, <1>9, <1>10, <1>13, <1>14, <1>15, <1>16, <1>17 DEF RunTask

\* The timers but for the restart, and the host.
LEMMA TimerCared ==
  ASSUME BdbIInv, Cared, Timers \/ HostStart, ~Restart
  PROVE  Cared'
<1>1. /\ bdb \in Context /\ net \in Network /\ later \in [Shot -> 0..MaxShots]
      /\ Shot = {"RETRIEVE", "PERMITJOIN", "key", "steer", "direct", "reset"}
  BY Parts
<1>2. CASE HostStart
  BY <1>2, StartCared DEF HostStart
<1>3. CASE SteerTimer
  <2>1. "steer" \in DOMAIN Mode
    BY DEF Mode
  <2> QED BY <1>1, <1>3, <2>1, StartCared DEF SteerTimer
<1>4. AskNode => net'.joined = net.joined /\ net'.ops = net.ops
  BY <1>1 DEF AskNode, Network
<1>5. CASE KeyStart
  BY <1>1, <1>4, <1>5, SteadyCared DEF KeyStart, Steady, Context
<1>6. CASE KeyTimeout
  <2>1. net'.joined = net.joined /\ net'.ops = net.ops
    BY <1>1, <1>4, <1>6 DEF KeyTimeout, Network
  <2>2. [bdb EXCEPT !.tries = 0] \in Context /\ [bdb EXCEPT !.tries = 0].ok = bdb.ok
    BY <1>1, Bounds DEF Context
  <2>3. bdb'.ok = bdb.ok
    <3>1. CASE bdb' = [bdb EXCEPT !.tries = @ + 1]
      BY <1>1, <3>1 DEF Context
    <3>2. CASE \E ok \in BOOLEAN : bdb' = [bdb EXCEPT !.leaving = ok]
      BY <1>1, <3>2 DEF Context
    <3>3. CASE bdb' = KeyDone([bdb EXCEPT !.tries = 0], FALSE)
      BY <2>2, <3>3, OkKept
    <3> QED BY <1>6, <3>1, <3>2, <3>3, Zenon DEF KeyTimeout, Called
  <2> QED BY <1>6, <2>1, <2>3, SteadyCared DEF KeyTimeout, Steady
<1>7. CASE FindTimeout
  <2>1. LET b == [bdb EXCEPT !.timer = "off"] IN
        bdb' \in {b, [b EXCEPT !.status = "SUCCESS"], [b EXCEPT !.status = "NO_IDENTIFY_QUERY_RESPONSE"]}
    BY <1>7 DEF FindTimeout, Called
  <2>2. bdb'.ok = bdb.ok
    BY <1>1, <2>1 DEF Context
  <2> QED BY <1>7, <2>2, SteadyCared DEF FindTimeout, Steady
<1>8. CASE JoinDirect
  BY <1>1, <1>8, SteadyCared DEF JoinDirect, Steady, Network
<1>9. CASE \E s \in Shot : TaskDelay(s)
  BY <1>1, <1>9, SteadyCared DEF TaskDelay, Steady, Called
<1> QED BY <1>2, <1>3, <1>5, <1>6, <1>7, <1>8, <1>9 DEF Timers

\* The network layer's operations: one that should get the device into a network
\* does, or fails and is noted, or was not waited for.
LEMMA LayerCared ==
  ASSUME BdbIInv, Cared, NEW op \in Op, NEW ok \in BOOLEAN, StartDevCnf(op, ok), ~Misled'
  PROVE  Cared'
<1>1. /\ bdb \in Context /\ net \in Network /\ later \in [Shot -> 0..MaxShots] /\ story \in Story
      /\ Shot = {"RETRIEVE", "PERMITJOIN", "key", "steer", "direct", "reset"}
  BY Parts
<1>2. /\ net'.ops = net.ops \ {op}
      /\ net'.joined = (ok \/ (net.joined /\ op \notin {"start", "rejoin"}))
  BY <1>1 DEF StartDevCnf, Network
<1>3. story'.unheard = (story.unheard \/ (bdb.state = "IDLE" /\ ~ok)) /\ op \in OwnOp[bdb.state]
  BY <1>1 DEF StartDevCnf, Misled, Story
<1>4. CASE ok
  BY <1>2, <1>4 DEF Cared
<1>5. CASE bdb.state = "IDLE" /\ ~ok
  BY <1>3, <1>5 DEF Cared
<1>6. CASE bdb.state = "INIT" /\ ~ok
  BY <1>1, <1>6 DEF StartDevCnf, Called, Context, Cared
<1>7. CASE bdb.state \notin {"IDLE", "INIT"} /\ ~ok
  <2>1. op \notin {"start", "rejoin"}
    BY <1>1, <1>3, <1>7, Names DEF OwnOp, Context
  <2>2. later'["reset"] = later["reset"]
    <3>1. \A s \in {"RETRIEVE", "PERMITJOIN"} : Arm(s) => later'["reset"] = later["reset"]
      BY <1>1, Arms
    <3>2. UNCHANGED later \/ \E s \in {"RETRIEVE", "PERMITJOIN"} : Arm(s)
      BY <1>1, <1>7, Names, Zenon DEF StartDevCnf
    <3> QED BY <3>1, <3>2
  <2>3. bdb'.ok = bdb.ok
    <3>1. CASE bdb' = bdb
      BY <3>1
    <3>2. CASE bdb' = [bdb EXCEPT !.status = TouchStatus(bdb, "FAIL")]
      BY <1>1, <3>2 DEF Context
    <3>3. CASE bdb' = [bdb EXCEPT !.status = "NO_NETWORK"]
      BY <1>1, <3>3 DEF Context
    <3>4. CASE bdb' = [bdb EXCEPT !.status = "FORMATION_FAILURE"]
      BY <1>1, <3>4 DEF Context
    <3> QED BY <1>7, <3>1, <3>2, <3>3, <3>4, Zenon DEF StartDevCnf, Called
  <2>4. net'.joined = net.joined /\ net.ops \cap {"start", "rejoin"} \subseteq net'.ops
    BY <1>1, <1>2, <1>7, <2>1 DEF Network
  <2>5. story.unheard => story'.unheard
    BY <1>1, <1>3 DEF Story
  <2> QED BY <2>2, <2>3, <2>4, <2>5, SteadyCared DEF Steady
<1> QED BY <1>4, <1>5, <1>6, <1>7

\* Everything else that comes to the device.
LEMMA OthersCared ==
  ASSUME BdbIInv, Cared,
         \/ NodeDescResp \/ (\E ok \in BOOLEAN : KeyResult(ok)) \/ SimpleDescResp \/ IeeeAddrResp
         \/ LeaveCnf \/ TouchOver \/ TouchJoin \/ DirectCmd \/ AddPeer \/ TargetScan \/ UNCHANGED vars
  PROVE  Cared'
<1>1. /\ bdb \in Context /\ net \in Network /\ later \in [Shot -> 0..MaxShots] /\ story \in Story
      /\ MaxShots \in Nat \ {0}
      /\ Shot = {"RETRIEVE", "PERMITJOIN", "key", "steer", "direct", "reset"}
  BY Parts
<1>2. ASSUME NEW c, Late(c) PROVE story.unheard => story'.unheard
  BY <1>1, <1>2 DEF Late, Story
<1>3. ASSUME bdb'.ok = bdb.ok, net'.joined = net.joined, net.ops \cap {"start", "rejoin"} \subseteq net'.ops,
             UNCHANGED later, UNCHANGED story \/ \E c : Late(c)
      PROVE  Cared'
  BY <1>2, <1>3, SteadyCared DEF Steady
<1>4. CASE NodeDescResp
  <2>1. bdb'.ok = bdb.ok
    <3>1. CASE bdb' = [bdb EXCEPT !.on = FALSE]
      BY <1>1, <3>1 DEF Context
    <3>2. CASE bdb' = KeyDone(bdb, TRUE)
      BY <1>1, <3>2, OkKept
    <3>3. CASE bdb' = bdb
      BY <3>3
    <3> QED BY <1>4, <3>1, <3>2, <3>3, Zenon DEF NodeDescResp, Called
  <2>2. net'.joined = net.joined /\ net'.ops = net.ops
    BY <1>1, <1>4 DEF NodeDescResp, Network
  <2> QED BY <1>3, <1>4, <2>1, <2>2 DEF NodeDescResp
<1>5. CASE \E ok \in BOOLEAN : KeyResult(ok)
  <2>1. bdb'.ok = bdb.ok
    BY <1>1, <1>5, OkKept DEF KeyResult, Called
  <2>2. net'.joined = net.joined /\ net'.ops = net.ops
    BY <1>1, <1>5 DEF KeyResult, Network
  <2> QED BY <1>3, <1>5, <2>1, <2>2 DEF KeyResult
<1>6. ASSUME NEW b \in Context, b.ok = bdb.ok, Binding(b) PROVE bdb'.ok = bdb.ok
  BY <1>6 DEF Binding, Called, Context
<1>7. CASE SimpleDescResp
  <2> DEFINE b == [bdb EXCEPT !.timer = "off"]
  <2>1. b \in Context /\ b.ok = bdb.ok
    BY <1>1 DEF Context
  <2>2. bdb' = bdb \/ bdb' = b \/ Binding(b) \/ bdb' = [b EXCEPT !.match = TRUE]
    BY <1>7 DEF SimpleDescResp, Called
  <2> HIDE DEF b
  <2>3. bdb'.ok = bdb.ok
    BY <1>6, <2>1, <2>2 DEF Context
  <2>4. net'.joined = net.joined /\ net'.ops = net.ops
    BY <1>1, <1>7 DEF SimpleDescResp, Network
  <2> QED BY <1>3, <1>7, <2>3, <2>4 DEF SimpleDescResp
<1>8. CASE IeeeAddrResp
  <2>1. bdb'.ok = bdb.ok
    BY <1>1, <1>6, <1>8 DEF IeeeAddrResp
  <2>2. net'.joined = net.joined /\ net'.ops = net.ops
    BY <1>1, <1>8 DEF IeeeAddrResp, Network
  <2> QED BY <1>3, <1>8, <2>1, <2>2 DEF IeeeAddrResp
<1>9. CASE LeaveCnf
  BY <1>1, <1>9 DEF LeaveCnf, Arm, Cared
<1>10. CASE TouchOver \/ TouchJoin
  <2>1. bdb'.ok = bdb.ok /\ UNCHANGED <<later, story>>
    BY <1>1, <1>10 DEF TouchOver, TouchFinish, TouchJoin, Called, Context
  <2>2. net'.joined = net.joined /\ net.ops \subseteq net'.ops
    BY <1>1, <1>10 DEF TouchOver, TouchFinish, TouchJoin, Network
  <2> QED BY <1>3, <2>1, <2>2
<1>11. CASE DirectCmd
  <2>1. later'["reset"] = later["reset"]
    BY <1>1, <1>11, Arms DEF DirectCmd
  <2> QED BY <1>11, <2>1, SteadyCared DEF DirectCmd, Steady
<1>12. CASE AddPeer
  BY <1>1, <1>3, <1>12 DEF AddPeer, Context
<1>13. CASE TargetScan
  <2>1. bdb'.ok = bdb.ok /\ UNCHANGED <<later, story>>
    BY <1>1, <1>13 DEF TargetScan, Context
  <2>2. net'.joined = net.joined /\ net.ops \cap {"start", "rejoin"} \subseteq net'.ops
    BY <1>1, <1>13 DEF TargetScan, Network
  <2> QED BY <1>3, <2>1, <2>2
<1>14. CASE UNCHANGED vars
  BY <1>3, <1>14 DEF vars
<1> QED BY <1>4, <1>5, <1>7, <1>8, <1>9, <1>10, <1>11, <1>12, <1>13, <1>14

-----------------------------------------------------------------------------
(* A newcomer stays one, until it is cared for or misled *)

\* What a task that has run, or a call, leaves in a newcomer's queue.
LEMMA OwnQueue ==
  ASSUME tasks \in Seq(Own), NEW b, NEW q \in Seq(Own)
  PROVE  /\ tasks # <<>> => Head(tasks) \in Own
         /\ tasks # <<>> /\ Ran(b, q) => bdb' = b /\ tasks' \in Seq(Own)
         /\ Called(b, q) => bdb' = b /\ tasks' \in Seq(Own)
         /\ <<>> \in Seq(Own) /\ \A t \in Own : <<t>> \in Seq(Own)
<1>1. tasks # <<>> => Head(tasks) \in Own /\ Tail(tasks) \in Seq(Own)
  OBVIOUS
<1>2. tasks \o q \in Seq(Own)
  OBVIOUS
<1>3. tasks # <<>> => Tail(tasks) \o q \in Seq(Own)
  BY <1>1
<1>4. <<>> \in Seq(Own) /\ \A t \in Own : <<t>> \in Seq(Own)
  OBVIOUS
<1> QED BY <1>1, <1>2, <1>3, <1>4 DEF Ran, Called

\* What a newcomer never was stays so, unless a field that says so changes.
LEMMA StillUnjoined ==
  ASSUME Unjoined, net'.joined = net.joined, bdb'.on = bdb.on, bdb'.fn = bdb.fn,
         bdb'.timer = "off", tasks' \in Seq(Own),
         \A s \in {"RETRIEVE", "PERMITJOIN", "key"} : later'[s] = later[s],
         bdb'.mode \in {{"steer"}, {"form"}, {"steer", "touchlink"}, {"form", "touchlink"}}
  PROVE  Unjoined'
BY DEF Unjoined

\* A newcomer is told the outcome of its attempt or of its touch link.
LEMMA TellsNewcomer ==
  ASSUME BdbIInv, Newcomer, ~Cared, tasks # <<>>, Confirm(bdb, "IDLE"),
         net.touch # "scan", Armed \/ bdb.status \in Arming \/ net.ops # {}
  PROVE  Newcomer' \/ Cared'
<1>1. bdb \in Context /\ Shot = {"RETRIEVE", "PERMITJOIN", "key", "steer", "direct", "reset"}
  BY Parts
<1>2. bdb' = [bdb EXCEPT !.attr = bdb.status, !.timer = "off", !.state = "IDLE"] /\ tasks' \in Seq(Own)
  <2>1. tasks \in Seq(Own) /\ <<>> \in Seq(Own)
    BY OwnQueue DEF Newcomer, Unjoined
  <2> QED BY <2>1, OwnQueue DEF Confirm
<1>3. /\ bdb'.attr = bdb.status /\ bdb'.state = "IDLE" /\ bdb'.timer = "off" /\ bdb'.on = bdb.on
      /\ bdb'.fn = bdb.fn /\ bdb'.mode = bdb.mode /\ bdb'.role = bdb.role /\ bdb'.status = bdb.status
  BY <1>1, <1>2, Names DEF Context
<1>4. AppHears(bdb.status)
  BY DEF Confirm
<1>5. /\ \A t \in Shot \ {"steer"} : later'[t] = later[t]
      /\ Armed \/ bdb.status \in Arming => Armed'
      /\ net'.joined = net.joined /\ net'.touch = net.touch /\ net.ops \subseteq net'.ops
  BY <1>4, Hears
<1>6. Unjoined'
  BY <1>1, <1>2, <1>3, <1>5, StillUnjoined DEF Newcomer, Unjoined
<1>7. Course'
  BY <1>3, <1>5 DEF Newcomer, Course, Free
<1> QED BY <1>6, <1>7 DEF Newcomer

\* The application is told that nothing could be started.
LEMMA NotStartedNewcomer ==
  ASSUME BdbIInv, Newcomer, tasks # <<>>, bdb.state = "IDLE",
         Ran([bdb EXCEPT !.attr = "NO_NETWORK"], <<>>), AppHears("NO_NETWORK")
  PROVE  Newcomer'
<1>1. bdb \in Context /\ Shot = {"RETRIEVE", "PERMITJOIN", "key", "steer", "direct", "reset"}
  BY Parts
<1>2. bdb' = [bdb EXCEPT !.attr = "NO_NETWORK"] /\ tasks' \in Seq(Own)
  <2>1. tasks \in Seq(Own) /\ <<>> \in Seq(Own)
    BY OwnQueue DEF Newcomer, Unjoined
  <2> QED BY <2>1, OwnQueue
<1>3. /\ bdb'.state = "IDLE" /\ bdb'.timer = bdb.timer /\ bdb'.on = bdb.on
      /\ bdb'.fn = bdb.fn /\ bdb'.mode = bdb.mode /\ bdb'.role = bdb.role
  BY <1>1, <1>2 DEF Context
<1>4. /\ \A t \in Shot \ {"steer"} : later'[t] = later[t]
      /\ Armed'
      /\ net'.joined = net.joined /\ net'.touch = net.touch
  BY Hears DEF Arming
<1>5. Unjoined'
  BY <1>1, <1>2, <1>3, <1>4, StillUnjoined DEF Newcomer, Unjoined
<1>6. Course'
  BY <1>3, <1>4 DEF Newcomer, Course
<1> QED BY <1>5, <1>6 DEF Newcomer

\* The tasks that come to a device only after it has joined a network.
LEMMA NotOfNewcomers ==
  ASSUME Newcomer
  PROVE  ~( \/ Retrieve \/ PermitJoin \/ FormPermitJoin \/ FindFinish \/ FindRequest
            \/ PermitCnf \/ InfoSave \/ SimpleSend \/ DirectJoin )
<1>1. tasks # <<>> => Head(tasks) \in Own
  BY DEF Newcomer, Unjoined
<1>2. bdb.state # "FINDORBIND"
  BY DEF Newcomer, Course
<1> QED BY <1>1, <1>2 DEF Own, Retrieve, PermitJoin, FormPermitJoin, FindFinish, FindRequest, PermitCnf,
      InfoSave, SimpleSend, DirectJoin, Event, Task

\* The first event, and the events that come too late for their state.
LEMMA InitNewcomer ==
  ASSUME BdbIInv, Newcomer, ~Cared, InitDone \/ Dropped
  PROVE  Newcomer'
<1>1. bdb \in Context /\ Shot = {"RETRIEVE", "PERMITJOIN", "key", "steer", "direct", "reset"}
      /\ bdb.ok /\ ~bdb.on /\ tasks \in Seq(Own)
  BY Parts DEF Cared, Newcomer, Unjoined
<1>2. CASE InitDone
  <2>1. bdb.state = "INIT" /\ tasks # <<>> /\ Head(tasks) = "INIT_DONE" /\ net.ops = {} /\ net.touch = "off"
    BY <1>2 DEF InitDone, Event, Newcomer, Course
  <2>2. Ran([bdb EXCEPT !.state = "IDLE"], <<>>)
    BY <1>1, <1>2 DEF InitDone
  <2>3. bdb' = [bdb EXCEPT !.state = "IDLE"] /\ tasks' \in Seq(Own)
    BY <1>1, <2>1, <2>2, OwnQueue
  <2>4. bdb'.state = "IDLE" /\ bdb'.timer = bdb.timer /\ bdb'.on = bdb.on
        /\ bdb'.fn = bdb.fn /\ bdb'.mode = bdb.mode /\ bdb'.role = bdb.role
    BY <1>1, <2>3, Names DEF Context
  <2>5. ArmIf(TRUE, "steer") /\ net' = net
    BY <1>1, <1>2, <2>1 DEF InitDone
  <2>6. Armed' /\ \A s \in {"RETRIEVE", "PERMITJOIN", "key"} : later'[s] = later[s]
    BY <1>1, <2>5, Arms
  <2>7. Unjoined'
    BY <2>3, <2>4, <2>5, <2>6, StillUnjoined DEF Newcomer, Unjoined
  <2> QED BY <2>1, <2>4, <2>5, <2>6, <2>7 DEF Newcomer, Course
<1>3. CASE Dropped
  <2>1. tasks # <<>> /\ Ran(bdb, <<>>) /\ UNCHANGED <<later, net>> /\ bdb.state # "INIT"
    BY <1>3 DEF Dropped
  <2>2. bdb' = bdb /\ tasks' \in Seq(Own)
    BY <1>1, <2>1, OwnQueue
  <2> QED BY <2>1, <2>2 DEF Newcomer, Unjoined, Course, Free, Armed
<1> QED BY <1>2, <1>3

\* The start of an attempt: steering, formation, or neither.
LEMMA StartNewcomer ==
  ASSUME BdbIInv, Newcomer, CommissionStart
  PROVE  Newcomer'
<1>1. bdb \in Context /\ net \in Network /\ ~bdb.on /\ tasks \in Seq(Own) /\ <<>> \in Seq(Own)
      /\ tasks # <<>> /\ bdb.state = "IDLE" /\ "touchlink" \notin bdb.mode
  BY Parts, OwnQueue DEF Newcomer, Unjoined, CommissionStart, Event
<1>2. CASE "steer" \in bdb.mode
  <2>1. Ran([bdb EXCEPT !.state = "STEER"], <<>>) /\ UNCHANGED later
        /\ net' = [net EXCEPT !.ops = @ \cup {"join"}]
    BY <1>1, <1>2 DEF CommissionStart
  <2>2. bdb' = [bdb EXCEPT !.state = "STEER"] /\ tasks' \in Seq(Own)
    BY <1>1, <2>1, OwnQueue
  <2>3. bdb'.state = "STEER" /\ bdb'.timer = bdb.timer /\ bdb'.on = bdb.on
        /\ bdb'.fn = bdb.fn /\ bdb'.mode = bdb.mode /\ bdb'.role = bdb.role
    BY <1>1, <2>2, Names DEF Context
  <2>4. "join" \in net'.ops /\ net'.joined = net.joined /\ net'.touch = net.touch
    BY <1>1, <2>1 DEF Network
  <2>5. Unjoined'
    BY <2>1, <2>2, <2>3, <2>4, StillUnjoined DEF Newcomer, Unjoined
  <2>6. bdb.mode = {"steer"}
    BY <1>1, <1>2 DEF Newcomer, Unjoined
  <2> QED BY <1>1, <2>1, <2>3, <2>4, <2>5, <2>6 DEF Newcomer, Course, Armed
<1>3. CASE "steer" \notin bdb.mode
  <2>1. bdb.mode = {"form"}
    BY <1>1, <1>3 DEF Newcomer, Unjoined
  <2>2. FormPhase(bdb) = "FORMATION"
    BY <1>1, <2>1 DEF FormPhase
  <2>3. Ran(Entered(bdb, "FORMATION"), <<>>) /\ net' = [net EXCEPT !.ops = @ \cup {"form"}]
        /\ UNCHANGED later
    BY <1>3, <2>2 DEF CommissionStart, PhaseOp
  <2>4. bdb' = Entered(bdb, "FORMATION") /\ tasks' \in Seq(Own)
    BY <1>1, <2>3, OwnQueue
  <2>5. bdb'.state = "FORMATION" /\ bdb'.timer = bdb.timer /\ bdb'.on = bdb.on
        /\ bdb'.fn = bdb.fn /\ bdb'.mode = bdb.mode /\ bdb'.role = bdb.role
    BY <1>1, <2>4, Names DEF Context, Entered
  <2>6. net'.joined = net.joined /\ net'.touch = net.touch
    BY <1>1, <2>3 DEF Network
  <2>7. Unjoined'
    BY <2>3, <2>4, <2>5, <2>6, StillUnjoined DEF Newcomer, Unjoined
  <2> QED BY <1>1, <2>1, <2>3, <2>5, <2>6, <2>7 DEF Newcomer, Course, Armed
<1> QED BY <1>2, <1>3

\* The start of touch link.  The initiator's timer is set already.
LEMMA LinkNewcomer ==
  ASSUME BdbIInv, Newcomer, TouchStart
  PROVE  Newcomer'
<1>1. bdb \in Context /\ net \in Network /\ tasks \in Seq(Own)
      /\ tasks # <<>> /\ bdb.state = "IDLE" /\ "touchlink" \in bdb.mode
      /\ bdb.fn
  BY Parts DEF Newcomer, Unjoined, TouchStart, Event
<1>2. <<>> \in Seq(Own) /\ <<"TL_FINISH">> \in Seq(Own)
  BY <1>1, OwnQueue DEF Own
<1>3. CASE bdb.role = "TARGET"
  BY <1>1, <1>3, NotStartedNewcomer DEF TouchStart
<1>4. CASE bdb.role # "TARGET"
  <2>1. Armed /\ UNCHANGED later /\ net.touch # "scan"
    BY <1>1, <1>4 DEF Newcomer, Course, Context, TouchStart
  <2>2. Armed' /\ \A s \in {"RETRIEVE", "PERMITJOIN", "key"} : later'[s] = later[s]
    BY <2>1 DEF Armed
  <2>3. net'.joined = net.joined
    BY <1>1, <1>4 DEF TouchStart, Network
  <2>4. \/ bdb' = [bdb EXCEPT !.state = "TOUCHLINK", !.status = "TARGET_FAILURE"]
        \/ bdb' = [bdb EXCEPT !.state = "TOUCHLINK"]
    BY <1>1, <1>4, TouchOutcomes DEF TouchStart, Ran
  <2>5. bdb'.state = "TOUCHLINK" /\ bdb'.timer = bdb.timer /\ bdb'.on = bdb.on
        /\ bdb'.fn = bdb.fn /\ bdb'.mode = bdb.mode /\ bdb'.role = bdb.role
    BY <1>1, <2>4, Names, StatusNames DEF Context
  <2>6. tasks' \in Seq(Own)
    BY <1>1, <1>2, <1>4, OwnQueue DEF TouchStart
  <2>7. Unjoined'
    BY <2>2, <2>3, <2>5, <2>6, StillUnjoined DEF Newcomer, Unjoined
  <2> QED BY <1>1, <2>2, <2>5, <2>7 DEF Newcomer, Course
<1> QED BY <1>3, <1>4

\* The end of a touch link: classic commissioning follows a scan without an answer,
\* unless the network layer is busy; the application is told of any other.
LEMMA LinkEndsNewcomer ==
  ASSUME BdbIInv, Newcomer, ~Cared, TouchNoResp \/ TouchDone, ~Misled'
  PROVE  Newcomer' \/ Cared'
<1>1. bdb \in Context /\ net \in Network /\ story \in Story /\ tasks \in Seq(Own)
  BY Parts DEF Newcomer, Unjoined
<1>2. CASE TouchNoResp
  <2> DEFINE b == [bdb EXCEPT !.mode = @ \ {"touchlink"}, !.state = "IDLE", !.attr = bdb.status]
  <2>1. /\ b \in Context /\ b.state = "IDLE" /\ b.timer = bdb.timer /\ b.on = bdb.on /\ b.fn = bdb.fn
        /\ b.mode = bdb.mode \ {"touchlink"} /\ b.attr # "IN_PROGRESS" /\ b.role = bdb.role
    <3>1. bdb.status # "IN_PROGRESS"
      BY <1>1 DEF Context, Status
    <3> QED BY <1>1, <3>1, Names DEF Context
  <2>2. Ran(Started(b, "TARGET"), StartTask(b)) /\ UNCHANGED <<later, net>> /\ tasks # <<>>
    BY <1>2 DEF TouchNoResp, Event
  <2>3. net.touch # "scan"
    <3>1. \E u : story' = [story EXCEPT !.untold = u, !.cut = @ \/ net.touch = "scan"]
      BY <1>2, Zenon DEF TouchNoResp
    <3> QED BY <1>1, <3>1 DEF Story, Misled
  <2> HIDE DEF b
  <2>4. StartTask(b) \in Seq(Own)
    BY <1>1, OwnQueue DEF StartTask, Own
  <2>5. bdb' = Started(b, "TARGET") /\ tasks' \in Seq(Own)
    BY <1>1, <2>2, <2>4, OwnQueue
  <2>6. /\ bdb'.state = "IDLE" /\ bdb'.timer = bdb.timer /\ bdb'.on = bdb.on /\ bdb'.fn = bdb.fn
        /\ bdb'.mode = bdb.mode \ {"touchlink"}
        /\ net.ops = {} => bdb'.attr = "IN_PROGRESS"
    BY <2>1, <2>5 DEF Started, CanStart, Context
  <2>7. bdb'.mode \in {{"steer"}, {"form"}} /\ ("form" \in bdb'.mode => "form" \in bdb.mode)
    BY <2>6 DEF Newcomer, Unjoined
  <2>8. Unjoined'
    BY <2>2, <2>5, <2>6, <2>7, StillUnjoined DEF Newcomer, Unjoined
  <2>9. Course'
    BY <2>2, <2>3, <2>6, <2>7 DEF Newcomer, Course, Free, Armed
  <2> QED BY <2>8, <2>9 DEF Newcomer
<1>3. CASE TouchDone
  <2>1. tasks # <<>> /\ bdb.state = "TOUCHLINK" /\ Confirm(bdb, "IDLE")
    BY <1>3 DEF TouchDone, Event
  <2>2. net.touch = "off"
    BY <1>1, <2>1, ConfirmNotes DEF Misled
  <2> QED BY <2>1, <2>2, TellsNewcomer DEF Newcomer, Course
<1> QED BY <1>2, <1>3

\* The end of a phase.
LEMMA PhaseEndsNewcomer ==
  ASSUME BdbIInv, Newcomer, ~Cared, SteerFinish \/ FormFinish \/ RejoinDone, ~Misled'
  PROVE  Newcomer' \/ Cared'
<1>1. bdb \in Context /\ story \in Story /\ tasks \in Seq(Own) /\ ~bdb.on
  BY Parts DEF Newcomer, Unjoined
<1>2. CASE SteerFinish
  <2>1. bdb.state = "STEER" /\ bdb.mode = {"steer"} /\ tasks # <<>>
    BY <1>2 DEF SteerFinish, Event, Newcomer, Course
  <2>2. FormPhase(bdb) = "IDLE"
    BY <2>1 DEF FormPhase, FindPhase
  <2>3. Confirm(bdb, "IDLE")
    BY <1>2, <2>2 DEF SteerFinish, NextPhase
  <2> QED BY <2>1, <2>3, TellsNewcomer DEF Newcomer, Course
<1>3. CASE FormFinish
  <2>1. bdb.state = "FORMATION" /\ "form" \in bdb.mode /\ tasks # <<>>
    BY <1>3 DEF FormFinish, Event, Newcomer, Course
  <2>2. FindPhase(bdb) = "IDLE"
    BY <1>1 DEF FindPhase
  <2>3. Confirm(bdb, "IDLE")
    BY <1>3, <2>2 DEF FormFinish, NextPhase
  <2> QED BY <2>1, <2>3, TellsNewcomer DEF Newcomer, Course
<1>4. ~RejoinDone
  <2> SUFFICES ASSUME RejoinDone PROVE FALSE
    OBVIOUS
  <2>1. bdb.state = "IDLE" /\ tasks # <<>> /\ Confirm(bdb, "IDLE")
    BY DEF RejoinDone, Event
  <2>2. Head(tasks) # "REJOIN_DONE"
    BY <1>1, <2>1 DEF Own
  <2> QED BY <1>1, <2>1, <2>2, ConfirmNotes DEF Misled
<1> QED BY <1>2, <1>3, <1>4

\* A start, by the host or by the timer.
LEMMA StartsNewcomer ==
  ASSUME BdbIInv, Newcomer, ~Cared, HostStart \/ SteerTimer, ~Misled'
  PROVE  Newcomer'
<1>1. /\ bdb \in Context /\ net \in Network /\ story \in Story /\ tasks \in Seq(Own)
      /\ later \in [Shot -> 0..MaxShots] /\ MaxShots \in Nat \ {0}
      /\ Shot = {"RETRIEVE", "PERMITJOIN", "key", "steer", "direct", "reset"}
  BY Parts DEF Newcomer, Unjoined
<1>2. PICK kind \in {"steer", "form", "touchlink"}, role \in {"INITIATOR", "TARGET"} :
        /\ Start(kind, role) /\ (kind \in {"steer", "form"} => role = "TARGET")
        /\ \/ UNCHANGED later
           \/ kind = "steer" /\ later' = [later EXCEPT !["steer"] = @ - 1]
  <2>1. CASE HostStart
    <3>1. PICK kind \in DOMAIN Mode, role \in {"INITIATOR", "TARGET"} :
            /\ kind \in {"steer", "form"} => role = "TARGET"
            /\ kind = "find" => bdb.on
            /\ Start(kind, role)
      BY <2>1 DEF HostStart
    <3>2. kind \in {"steer", "form", "touchlink"}
      BY <3>1 DEF Mode, Newcomer, Unjoined
    <3> QED BY <2>1, <3>1, <3>2 DEF HostStart
  <2>2. CASE SteerTimer
    BY <2>2 DEF SteerTimer
  <2> QED BY <2>1, <2>2
<1>3. net' = net
  BY DEF HostStart, SteerTimer
<1>4. \A s \in {"RETRIEVE", "PERMITJOIN", "key"} : later'[s] = later[s]
  BY <1>1, <1>2
<1> DEFINE m == Mode[kind]
           b == [bdb EXCEPT !.mode = m]
<1>5. /\ m \in {{"steer"}, {"form"}, {"steer", "touchlink"}}
      /\ (m = {"steer"} <=> kind = "steer") /\ (m = {"steer", "touchlink"} <=> kind = "touchlink")
  BY <1>2 DEF Mode
<1>6. Called(Started(b, role), StartTask(b))
      /\ story' = IF CanStart(b) THEN [story EXCEPT !.owed = @ + 1]
                  ELSE [story EXCEPT !.swapped = @ \/ b.mode # bdb.mode]
  BY <1>2 DEF Start
<1> HIDE DEF m
<1>7. /\ b \in Context /\ b.mode = m /\ b.state = bdb.state /\ b.attr = bdb.attr /\ b.timer = bdb.timer
      /\ b.on = bdb.on /\ b.fn = bdb.fn /\ b.role = bdb.role /\ b.status = bdb.status
  BY <1>1, <1>5 DEF Context
<1> HIDE DEF b
<1>8. StartTask(b) \in Seq(Own)
  BY <1>1, OwnQueue DEF StartTask, Own
<1>9. bdb' = Started(b, role) /\ tasks' \in Seq(Own)
  BY <1>1, <1>6, <1>8, OwnQueue
<1>10. CASE CanStart(b)
  <2>1. bdb.state = "IDLE" /\ net.ops = {} /\ Free
    BY <1>7, <1>10 DEF CanStart, Free
  <2>2. Armed
    BY <2>1 DEF Newcomer, Course
  <2>3. /\ bdb'.state = "IDLE" /\ bdb'.timer = bdb.timer /\ bdb'.on = bdb.on /\ bdb'.fn = bdb.fn
        /\ bdb'.mode = m /\ bdb'.attr = "IN_PROGRESS" /\ bdb'.role = role
    BY <1>7, <1>9, <1>10, <2>1 DEF Started, Context
  <2>4. Unjoined'
    BY <1>3, <1>4, <1>5, <1>9, <2>3, StillUnjoined DEF Newcomer, Unjoined
  <2>5. kind # "steer" => Armed'
    BY <1>2, <2>2 DEF Armed
  <2>6. Course'
    BY <1>2, <1>3, <1>5, <2>1, <2>3, <2>5 DEF Newcomer, Course, Free
  <2> QED BY <2>4, <2>6 DEF Newcomer
<1>11. CASE ~CanStart(b)
  <2>1. m = bdb.mode
    BY <1>1, <1>6, <1>7, <1>11 DEF Misled, Story
  <2>2. /\ bdb'.state = bdb.state /\ bdb'.timer = bdb.timer /\ bdb'.on = bdb.on /\ bdb'.fn = bdb.fn
        /\ bdb'.mode = bdb.mode /\ bdb'.attr = bdb.attr /\ bdb'.role = bdb.role
        /\ bdb'.status = bdb.status /\ tasks' = tasks
    BY <1>1, <1>6, <1>7, <1>9, <1>11, <2>1 DEF Started, StartTask, Called
  <2>3. Unjoined'
    BY <1>3, <1>4, <1>9, <2>2, StillUnjoined DEF Newcomer, Unjoined
  <2>4. CASE UNCHANGED later
    BY <1>3, <2>2, <2>3, <2>4 DEF Newcomer, Course, Free, Armed
  <2>5. CASE kind = "steer"
    <3>1. bdb.mode = {"steer"}
      BY <1>5, <2>1, <2>5
    <3>2. ~(bdb.state = "IDLE" /\ Free /\ net.ops = {})
      BY <1>7, <1>11 DEF CanStart, Free
    <3> QED BY <1>3, <2>2, <2>3, <3>1, <3>2 DEF Newcomer, Course, Free
  <2> QED BY <1>2, <2>4, <2>5
<1> QED BY <1>10, <1>11

\* The network layer ends an operation.
LEMMA LayerNewcomer ==
  ASSUME BdbIInv, Newcomer, ~Cared, NEW op \in Op, NEW ok \in BOOLEAN, StartDevCnf(op, ok), ~Misled'
  PROVE  Newcomer' \/ Cared'
<1>1. /\ bdb \in Context /\ net \in Network /\ story \in Story /\ tasks \in Seq(Own) /\ bdb.fn
      /\ op \in net.ops /\ op \notin {"start", "rejoin"}
  BY Parts DEF Newcomer, Unjoined, Cared, StartDevCnf
<1>2. /\ net'.ops = net.ops \ {op}
      /\ net'.joined = (ok \/ (net.joined /\ op \notin {"start", "rejoin"}))
      /\ net'.touch = IF bdb.state = "TOUCHLINK" /\ ~ok THEN "off" ELSE net.touch
  BY <1>1 DEF StartDevCnf, Network
<1>3. op \in OwnOp[bdb.state]
  BY <1>1 DEF StartDevCnf, Misled, Story
<1>4. CASE ok
  BY <1>2, <1>4 DEF Cared
<1>5. CASE ~ok
  <2>0. bdb.state \in {"TOUCHLINK", "STEER", "FORMATION"}
    BY <1>1, <1>3 DEF OwnOp, Newcomer, Course
  <2>1. UNCHANGED later
    BY <1>5, <2>0, Zenon DEF StartDevCnf
  <2>2. PICK s \in Status, t \in Own :
          /\ Called([bdb EXCEPT !.status = s], <<t>>)
          /\ bdb.state \in {"TOUCHLINK", "STEER"} => s \in Arming
    <3>1. CASE bdb.state = "TOUCHLINK"
      <4>1. Called([bdb EXCEPT !.status = TouchStatus(bdb, "FAIL")], TouchTask(bdb, "FAIL"))
        BY <1>5, <3>1, Zenon DEF StartDevCnf
      <4> QED BY <1>1, <3>1, <4>1, TouchOutcomes, StatusNames DEF Arming, Own
    <3>2. CASE bdb.state = "STEER"
      <4>1. Called([bdb EXCEPT !.status = "NO_NETWORK"], <<"STEER_FINISH">>)
        BY <1>5, <3>2, Zenon DEF StartDevCnf
      <4> QED BY <4>1, StatusNames DEF Arming, Own
    <3>3. CASE bdb.state = "FORMATION"
      <4>1. Called([bdb EXCEPT !.status = "FORMATION_FAILURE"], <<"FORM_FINISH">>)
        BY <1>5, <3>3 DEF StartDevCnf
      <4> QED BY <3>3, <4>1, StatusNames DEF Own
    <3> QED BY <2>0, <3>1, <3>2, <3>3
  <2>3. bdb' = [bdb EXCEPT !.status = s] /\ tasks' \in Seq(Own)
    BY <1>1, <2>2, OwnQueue
  <2>4. /\ bdb'.state = bdb.state /\ bdb'.timer = bdb.timer /\ bdb'.on = bdb.on /\ bdb'.fn = bdb.fn
        /\ bdb'.mode = bdb.mode /\ bdb'.attr = bdb.attr /\ bdb'.role = bdb.role /\ bdb'.status = s
    BY <1>1, <2>3 DEF Context
  <2>5. net'.joined = net.joined
    BY <1>1, <1>2, <1>5 DEF Network
  <2>6. Unjoined'
    BY <2>1, <2>3, <2>4, <2>5, StillUnjoined DEF Newcomer, Unjoined
  <2>7. Course'
    BY <1>2, <2>0, <2>1, <2>2, <2>4 DEF Newcomer, Course, Armed
  <2> QED BY <2>6, <2>7 DEF Newcomer
<1> QED BY <1>4, <1>5

\* Touch link goes on, and is over; another device begins one.
LEMMA LinkGoesOnNewcomer ==
  ASSUME BdbIInv, Newcomer, ~Cared, TouchJoin \/ TouchOver \/ TargetScan
  PROVE  Newcomer'
<1>1. bdb \in Context /\ net \in Network /\ tasks \in Seq(Own) /\ bdb.fn /\ ~net.joined
  BY Parts DEF Newcomer, Unjoined, Cared
<1>2. CASE TouchJoin
  <2>1. net'.touch = "join" /\ net'.ops = net.ops \cup {"touch"} /\ net'.joined = net.joined
        /\ UNCHANGED <<bdb, tasks, later>> /\ bdb.state = "TOUCHLINK"
    BY <1>1, <1>2 DEF TouchJoin, Network
  <2> QED BY <2>1 DEF Newcomer, Unjoined, Course, Free, Armed
<1>3. CASE TargetScan
  <2>1. bdb' = [bdb EXCEPT !.state = "TOUCHLINK", !.mode = @ \cup {"touchlink"}, !.role = "TARGET"]
        /\ UNCHANGED <<tasks, later>> /\ net'.touch = "link" /\ net'.joined = net.joined
    BY <1>1, <1>3 DEF TargetScan, Network
  <2>2. /\ bdb'.state = "TOUCHLINK" /\ bdb'.timer = bdb.timer /\ bdb'.on = bdb.on /\ bdb'.fn = bdb.fn
        /\ bdb'.mode = bdb.mode \cup {"touchlink"} /\ bdb'.role = "TARGET"
    BY <1>1, <2>1, Names DEF Context
  <2>3. bdb'.mode \in {{"steer", "touchlink"}, {"form", "touchlink"}} /\ "touchlink" \in bdb'.mode
        /\ ("form" \in bdb'.mode => "form" \in bdb.mode)
    BY <2>2 DEF Newcomer, Unjoined
  <2>4. Unjoined'
    BY <2>1, <2>2, <2>3, StillUnjoined DEF Newcomer, Unjoined
  <2> QED BY <2>1, <2>2, <2>3, <2>4 DEF Newcomer, Course, Armed
<1>4. ASSUME NEW how \in {"NO_SERVER", "SUCC", "FAIL"}, TouchFinish(how)
      PROVE  Newcomer'
  <2>1. how # "SUCC" /\ net.touch # "off"
    BY <1>1, <1>4 DEF TouchFinish
  <2>2. Called([bdb EXCEPT !.status = TouchStatus(bdb, how)], TouchTask(bdb, how)) /\ UNCHANGED later
        /\ net'.touch = "off" /\ net'.ops = net.ops /\ net'.joined = net.joined
    BY <1>1, <1>4 DEF TouchFinish, Network
  <2>3. TouchTask(bdb, how) \in Seq(Own)
    BY <1>1, <2>1, TouchOutcomes, OwnQueue DEF Own
  <2>4. bdb' = [bdb EXCEPT !.status = TouchStatus(bdb, how)] /\ tasks' \in Seq(Own)
    BY <1>1, <2>2, <2>3, OwnQueue
  <2>5. /\ bdb'.state = bdb.state /\ bdb'.timer = bdb.timer /\ bdb'.on = bdb.on /\ bdb'.fn = bdb.fn
        /\ bdb'.mode = bdb.mode /\ bdb'.attr = bdb.attr /\ bdb'.role = bdb.role
        /\ bdb'.status = TouchStatus(bdb, how)
    BY <1>1, <2>4 DEF Context
  <2>6. Unjoined'
    BY <2>2, <2>4, <2>5, StillUnjoined DEF Newcomer, Unjoined
  <2>7. (bdb.state = "TOUCHLINK" /\ Armed) \/ bdb'.status \in Arming
    <3>1. CASE how = "NO_SERVER"
      BY <1>4, <3>1 DEF TouchFinish, Newcomer, Course
    <3>2. CASE how = "FAIL"
      BY <1>1, <2>5, <3>2, TouchOutcomes DEF Arming
    <3> QED BY <2>1, <3>1, <3>2
  <2>8. bdb.state # "INIT"
    BY <2>1 DEF Newcomer, Course
  <2> QED BY <2>2, <2>5, <2>6, <2>7, <2>8 DEF Newcomer, Course, Free, Armed
<1> QED BY <1>2, <1>3, <1>4 DEF TouchOver

\* The timers and answers that are not for a newcomer: answers are late, and what
\* is told over BLE has it cared for.
LEMMA RestNewcomer ==
  ASSUME BdbIInv, Newcomer, ~Cared, ~Misled',
         \/ NodeDescResp \/ (\E ok \in BOOLEAN : KeyResult(ok)) \/ SimpleDescResp \/ IeeeAddrResp
         \/ KeyStart \/ KeyTimeout \/ FindTimeout \/ JoinDirect \/ (\E s \in Shot : TaskDelay(s))
         \/ LeaveCnf \/ DirectCmd \/ AddPeer \/ UNCHANGED vars
  PROVE  Newcomer' \/ Cared'
<1>1. /\ bdb \in Context /\ net \in Network /\ story \in Story
      /\ later \in [Shot -> 0..MaxShots] /\ MaxShots \in Nat \ {0}
      /\ Shot = {"RETRIEVE", "PERMITJOIN", "key", "steer", "direct", "reset"}
  BY Parts
<1>2. /\ bdb.timer = "off" /\ bdb.state # "FINDORBIND"
      /\ \A s \in {"RETRIEVE", "PERMITJOIN", "key"} : later[s] = 0
  BY DEF Newcomer, Unjoined, Course
<1>3. ~Late(TRUE)
  BY <1>1 DEF Late, Misled, Story
<1>4. ~(NodeDescResp \/ (\E ok \in BOOLEAN : KeyResult(ok)) \/ SimpleDescResp \/ IeeeAddrResp)
  <2>1. (bdb.state # "STEER" \/ bdb.timer # "key") = TRUE /\ (bdb.state # "FINDORBIND") = TRUE
    BY <1>2
  <2> QED BY <1>3, <2>1 DEF NodeDescResp, KeyResult, SimpleDescResp, IeeeAddrResp
<1>5. ~(KeyStart \/ KeyTimeout \/ FindTimeout \/ (\E s \in Shot : TaskDelay(s)) \/ AddPeer)
  <2>1. /\ ~(later["key"] > 0)
        /\ \A s \in {"RETRIEVE", "PERMITJOIN"} : ~(later[s] > 0)
        /\ bdb.timer \notin {"key", "query", "simple", "target"}
    BY <1>2
  <2> QED BY <1>2, <2>1, Zenon DEF KeyStart, KeyTimeout, FindTimeout, TaskDelay, AddPeer
<1>6. CASE JoinDirect
  BY <1>1, <1>6 DEF JoinDirect, Network, Cared
<1>7. CASE LeaveCnf
  BY <1>1, <1>7 DEF LeaveCnf, Arm, Cared
<1>8. CASE DirectCmd
  <2>1. /\ \A t \in Shot \ {"direct"} : later'[t] = later[t]
        /\ UNCHANGED <<bdb, tasks, net>>
    BY <1>1, <1>8, Arms DEF DirectCmd
  <2> QED BY <1>1, <2>1 DEF Newcomer, Unjoined, Course, Free, Armed
<1>9. CASE UNCHANGED vars
  BY <1>9 DEF vars, Newcomer, Unjoined, Course, Free, Armed
<1> QED BY <1>4, <1>5, <1>6, <1>7, <1>8, <1>9

-----------------------------------------------------------------------------
(* Every step *)

\* Once misled, always: what a late answer, a refused start or an earlier touch link
\* has spoilt is not forgotten.
LEMMA Sticky ==
  ASSUME BdbIInv, [Next]_vars
  PROVE  Misled => Misled'
<1>0. story \in Story
  BY Same
<1>2. ASSUME NEW c, Late(c) PROVE Misled => Misled'
  BY <1>0, <1>2 DEF Late, Misled, Story
<1>3. ASSUME NEW b, NEW s, Confirm(b, s) PROVE Misled => Misled'
  BY <1>0, <1>3, ConfirmNotes DEF Misled
<1>4. ASSUME NEW k, NEW r, Start(k, r) PROVE Misled => Misled'
  <2>1. \/ story' = [story EXCEPT !.owed = @ + 1]
        \/ \E c : story' = [story EXCEPT !.swapped = @ \/ c]
    BY <1>4, Zenon DEF Start
  <2> QED BY <1>0, <2>1 DEF Misled, Story
<1>5. ASSUME UNCHANGED story PROVE Misled => Misled'
  BY <1>5 DEF Misled
<1>6. ASSUME story' = Told PROVE Misled => Misled'
  BY <1>0, <1>6, ToldNote DEF Misled
<1>7. ASSUME NEW p, NextPhase(p) PROVE Misled => Misled'
  BY <1>3, <1>5, <1>7, Zenon DEF NextPhase
<1>8. CASE RunTask
  <2>1. CASE CommissionStart
    <3> USE <1>5, <1>6, <2>1
    <3> QED BY Zenon DEF CommissionStart
  <2>2. CASE TouchStart
    BY <1>5, <1>6, <2>2, Zenon DEF TouchStart
  <2>3. CASE TouchNoResp
    <3>1. \E u, c : story' = [story EXCEPT !.untold = u, !.cut = @ \/ c]
      BY <2>3, Zenon DEF TouchNoResp
    <3> QED BY <1>0, <3>1 DEF Misled, Story
  <2>4. CASE RejoinDone \/ TouchDone \/ FindFinish
    BY <1>3, <2>4, Zenon DEF RejoinDone, TouchDone, FindFinish
  <2>5. CASE SteerFinish \/ FormFinish
    BY <1>7, <2>5, Zenon DEF SteerFinish, FormFinish
  <2>6. CASE \/ InitDone \/ Dropped \/ Retrieve \/ PermitJoin \/ FormPermitJoin \/ FindRequest
             \/ PermitCnf \/ InfoSave \/ SimpleSend \/ DirectJoin
    BY <1>5, <2>6, Zenon DEF InitDone, Dropped, Retrieve, PermitJoin, FormPermitJoin, FindRequest,
       PermitCnf, InfoSave, SimpleSend, DirectJoin
  <2> QED BY <1>8, <2>1, <2>2, <2>3, <2>4, <2>5, <2>6 DEF RunTask
<1>9. CASE Timers
  <2>1. CASE SteerTimer
    BY <1>4, <2>1 DEF SteerTimer
  <2>2. CASE Restart
    BY <1>0, <2>2, ToldNote DEF Restart, Misled, Story
  <2>3. CASE KeyStart \/ KeyTimeout \/ FindTimeout \/ JoinDirect \/ \E s \in Shot : TaskDelay(s)
    BY <1>5, <2>3, Zenon DEF KeyStart, KeyTimeout, FindTimeout, JoinDirect, TaskDelay
  <2> QED BY <1>9, <2>1, <2>2, <2>3 DEF Timers
<1>10. CASE Done
  <2>1. \E l, u : story' = [story EXCEPT !.late = @ \/ l, !.unheard = u]
    BY <1>10, Zenon DEF Done, StartDevCnf
  <2> QED BY <1>0, <2>1 DEF Misled, Story
<1>11. CASE NodeDescResp \/ (\E ok \in BOOLEAN : KeyResult(ok)) \/ SimpleDescResp \/ IeeeAddrResp
  BY <1>2, <1>11, Zenon DEF NodeDescResp, KeyResult, SimpleDescResp, IeeeAddrResp
<1>12. CASE HostStart
  BY <1>4, <1>12, Zenon DEF HostStart
<1>13. CASE LeaveCnf \/ TouchOver \/ DirectCmd \/ AddPeer \/ TargetScan \/ TouchJoin
  BY <1>5, <1>13, Zenon DEF LeaveCnf, TouchOver, TouchFinish, DirectCmd, AddPeer, TargetScan, TouchJoin
<1>14. CASE UNCHANGED vars
  BY <1>5, <1>14 DEF vars
<1> QED BY <1>8, <1>9, <1>10, <1>11, <1>12, <1>13, <1>14 DEF Next

\* A device that has just started is a newcomer, or is in a network.
LEMMA FreshTries ==
  ASSUME NEW new \in BOOLEAN, bdb = FreshBdb(new), tasks = FreshTasks(new), net = FreshNet(new),
         later = NoShots
  PROVE  Cared \/ Newcomer
<1>1. /\ bdb.state = "INIT" /\ bdb.timer = "off" /\ net.touch = "off" /\ bdb.mode = {"steer"}
      /\ bdb.on = ~new /\ bdb.fn = new /\ net.joined = ~new
      /\ net.ops = (IF new THEN {} ELSE {"start"})
      /\ tasks = (IF new THEN <<"INIT_DONE">> ELSE <<>>)
      /\ \A s \in {"RETRIEVE", "PERMITJOIN", "key"} : later[s] = 0
  BY DEF FreshBdb, FreshTasks, FreshNet, NoShots, Shot
<1>2. CASE ~new
  BY <1>1, <1>2 DEF Cared
<1>3. CASE new
  <2>1. <<"INIT_DONE">> \in Seq(Own)
    BY DEF Own
  <2>2. Unjoined
    BY <1>1, <1>3, <2>1 DEF Unjoined
  <2> QED BY <1>1, <1>3, <2>2 DEF Newcomer, Course
<1> QED BY <1>2, <1>3

\* So is one that has restarted after a leave.
LEMMA RestartTries ==
  ASSUME BdbIInv, Restart
  PROVE  Cared' \/ Newcomer'
<1> DEFINE new == ~net.joined
<1>1. new \in BOOLEAN
  BY Parts DEF Network
<1>2. bdb' = FreshBdb(new) /\ tasks' = FreshTasks(new) /\ net' = FreshNet(new) /\ later' = NoShots
  BY DEF Restart
<1> HIDE DEF new
<1>3. /\ bdb'.state = "INIT" /\ bdb'.timer = "off" /\ net'.touch = "off" /\ bdb'.mode = {"steer"}
      /\ bdb'.on = ~new /\ bdb'.fn = new /\ net'.joined = ~new
      /\ net'.ops = (IF new THEN {} ELSE {"start"})
      /\ tasks' = (IF new THEN <<"INIT_DONE">> ELSE <<>>)
      /\ \A s \in {"RETRIEVE", "PERMITJOIN", "key"} : later'[s] = 0
  BY <1>2 DEF FreshBdb, FreshTasks, FreshNet, NoShots, Shot
<1>4. CASE ~new
  BY <1>3, <1>4 DEF Cared
<1>5. CASE new
  <2>1. <<"INIT_DONE">> \in Seq(Own)
    BY DEF Own
  <2>2. Unjoined'
    BY <1>3, <1>5, <2>1 DEF Unjoined
  <2> QED BY <1>3, <1>5, <2>2 DEF Newcomer, Course
<1> QED BY <1>1, <1>4, <1>5

\* Every step keeps the inductive invariant of KeepsTrying.
LEMMA TryingSteps ==
  ASSUME TryIInv, [Next]_vars
  PROVE  TryIInv'
<1>1. BdbIInv /\ BdbIInv'
  BY CommissioningSteps DEF TryIInv
<1>2. ASSUME ~Misled' PROVE Cared' \/ Newcomer'
  <2>1. Cared \/ Newcomer
    BY <1>1, <1>2, Sticky DEF TryIInv
  <2>2. CASE Restart
    BY <1>1, <2>2, RestartTries
  <2>3. CASE Cared /\ ~Restart
    BY <1>1, <1>2, <2>3, TaskCared, TimerCared, LayerCared, OthersCared DEF Next, Done
  <2>4. CASE Newcomer /\ ~Cared /\ ~Restart
    <3>1. CASE RunTask
      BY <1>1, <1>2, <2>4, <3>1, NotOfNewcomers, InitNewcomer, StartNewcomer, LinkNewcomer,
         LinkEndsNewcomer, PhaseEndsNewcomer DEF RunTask
    <3>2. CASE Timers
      BY <1>1, <1>2, <2>4, <3>2, StartsNewcomer, RestNewcomer DEF Timers
    <3>3. CASE Done
      BY <1>1, <1>2, <2>4, <3>3, LayerNewcomer DEF Done
    <3>4. CASE \/ NodeDescResp \/ (\E ok \in BOOLEAN : KeyResult(ok)) \/ SimpleDescResp \/ IeeeAddrResp
               \/ LeaveCnf \/ DirectCmd \/ AddPeer \/ UNCHANGED vars
      BY <1>1, <1>2, <2>4, <3>4, RestNewcomer
    <3>5. CASE HostStart
      BY <1>1, <1>2, <2>4, <3>5, StartsNewcomer
    <3>6. CASE TouchOver \/ TouchJoin \/ TargetScan
      BY <1>1, <2>4, <3>6, LinkGoesOnNewcomer
    <3> QED BY <3>1, <3>2, <3>3, <3>4, <3>5, <3>6 DEF Next
  <2> QED BY <2>1, <2>2, <2>3, <2>4
<1> QED BY <1>1, <1>2 DEF TryIInv

-----------------------------------------------------------------------------
(* The theorems *)

\* The inductive invariant holds from the start, whatever comes to the device.
THEOREM CommissioningInvariant == Spec => []BdbIInv
BY CommissioningStarts, CommissioningSteps, PTL DEF Spec

\* The type invariant: every counter within its bound, every task one that the
\* main loop knows, every status one the standard knows (bdb.h).
THEOREM CommissioningTypeCorrect == Spec => []TypeOK
<1>1. BdbIInv => TypeOK
  BY DEF BdbIInv
<1> QED BY <1>1, CommissioningInvariant, PTL

\* The guard of bdb_topLevelCommissioning (bdb.c:1478) lets one attempt in at a
\* time, whatever the host, the retry timer and touch link do and however often:
\* but for late answers and refused fall-backs, none is accepted while the
\* application is owed the outcome of another.
THEOREM OneAttemptAtATime == Spec => []OneAttempt
<1>1. BdbIInv => OneAttempt
  <2> SUFFICES ASSUME BdbIInv, ~story.late, ~story.untold PROVE story.owed <= 1
    BY DEF OneAttempt
  <2>1. story.owed \in Nat
    BY Same, Noted
  <2> QED BY <2>1 DEF BdbIInv, Owing
<1> QED BY <1>1, CommissioningInvariant, PTL

\* A light that is in no network and has nothing going on has set the timer of its
\* next attempt and knows that it is in none, whatever its host, its timers, other
\* devices and BLE do to it and however often (zbdemo_bdbCommissioningCb, bdb.c):
\* except where the history says that it was misled.
THEOREM LightKeepsTrying == Spec => []KeepsTrying
<1>1. Init => TryIInv
  <2> SUFFICES ASSUME Init PROVE TryIInv
    OBVIOUS
  <2>1. PICK w \in Worlds : /\ bdb = FreshBdb(w.new) /\ tasks = FreshTasks(w.new)
                            /\ net = FreshNet(w.new) /\ left = w.left
    BY DEF Init
  <2>2. later = NoShots
    BY DEF Init
  <2>3. Cared \/ Newcomer
    BY <2>1, <2>2, Bounds, FreshTries
  <2> QED BY <2>3, CommissioningStarts DEF TryIInv
<1>2. TryIInv /\ [Next]_vars => TryIInv'
  BY TryingSteps
<1>3. TryIInv => KeepsTrying
  <2> SUFFICES ASSUME TryIInv, Quiet, ~net.joined, bdb.ok, ~Misled, ~story.unheard
               PROVE  ~bdb.on /\ Armed
    BY DEF KeepsTrying, Armed, Misled
  <2>1. "reset" \in Shot \ {"steer"} /\ later \in [Shot -> 0..MaxShots]
    BY Same DEF Shot, TryIInv
  <2>2. ~Cared
    BY <2>1 DEF Cared, Quiet
  <2>3. Newcomer
    BY <2>2 DEF TryIInv
  <2> QED BY <2>3 DEF Newcomer, Unjoined, Course, Quiet, Idle, Free
<1> QED BY <1>1, <1>2, <1>3, PTL DEF Spec
=============================================================================
