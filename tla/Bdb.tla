-------------------------------- MODULE Bdb ---------------------------------
(***************************************************************************)
(* Commissioning: stack/zigbee/bdb/bdb.c with the callbacks of the light   *)
(* (zb_appCb.c, app_bleCmdHandle.c), for a router.                         *)
(*                                                                         *)
(* An attempt is started by the application, goes through phases (touch    *)
(* link, network steering, formation, finding and binding) and ends when   *)
(* the application is told its outcome.  Everything between is a task of   *)
(* the main loop's queue, the callback of a timer, or an answer of the     *)
(* network layer, which is a library.  Answers may be late, and may come   *)
(* when the attempt that asked for them is over.                           *)
(*                                                                         *)
(* A timer may expire whenever it is armed.  Addresses, clusters and the   *)
(* contents of frames are left out: what an answer says is what the code   *)
(* does next.                                                              *)
(***************************************************************************)
EXTENDS Integers, Sequences, FiniteSets

CONSTANTS MaxAttempts,  \* tcLinkKeyExchangeAttemptsMax
          QueueSize,    \* FIND_BIND_QUEUE_SIZE, of which one place stays free
          MaxShots,     \* bound on the timers of a kind that nobody holds
          MaxAsked,     \* bound on the descriptor requests waiting for an answer
          Worlds        \* whether the device is new to any network at its first start, and
                        \* how often each happening comes to it at most

\* what the outside does to the device; each happens a bounded number of times
Happening == {"start", "retry", "scan", "direct", "peer"}

ASSUME BdbAssumption ==
  /\ {MaxAttempts, QueueSize, MaxShots, MaxAsked} \subseteq Nat \ {0}
  /\ Worlds \subseteq [new : BOOLEAN, left : [Happening -> Nat]]

VARIABLES bdb,    \* g_bdbCtx and g_bdbAttrs
          tasks,  \* the tasks in the main loop's queue
          later,  \* timers that nobody holds a handle of, by what they will do
          net,    \* the network layer: its operations, and answers still to come
          left,   \* how often each happening may still come
          story   \* history: attempts accepted and not yet told of (owed), whether one of
                  \* them is over and never will be (untold), whether a result came late or
                  \* was taken for another's (late), a refused start has changed what the
                  \* attempt in progress is to do (swapped), the network layer has failed to
                  \* join again and the application has not heard of it (unheard), and the
                  \* end of an earlier touch link was taken for that of a later one (cut)

vars == <<bdb, tasks, later, net, left, story>>

Shot == {"RETRIEVE", "PERMITJOIN", "key", "steer", "direct", "reset"}

Status == {"SUCCESS", "NO_NETWORK", "TCLK_EX_FAILURE", "TARGET_FAILURE", "NO_SCAN_RESPONSE",
           "FORMATION_FAILURE", "REJOIN_FAILURE", "NO_IDENTIFY_QUERY_RESPONSE",
           "BINDING_TABLE_FULL"}

\* REJOIN_DONE is an enumerator of the states, equal to that of STEER_FINISH
\* among the events: the handlers cannot tell them apart.
Finish == {"STEER_FINISH", "REJOIN_DONE"}

\* the events that mean something in each state
Meant ==
  [INIT |-> {}, IDLE |-> {"START"} \cup Finish, TOUCHLINK |-> {"NO_RESP", "TL_FINISH"},
   STEER |-> {"RETRIEVE", "PERMITJOIN"} \cup Finish,
   FORMATION |-> {"FORM_PERMITJOIN", "FORM_FINISH"}, FINDORBIND |-> {"FB_REQ", "FB_FINISH"}]

\* bdb_init after a start of the device, which may be new to any network
FreshBdb(new) ==
  [state |-> "INIT", status |-> "SUCCESS", attr |-> "SUCCESS", on |-> ~new,
   fn |-> new, mode |-> {"steer"}, role |-> "INITIATOR", timer |-> "off",
   tries |-> 0, leaving |-> FALSE, queue |-> 0, match |-> FALSE, ok |-> TRUE]

FreshTasks(new) == IF new THEN <<"INIT_DONE">> ELSE <<>>

FreshNet(new) ==
  [ops |-> IF new THEN {} ELSE {"start"}, joined |-> ~new, leave |-> FALSE,
   node |-> 0, key |-> FALSE, simple |-> 0, ieee |-> FALSE, touch |-> "off"]

NoShots == [s \in Shot |-> 0]

Init ==
  /\ \E w \in Worlds :
       bdb = FreshBdb(w.new) /\ tasks = FreshTasks(w.new) /\ net = FreshNet(w.new) /\ left = w.left
  /\ later = NoShots
  /\ story = [owed |-> 0, untold |-> FALSE, late |-> FALSE, swapped |-> FALSE,
             unheard |-> FALSE, cut |-> FALSE]
-----------------------------------------------------------------------------
(* What the actions are made of *)

\* the task at the head has run and left bdb as b, posting the tasks q
Ran(b, q) == bdb' = b /\ tasks' = Tail(tasks) \o q

\* something else than a task ran and did so
Called(b, q) == bdb' = b /\ tasks' = tasks \o q

Arm(s) == later' = [later EXCEPT ![s] = IF @ < MaxShots THEN @ + 1 ELSE @]

\* TL_ZB_TIMER_SCHEDULE in a handler that does so only if c
ArmIf(c, s) == IF c THEN Arm(s) ELSE UNCHANGED later

\* an answer has come that was not for what is being done, if c
Late(c) == story' = [story EXCEPT !.late = @ \/ c]

\* the operations of the network layer that are a state's own
OwnOp ==
  [INIT |-> {"start"}, IDLE |-> {"start", "rejoin"}, TOUCHLINK |-> {"touch"},
   STEER |-> {"join"}, FORMATION |-> {"form"}, FINDORBIND |-> {}]

Happens(h) == left[h] > 0 /\ left' = [left EXCEPT ![h] = @ - 1]

BugAppHears(status) ==
  /\ ArmIf(status \in {"NO_NETWORK", "TCLK_EX_FAILURE"}, "steer")
  /\ net' = [net EXCEPT !.ops = IF status = "REJOIN_FAILURE" THEN @ \cup {"rejoin"} ELSE @]

\* zbdemo_bdbCommissioningCb: the light tries again, or rejoins
AppHears(status) ==
  /\ ArmIf(status \in {"NO_NETWORK", "TCLK_EX_FAILURE", "TARGET_FAILURE"}, "steer")
  /\ net' = [net EXCEPT !.ops = IF status = "REJOIN_FAILURE" THEN @ \cup {"rejoin"} ELSE @]

\* the application is told the outcome of what it is owed
Told == [story EXCEPT !.owed = 0, !.untold = FALSE]

\* bdb_topLevelCommissiongConfirm, then the state is set
Confirm(b, state) ==
  /\ Ran([b EXCEPT !.attr = b.status, !.timer = "off", !.state = state], <<>>)
  /\ AppHears(b.status)
  /\ story' = LET told == IF bdb.state = "IDLE" /\ Head(tasks) = "REJOIN_DONE"
                          THEN [story EXCEPT !.late = @ \/ story.owed > 0]
                          ELSE [Told EXCEPT !.late = @ \/ bdb.state = "IDLE"
                                                       \/ Head(tasks) = "REJOIN_DONE"]
              IN [told EXCEPT !.unheard = @ /\ b.status # "REJOIN_FAILURE",
                              !.cut = @ \/ (bdb.state = "TOUCHLINK" /\ net.touch # "off")]
  /\ UNCHANGED left

BugCanStart(b) == b.state = "IDLE" /\ net.ops = {}

CanStart(b) == b.state = "IDLE" /\ net.ops = {} /\ b.attr # "IN_PROGRESS"

\* bdb_topLevelCommissioning: what is started, and the task for it
Started(b, role) == IF CanStart(b) THEN [b EXCEPT !.role = role, !.attr = "IN_PROGRESS"] ELSE b
StartTask(b) == IF CanStart(b) THEN <<"START">> ELSE <<>>

\* bdb_commissioningFindBind
FindPhase(b) == IF "find" \in b.mode /\ b.on THEN "FINDORBIND" ELSE "IDLE"

\* bdb_commissioningNetworkFormation
FormPhase(b) == IF "form" \in b.mode /\ ~b.on THEN "FORMATION" ELSE FindPhase(b)

\* the phase is entered: its state, its timer if none runs
Entered(b, phase) ==
  [b EXCEPT !.state = phase,
            !.timer = IF phase = "FINDORBIND" /\ @ = "off"
                      THEN (IF b.role = "TARGET" THEN "target" ELSE "query") ELSE @]

\* the operation of the network layer a phase begins with
PhaseOp(phase) == IF phase = "FORMATION" THEN {"form"} ELSE {}

\* bdb_commissioningInfoSave
Saved(b) == [b EXCEPT !.fn = FALSE, !.mode = @ \cup {"steer"}]

\* bdb_retrieveTcLinkKeyDone; the timer it stops is the one that finding and
\* binding uses too
KeyDone(b, ok) == [b EXCEPT !.timer = "off", !.on = ok,
                            !.status = IF ok THEN "SUCCESS" ELSE "TCLK_EX_FAILURE"]
KeyDoneTask(ok) == IF ok THEN <<"PERMITJOIN">> ELSE <<"STEER_FINISH">>

\* bdb_touchLinkCallback for a touch link that is over
TouchStatus(b, how) ==
  CASE how = "NO_SERVER" -> IF b.fn THEN "NO_SCAN_RESPONSE" ELSE "TARGET_FAILURE"
    [] how = "SUCC" -> "SUCCESS"
    [] OTHER -> IF b.fn THEN "TARGET_FAILURE" ELSE "SUCCESS"
TouchTask(b, how) == IF how = "NO_SERVER" /\ b.fn THEN <<"NO_RESP">> ELSE <<"TL_FINISH">>
-----------------------------------------------------------------------------
(* Starts: by the host, by the light's timer, over BLE *)

Mode == [steer |-> {"steer"}, form |-> {"form"}, find |-> {"find"},
         touchlink |-> {"steer", "touchlink"}]

\* bdb_networkSteerStart and its like: the mode is set before anything else
Start(kind, role) ==
  LET b == [bdb EXCEPT !.mode = Mode[kind]] IN
  /\ Called(Started(b, role), StartTask(b))
  /\ story' = IF CanStart(b) THEN [story EXCEPT !.owed = @ + 1]
              ELSE [story EXCEPT !.swapped = @ \/ b.mode # bdb.mode]

\* zbhci_bdbCmdHandler
HostStart ==
  /\ Happens("start")
  /\ \E kind \in DOMAIN Mode, role \in {"INITIATOR", "TARGET"} :
       /\ kind \in {"steer", "form"} => role = "TARGET"
       /\ kind = "find" => bdb.on
       /\ Start(kind, role)
  /\ UNCHANGED <<later, net>>

\* sampleLight_bdbNetworkSteerStart
SteerTimer ==
  /\ later["steer"] > 0
  /\ Happens("retry")
  /\ later' = [later EXCEPT !["steer"] = @ - 1]
  /\ Start("steer", "TARGET")
  /\ UNCHANGED net

\* zb_ble_hci_cmd_handler; the handle it cancels is never set
DirectCmd ==
  /\ Happens("direct")
  /\ Arm("direct")
  /\ UNCHANGED <<bdb, tasks, net, story>>

\* sampleLight_bdbNetworkJoinDirect: the timer stays until this succeeds
JoinDirect ==
  /\ later["direct"] > 0
  /\ bdb.state = "IDLE"
  /\ later' = [later EXCEPT !["direct"] = @ - 1]
  /\ net' = [net EXCEPT !.ops = @ \cup {"start"}]
  /\ UNCHANGED <<bdb, tasks, left, story>>
-----------------------------------------------------------------------------
(* bdb_task and the other tasks *)

Task(t) == tasks # <<>> /\ Head(tasks) = t

\* an event in the state it is meant for
Event(state, evts) == tasks # <<>> /\ Head(tasks) \in evts /\ bdb.state = state

Events == {"INIT_DONE"} \cup UNION {Meant[s] : s \in DOMAIN Meant}

InitDone ==
  /\ Event("INIT", Events)
  /\ \E q \in IF Head(tasks) = "INIT_DONE" /\ bdb.on /\ bdb.ok THEN {<<>>, <<"INFO_SAVE">>}
              ELSE {<<>>} :
       Ran([bdb EXCEPT !.state = "IDLE"], q)
  /\ ArmIf(Head(tasks) = "INIT_DONE" /\ bdb.ok /\ ~bdb.on, "steer")
  /\ UNCHANGED <<net, left, story>>

\* any other state: the event is dropped
Dropped ==
  /\ tasks # <<>> /\ Head(tasks) \in Events
  /\ bdb.state # "INIT" /\ Head(tasks) \notin Meant[bdb.state]
  /\ Ran(bdb, <<>>)
  /\ UNCHANGED <<later, net, left, story>>

CommissionStart ==
  /\ Event("IDLE", {"START"})
  /\ "touchlink" \notin bdb.mode
  /\ IF "steer" \in bdb.mode
     THEN /\ Ran([bdb EXCEPT !.state = "STEER"], IF bdb.on THEN <<"PERMIT_CNF">> ELSE <<>>)
          /\ net' = [net EXCEPT !.ops = IF bdb.on THEN @ ELSE @ \cup {"join"}]
          /\ UNCHANGED <<later, story>>
     ELSE LET phase == FormPhase(bdb) IN
          IF phase = "IDLE"
          THEN Ran([bdb EXCEPT !.attr = "NO_NETWORK"], <<>>) /\ AppHears("NO_NETWORK") /\ story' = Told
          ELSE /\ Ran(Entered(bdb, phase), <<>>)
               /\ net' = [net EXCEPT !.ops = @ \cup PhaseOp(phase)]
               /\ UNCHANGED <<later, story>>
  /\ UNCHANGED left

\* zcl_touchLinkStart: it may be busy as a target, or find no buffer
TouchStart ==
  /\ Event("IDLE", {"START"})
  /\ "touchlink" \in bdb.mode
  /\ IF bdb.role = "TARGET"
     THEN Ran([bdb EXCEPT !.attr = "NO_NETWORK"], <<>>) /\ AppHears("NO_NETWORK") /\ story' = Told
     ELSE /\ UNCHANGED <<later, story>>
          /\ IF net.touch # "off"
             THEN /\ Ran([bdb EXCEPT !.state = "TOUCHLINK", !.status = TouchStatus(bdb, "BUSY")],
                         <<"TL_FINISH">>)
                  /\ UNCHANGED net
             ELSE /\ Ran([bdb EXCEPT !.state = "TOUCHLINK"], <<>>)
                  /\ \E got \in BOOLEAN :
                       net' = [net EXCEPT !.touch = IF got THEN "scan" ELSE "off"]
  /\ UNCHANGED left

RejoinDone == Event("IDLE", Finish) /\ Confirm(bdb, "IDLE")

\* no answer to the scan: classic commissioning follows, if it can start; if not,
\* the attempt is over and the application is not told
TouchNoResp ==
  /\ Event("TOUCHLINK", {"NO_RESP"})
  /\ LET b == [bdb EXCEPT !.mode = @ \ {"touchlink"}, !.state = "IDLE", !.attr = bdb.status] IN
     /\ Ran(Started(b, "TARGET"), StartTask(b))
     /\ story' = [story EXCEPT !.untold = @ \/ (~CanStart(b) /\ story.owed > 0),
                               !.cut = @ \/ net.touch = "scan"]
  /\ UNCHANGED <<later, net, left>>

TouchDone == Event("TOUCHLINK", {"TL_FINISH"}) /\ Confirm(bdb, "IDLE")

Retrieve ==
  /\ Event("STEER", {"RETRIEVE"})
  /\ Ran(bdb, <<>>)
  /\ Arm("key")
  /\ UNCHANGED <<net, left, story>>

PermitJoin ==
  /\ Event("STEER", {"PERMITJOIN"})
  /\ Ran(bdb, <<"PERMIT_CNF">>)
  /\ UNCHANGED <<later, net, left, story>>

FormPermitJoin ==
  /\ Event("FORMATION", {"FORM_PERMITJOIN"})
  /\ Ran([bdb EXCEPT !.mode = @ \cup {"steer"}], <<"PERMIT_CNF">>)
  /\ UNCHANGED <<later, net, left, story>>

\* a phase is over: the next one, or the outcome
NextPhase(phase) ==
  IF phase = "IDLE" THEN Confirm(bdb, "IDLE")
  ELSE /\ Ran(Entered(bdb, phase), <<>>)
       /\ net' = [net EXCEPT !.ops = @ \cup PhaseOp(phase)]
       /\ UNCHANGED <<later, left, story>>

SteerFinish == Event("STEER", Finish) /\ NextPhase(FormPhase(bdb))

FormFinish == Event("FORMATION", {"FORM_FINISH"}) /\ NextPhase(FindPhase(bdb))

FindFinish ==
  Event("FINDORBIND", {"FB_FINISH"}) /\ Confirm([bdb EXCEPT !.queue = 0], "IDLE")

\* bdb_commissioningFindBindSimpleDescReq
FindRequest ==
  /\ Event("FINDORBIND", {"FB_REQ"})
  /\ Ran(bdb, <<>>)
  /\ net' = [net EXCEPT !.simple = IF bdb.role = "INITIATOR" /\ @ < MaxAsked
                                     THEN @ + 1 ELSE @]
  /\ UNCHANGED <<later, left, story>>

BugPermitCnf ==
  /\ Task("PERMIT_CNF")
  /\ LET b == [bdb EXCEPT !.status = "SUCCESS"] IN
     Ran(IF bdb.on THEN Saved(b) ELSE b,
         IF bdb.state = "STEER" THEN <<"STEER_FINISH">> ELSE <<>>)
  /\ UNCHANGED <<later, net, left, story>>

\* bdb_mgmtPermitJoiningConfirm
PermitCnf ==
  /\ Task("PERMIT_CNF")
  /\ LET b == [bdb EXCEPT !.status = "SUCCESS"] IN
     Ran(IF bdb.on THEN Saved(b) ELSE b,
         CASE bdb.state = "STEER" -> <<"STEER_FINISH">>
           [] bdb.state = "FORMATION" -> <<"FORM_FINISH">>
           [] OTHER -> <<>>)
  /\ UNCHANGED <<later, net, left, story>>

InfoSave ==
  /\ Task("INFO_SAVE")
  /\ Ran(Saved(bdb), <<>>)
  /\ UNCHANGED <<later, net, left, story>>

BugSimpleSend ==
  /\ Task("SIMPLE_SEND")
  /\ IF bdb.queue >= 0
     THEN Ran([bdb EXCEPT !.queue = @ - 1, !.timer = "simple"], <<"FB_REQ">>)
     ELSE Ran([bdb EXCEPT !.status = "SUCCESS"], <<"FB_FINISH">>)
  /\ UNCHANGED <<later, net, left, story>>

\* bdb_simpleDescReqSend: the next peer of the queue, or the end
SimpleSend ==
  /\ Task("SIMPLE_SEND")
  /\ IF bdb.queue > 0
     THEN Ran([bdb EXCEPT !.queue = @ - 1, !.timer = "simple"], <<"FB_REQ">>)
     ELSE Ran([bdb EXCEPT !.status = "SUCCESS"], <<"FB_FINISH">>)
  /\ UNCHANGED <<later, net, left, story>>
-----------------------------------------------------------------------------
(* Answers of the network layer *)

\* bdb_zdoStartDevCnf: an operation of the network layer is over.  In a steered
\* network with a trust center the link key is asked for next.
StartDevCnf(op, ok) ==
  LET on == [bdb EXCEPT !.on = TRUE, !.status = "SUCCESS"] IN
  /\ op \in net.ops
  /\ net' = [net EXCEPT !.ops = @ \ {op}, !.joined = ok \/ (@ /\ op \notin {"start", "rejoin"}),
                         !.touch = IF bdb.state = "TOUCHLINK" /\ ~ok THEN "off" ELSE @]
  /\ CASE bdb.state = "IDLE" ->
            /\ \E q \in IF ok THEN {<<>>, <<"INFO_SAVE">>} ELSE {<<>>} :
                 Called(IF ok THEN on ELSE [bdb EXCEPT !.status = "REJOIN_FAILURE"],
                        Append(q, "REJOIN_DONE"))
            /\ UNCHANGED later
       [] bdb.state = "INIT" ->
            Called([bdb EXCEPT !.ok = ok], <<"INIT_DONE">>) /\ UNCHANGED later
       [] bdb.state = "TOUCHLINK" ->
            /\ IF ok
               THEN Called([bdb EXCEPT !.on = TRUE],
                           IF bdb.role = "TARGET" THEN <<"INFO_SAVE", "DIRECT_JOIN">>
                           ELSE <<"INFO_SAVE">>)
               ELSE Called([bdb EXCEPT !.status = TouchStatus(bdb, "FAIL")], TouchTask(bdb, "FAIL"))
            /\ UNCHANGED later
       [] bdb.state = "STEER" /\ ok ->
            Called(on, <<>>) /\ \E s \in {"RETRIEVE", "PERMITJOIN"} : Arm(s)
       [] bdb.state = "STEER" /\ ~ok ->
            Called([bdb EXCEPT !.status = "NO_NETWORK"], <<"STEER_FINISH">>) /\ UNCHANGED later
       [] bdb.state = "FORMATION" ->
            /\ Called(IF ok THEN on ELSE [bdb EXCEPT !.status = "FORMATION_FAILURE"],
                      IF ok THEN <<"FORM_PERMITJOIN">> ELSE <<"FORM_FINISH">>)
            /\ UNCHANGED later
       [] OTHER -> UNCHANGED <<bdb, tasks, later>>
  /\ story' = [story EXCEPT
       !.late = @ \/ op \notin OwnOp[bdb.state] \/ (bdb.state = "IDLE" /\ bdb.attr = "IN_PROGRESS"),
       !.unheard = @ \/ (bdb.state = "IDLE" /\ ~ok)]
  /\ UNCHANGED left

\* bdb_nodeDescRespHandler: it does not look at the state.  The trust center is
\* asked for a key unless it is older than revision 21, or that cannot be sent.
NodeDescResp ==
  /\ net.node > 0
  /\ \/ net' = [net EXCEPT !.node = @ - 1] /\ UNCHANGED <<bdb, tasks>>
     \/ /\ net' = [net EXCEPT !.node = @ - 1, !.key = TRUE]
        /\ bdb' = [bdb EXCEPT !.on = FALSE]
        /\ UNCHANGED tasks
     \/ /\ net' = [net EXCEPT !.node = @ - 1]
        /\ Called(KeyDone(bdb, TRUE), KeyDoneTask(TRUE))
  /\ Late(bdb.state # "STEER" \/ bdb.timer # "key")
  /\ UNCHANGED <<later, left>>

\* the key came and was verified, or was refused
KeyResult(ok) ==
  /\ net.key
  /\ net' = [net EXCEPT !.key = FALSE]
  /\ Called(KeyDone(bdb, ok), KeyDoneTask(ok))
  /\ Late(bdb.state # "STEER" \/ bdb.timer # "key")
  /\ UNCHANGED <<later, left>>

\* sampleLight_leaveCnfHandler: the light will restart
LeaveCnf ==
  /\ net.leave
  /\ net' = [net EXCEPT !.leave = FALSE, !.joined = FALSE, !.node = 0, !.key = FALSE]
  /\ Arm("reset")
  /\ UNCHANGED <<bdb, tasks, left, story>>

\* sampleLight_recoveryStart
Restart ==
  /\ later["reset"] > 0
  /\ bdb' = FreshBdb(~net.joined) /\ tasks' = FreshTasks(~net.joined)
  /\ net' = FreshNet(~net.joined) /\ later' = NoShots
  /\ story' = [Told EXCEPT !.unheard = FALSE]
  /\ UNCHANGED left
-----------------------------------------------------------------------------
(* Timers *)

\* bdb_task_delay
TaskDelay(s) ==
  /\ s \in {"RETRIEVE", "PERMITJOIN"} /\ later[s] > 0
  /\ later' = [later EXCEPT ![s] = @ - 1]
  /\ Called(bdb, <<s>>)
  /\ UNCHANGED <<net, left, story>>

\* zb_zdoNodeDescReq to the trust center
AskNode == net' = [net EXCEPT !.node = IF @ < MaxAsked THEN @ + 1 ELSE @]

\* bdb_retrieveTcLinkKeyStart, whatever has happened since it was scheduled
KeyStart ==
  /\ later["key"] > 0
  /\ later' = [later EXCEPT !["key"] = @ - 1]
  /\ AskNode
  /\ bdb' = [bdb EXCEPT !.leaving = FALSE, !.tries = 0,
                        !.timer = IF @ = "off" THEN "key" ELSE @]
  /\ UNCHANGED <<tasks, left, story>>

\* bdb_retrieveTcLinkKeyTimeout: ask again, then leave the network, and give up
\* when that is done
KeyTimeout ==
  /\ bdb.timer = "key"
  /\ IF bdb.tries < MaxAttempts
     THEN AskNode /\ bdb' = [bdb EXCEPT !.tries = @ + 1] /\ UNCHANGED tasks
     ELSE IF net.joined
          THEN /\ ~bdb.leaving
               /\ \E ok \in BOOLEAN :
                    /\ bdb' = [bdb EXCEPT !.leaving = ok]
                    /\ net' = [net EXCEPT !.leave = @ \/ ok]
               /\ UNCHANGED tasks
          ELSE /\ Called(KeyDone([bdb EXCEPT !.tries = 0], FALSE), KeyDoneTask(FALSE))
               /\ UNCHANGED net
  /\ UNCHANGED <<later, left, story>>

\* bdb_findBindIdentifyQueryTimeout, bdb_simpleDescReqTimeoutCb, and the last
\* call of bdb_findBindIdentifyTimeout
FindTimeout ==
  /\ bdb.timer \in {"query", "simple", "target"}
  /\ LET b == [bdb EXCEPT !.timer = "off"] IN
     CASE bdb.timer = "target" -> Called([b EXCEPT !.status = "SUCCESS"], <<"FB_FINISH">>)
       [] bdb.timer = "query" /\ bdb.queue = 0 ->
            Called([b EXCEPT !.status = "NO_IDENTIFY_QUERY_RESPONSE"], <<"FB_FINISH">>)
       [] OTHER -> Called(b, <<"SIMPLE_SEND">>)
  /\ UNCHANGED <<later, net, left, story>>
-----------------------------------------------------------------------------
(* Finding and binding *)

\* bdb_addIdentifyActiveEpForFB, for every answer to the identify query
AddPeer ==
  /\ Happens("peer")
  /\ bdb.state = "FINDORBIND" /\ bdb.role = "INITIATOR" /\ bdb.queue < QueueSize - 1
  /\ bdb' = [bdb EXCEPT !.queue = @ + 1]
  /\ UNCHANGED <<tasks, later, net, story>>

\* bdb_binding: a binding for every cluster of the list, which it frees
Binding(b) ==
  \/ Called([b EXCEPT !.match = FALSE, !.status = "BINDING_TABLE_FULL"], <<"FB_FINISH">>)
  \/ Called([b EXCEPT !.match = FALSE], <<"SIMPLE_SEND">>)

\* bdb_SimpleDescResp: in any state, for any request that was not answered yet.
\* A peer that has clusters to bind is bound at once if its address is known.
SimpleDescResp ==
  /\ net.simple > 0
  /\ LET n == [net EXCEPT !.simple = @ - 1]
         b == [bdb EXCEPT !.timer = "off"]
     IN \/ Called(bdb, <<"SIMPLE_SEND">>) /\ net' = n
        \/ bdb.match /\ UNCHANGED <<bdb, tasks>> /\ net' = n
        \/ ~bdb.match /\ Called(b, <<"SIMPLE_SEND">>) /\ net' = n
        \/ ~bdb.match /\ Binding(b) /\ net' = n
        \/ ~bdb.match /\ Called([b EXCEPT !.match = TRUE], <<>>) /\ net' = [n EXCEPT !.ieee = TRUE]
  /\ Late(bdb.state # "FINDORBIND")
  /\ UNCHANGED <<later, left>>

\* bdb_ieeeAddrResp: a failure is passed over
IeeeAddrResp ==
  /\ net.ieee
  /\ net' = [net EXCEPT !.ieee = FALSE]
  /\ Binding(bdb) \/ UNCHANGED <<bdb, tasks>>
  /\ Late(bdb.state # "FINDORBIND")
  /\ UNCHANGED <<later, left>>
-----------------------------------------------------------------------------
(* Touch link, as far as commissioning sees it *)

\* a scan request for this device as target takes commissioning over, in any
\* state, and stops a discovery; the event it posts means nothing anywhere
TargetScan ==
  /\ Happens("scan")
  /\ bdb.state = "INIT" => bdb.fn
  /\ net.touch = "off" \/ bdb.fn
  /\ bdb' = [bdb EXCEPT !.state = "TOUCHLINK", !.mode = @ \cup {"touchlink"}, !.role = "TARGET"]
  /\ \E stopped \in {{}, {"join"}} :
       net' = [net EXCEPT !.touch = "link", !.ops = @ \ stopped]
  /\ UNCHANGED <<tasks, later, story>>

\* the device joins or starts the network that was agreed on
TouchJoin ==
  /\ net.touch \in {"scan", "link"} /\ bdb.state = "TOUCHLINK"
  /\ net' = [net EXCEPT !.touch = "join", !.ops = @ \cup {"touch"}]
  /\ UNCHANGED <<bdb, tasks, later, left, story>>

\* zcl_zllTouchLinkFinish and bdb_touchLinkCallback
TouchFinish(how) ==
  /\ net.touch # "off"
  /\ how = "NO_SERVER" => net.touch = "scan"
  /\ how = "SUCC" => net.joined
  /\ Called([bdb EXCEPT !.status = TouchStatus(bdb, how)], TouchTask(bdb, how))
  /\ net' = [net EXCEPT !.touch = "off"]
  /\ UNCHANGED <<later, left, story>>

\* zcl_zllTouchLinkNetworkStartDirectJoin
DirectJoin ==
  /\ Task("DIRECT_JOIN")
  /\ IF net.touch # "off"
     THEN \E how \in {"SUCC", "FAIL"} :
            Ran([bdb EXCEPT !.status = TouchStatus(bdb, how)], TouchTask(bdb, how))
     ELSE Ran(bdb, <<>>)
  /\ net' = [net EXCEPT !.touch = "off"]
  /\ UNCHANGED <<later, left, story>>
-----------------------------------------------------------------------------
Op == {"start", "join", "form", "rejoin", "touch"}

RunTask ==
  \/ InitDone \/ Dropped \/ CommissionStart \/ TouchStart \/ RejoinDone \/ TouchNoResp
  \/ TouchDone \/ Retrieve \/ PermitJoin \/ FormPermitJoin \/ SteerFinish \/ FormFinish
  \/ FindFinish \/ FindRequest \/ PermitCnf \/ InfoSave \/ SimpleSend
  \/ DirectJoin

Timers ==
  \/ KeyStart \/ KeyTimeout \/ FindTimeout \/ SteerTimer \/ JoinDirect \/ Restart
  \/ \E s \in Shot : TaskDelay(s)

Done == \E op \in Op, ok \in BOOLEAN : StartDevCnf(op, ok)

TouchOver == \E how \in {"NO_SERVER", "SUCC", "FAIL"} : TouchFinish(how)

Next ==
  \/ RunTask \/ Timers \/ Done \/ LeaveCnf \/ TouchOver
  \/ NodeDescResp \/ (\E ok \in BOOLEAN : KeyResult(ok)) \/ SimpleDescResp \/ IeeeAddrResp
  \/ HostStart \/ DirectCmd \/ AddPeer \/ TargetScan \/ TouchJoin

Spec == Init /\ [][Next]_vars

FairSpec ==
  /\ Spec
  /\ WF_vars(RunTask) /\ WF_vars(Done) /\ WF_vars(LeaveCnf) /\ WF_vars(TouchOver)
  /\ WF_vars(Restart) /\ WF_vars(KeyStart) /\ WF_vars(KeyTimeout) /\ WF_vars(FindTimeout)
  /\ WF_vars(SteerTimer) /\ WF_vars(\E s \in Shot : TaskDelay(s))
-----------------------------------------------------------------------------
(* Correctness *)

Context ==
  [state : DOMAIN Meant, status : Status, attr : Status \cup {"IN_PROGRESS"},
   on : BOOLEAN, fn : BOOLEAN, mode : SUBSET {"steer", "form", "find", "touchlink"},
   role : {"INITIATOR", "TARGET"}, timer : {"off", "key", "query", "simple", "target"},
   tries : 0..MaxAttempts, leaving : BOOLEAN, queue : 0..(QueueSize - 1),
   match : BOOLEAN, ok : BOOLEAN]

Tasks == Events \cup {"PERMIT_CNF", "INFO_SAVE", "SIMPLE_SEND", "DIRECT_JOIN"}

Network ==
  [ops : SUBSET Op, joined : BOOLEAN, leave : BOOLEAN, node : 0..MaxAsked,
   key : BOOLEAN, simple : 0..MaxAsked, ieee : BOOLEAN,
   touch : {"off", "scan", "link", "join"}]

Story ==
  [owed : Nat, untold : BOOLEAN, late : BOOLEAN, swapped : BOOLEAN, unheard : BOOLEAN,
   cut : BOOLEAN]

TypeOK ==
  /\ bdb \in Context
  /\ tasks \in Seq(Tasks)
  /\ later \in [Shot -> 0..MaxShots]
  /\ net \in Network
  /\ left \in [Happening -> Nat]
  /\ story \in Story

\* The guard of bdb_topLevelCommissioning, read by the host, the retry timer and
\* the fall-back from touch link, lets one attempt in at a time: none is
\* accepted before the application was told the outcome of the one before,
\* unless an answer came too late or was taken for another's, or the fall-back
\* itself was refused, because the network layer was busy with a direct join: that
\* attempt is over and nobody is told.
OneAttempt == story.late \/ story.untold \/ story.owed <= 1

\* bdb_isIdle
Idle == bdb.state = "IDLE" /\ bdb.attr # "IN_PROGRESS"

Quiet ==
  /\ Idle /\ tasks = <<>> /\ net.ops = {} /\ net.touch = "off"
  /\ ~net.leave /\ ~net.key /\ net.node = 0 /\ bdb.timer = "off"
  /\ \A s \in Shot \ {"steer"} : later[s] = 0

\* A light that is in no network, with nothing going on that could get it into
\* one, knows that it is not, and its timer is set to try again: no order of
\* failures, key exchanges, leaves and touch links strands it.  Except after a
\* failed start of the device, where an answer came too late, where a start that
\* was refused turned the attempt in progress into another kind, where what was
\* left of an earlier touch link ended a later one, and where the failure of a
\* direct join was overwritten or its event dropped, so that the application never
\* heard of it.
KeepsTrying ==
  Quiet /\ ~net.joined /\ bdb.ok /\ ~story.late /\ ~story.swapped /\ ~story.cut /\ ~story.unheard =>
    ~bdb.on /\ later["steer"] > 0

\* zcl_touchLinkStart found no buffer and reports nothing
NoBuffer == bdb.state = "TOUCHLINK" /\ net.touch = "off" /\ net.ops = {} /\ tasks = <<>>

\* a key that comes when finding and binding has begun stops its timer, which is
\* the same member of a union
TimerTaken == story.late /\ bdb.state = "FINDORBIND"

\* Every attempt, and the start of the device, ends: the device becomes idle
\* again.  Except that finding and binding waits for the address of a peer
\* without a timer, and for the two reasons above.
Ends == ~Idle ~> (Idle \/ bdb.match \/ NoBuffer \/ TimerTaken)
=============================================================================
