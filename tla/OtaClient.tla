------------------------------ MODULE OtaClient ------------------------------
(***************************************************************************)
(* The client side of the OTA upgrade cluster: stack/zigbee/ota/ota.c with *)
(* the application callback of zb_appCb.c.                                 *)
(*                                                                         *)
(* A client asks its server for the next image every half hour, downloads  *)
(* an image block by block into a second flash area, and boots it when the *)
(* server says so.  All of this hangs on one timer, otaTimer, whose        *)
(* callback is replaced as the download goes on, and on scheduled tasks.   *)
(* Responses may come at any time: late, twice, not at all, or from an     *)
(* older exchange.  Power may be lost between any two events; the position *)
(* of the download and the file header are then recovered from NV.         *)
(*                                                                         *)
(* The image is N blocks, of which the first holds the OTA header and the  *)
(* others the firmware.  The code's rule that a download is only resumed   *)
(* beyond its first 4096 bytes is ResumeMin.  How long a timer runs is     *)
(* left open.  Sending a request changes no state of the client but the    *)
(* ZDO requests whose answers it waits for.                                *)
(***************************************************************************)
EXTENDS Integers, Sequences, FiniteSets

CONSTANTS File,          \* the firmware versions a server may offer
          NoFile,
          N,             \* blocks of an image
          ResumeMin,     \* blocks after which a download may be resumed
          BlockRetries,  \* OTA_MAX_IMAGE_BLOCK_RETRIES
          EndRetries,    \* OTA_MAX_UPGRADE_END_REQ_RETRIES
          AddrRetries,   \* OTA_IEEE_ADDR_REQ_RETRIES
          MaxTasks,      \* bound on the tasks waiting
          Worlds         \* which files are offered and what may go wrong

\* "crash" power loss, "buffer" no free buffer, "bad" corrupt block data,
\* "reject" the server answers the upgrade end request with an abort,
\* "slow" it asks for a delay between block requests
Mishap == {"crash", "buffer", "bad", "reject", "slow"}

ASSUME OtaAssumption ==
  /\ NoFile \notin File
  /\ N \in Nat /\ ResumeMin \in 1..N /\ N > 1
  /\ {BlockRetries, EndRetries, AddrRetries, MaxTasks} \subseteq Nat \ {0}
  /\ Worlds \subseteq [offers : SUBSET File, mishaps : SUBSET Mishap]

VARIABLES m,     \* the client's memory
          nv,    \* the items of NV_MODULE_OTA
          img,   \* the flash area for the new image
          world  \* the member of Worlds this behaviour is about

vars == <<m, nv, img, world>>

May(x) == x \in world.mishaps

NoNv == [hdr |-> NoFile, info |-> NoFile]

NoImage == [k \in 2..N |-> NoFile]

\* Two fields are history: how is the event after which nothing drove the client
\* any more, astray says that the client restarted from a saved position beyond
\* the one it had reached
Fresh == [status |-> "NORMAL", off |-> 0, ver |-> NoFile, flag |-> "INIT", ioff |-> 0,
          crc |-> NoFile, retry |-> 0, endRetry |-> 0, addrTry |-> 0, period |-> FALSE,
          server |-> FALSE, buf |-> FALSE, asked |-> {}, timer |-> "off", tasks |-> <<>>,
          how |-> "none", astray |-> FALSE]

\* something will go on by itself (saving the position leads to nothing else)
Driven(x) == \/ x.timer # "off" \/ x.status = "REBOOTED"
             \/ \E i \in 1..Len(x.tasks) : x.tasks[i] # "save"

\* the event named e leaves the client's memory as x
Becomes(x, e) ==
  m' = [x EXCEPT !.how = IF Driven(x) THEN "none" ELSE IF Driven(m) THEN e ELSE @]

-----------------------------------------------------------------------------
(* What the handlers share *)

Arm(x, cb) == [x EXCEPT !.timer = cb]
Disarm(x) == Arm(x, "off")
Post(x, t) == [x EXCEPT !.tasks = Append(@, t)]
Ask(x, q) == [x EXCEPT !.asked = @ \cup {q}]

\* ota_sendImageBlockReq
SendBlockReq(x) == Arm(x, IF x.period THEN "delay" ELSE "blockRsp")

\* ota_queryStart
QueryStart(x) == IF x.timer = "off" THEN Arm(x, "query") ELSE x

\* what ota_newImageValid finds in the flash
ImageValid == \E v \in File : \A k \in 2..N : img[k] = v

Forgotten(x) == [x EXCEPT !.off = 0, !.ver = NoFile, !.flag = "INIT", !.ioff = 0,
                          !.crc = NoFile, !.astray = FALSE]

\* bug: a failed upgrade leaves the query to the next event
BugCompleted(x, st) ==
  LET y == [x EXCEPT !.buf = FALSE, !.status = "NORMAL"]
  IN CASE st = "SUCCESS" -> IF ImageValid THEN [y EXCEPT !.status = "REBOOTED"] ELSE y
       [] st = "ABORT"   -> QueryStart(y)
       [] st = "INVALID" -> Forgotten(y)

\* ota_upgradeComplete: a success reboots into the new image if it is valid,
\* anything else starts the periodic query unless otaTimer is in use
Completed(x, st) ==
  LET y == [x EXCEPT !.buf = FALSE, !.status = "NORMAL"]
  IN CASE st = "SUCCESS" -> IF ImageValid THEN [y EXCEPT !.status = "REBOOTED"] ELSE y
       [] st = "ABORT"   -> QueryStart(y)
       [] st = "INVALID" -> QueryStart(Forgotten(y))

-----------------------------------------------------------------------------
(* Start-up: ota_init with ota_clientInfoRecover, then ota_queryStart.      *)

Booted ==
  LET x == [Fresh EXCEPT !.timer = "query"]
  IN IF nv.hdr = NoFile \/ nv.info = NoFile THEN x
     ELSE [x EXCEPT !.ver = nv.hdr, !.server = TRUE, !.off = nv.info.off,
                    !.ioff = nv.info.off, !.crc = nv.info.crc, !.flag = nv.info.flag,
                    !.astray = m.astray \/ nv.info.off > m.off]

Init ==
  /\ world \in Worlds
  /\ nv = NoNv /\ img = NoImage
  /\ m = [Fresh EXCEPT !.timer = "query"]

Crash ==
  /\ May("crash")
  /\ m' = Booted
  /\ UNCHANGED <<nv, img, world>>

-----------------------------------------------------------------------------
(* otaTimer expires.  A callback that returns -1 stops the timer, also if   *)
(* it has just set it for something else.                                  *)

\* ota_periodicQueryServerCb; whether the server's short address is still
\* known is left open
QueryTimer ==
  /\ m.timer = "query"
  /\ \/ UNCHANGED m
     \/ m.flag = "INIT" /\ Becomes(Ask(m, IF m.server THEN "nwk" ELSE "match"), "query")
  /\ UNCHANGED <<nv, img, world>>

\* ota_ieeeAddrRspWait
AddrTimer ==
  /\ m.timer = "addr"
  /\ IF m.addrTry + 1 >= AddrRetries
       THEN Becomes(Disarm(Completed([m EXCEPT !.addrTry = 0], "ABORT")), "addr")
       ELSE Becomes(Ask([m EXCEPT !.addrTry = @ + 1], "ieee"), "addr")
  /\ UNCHANGED <<nv, img, world>>

\* bug: the last retry is not followed by anything
BugBlockRspTimer ==
  /\ m.timer = "blockRsp"
  /\ LET r == m.retry + 1
         x == Disarm([m EXCEPT !.retry = IF r > BlockRetries THEN @ ELSE r])
     IN Becomes(IF r > BlockRetries THEN x ELSE Post(x, "sendBlock"), "blockRsp")
  /\ UNCHANGED <<nv, img, world>>

\* ota_imageBlockRspWait
BlockRspTimer ==
  /\ m.timer = "blockRsp"
  /\ LET r == m.retry + 1
         x == Disarm([m EXCEPT !.retry = IF r > BlockRetries THEN @ ELSE r])
     IN Becomes(Post(x, IF r >= BlockRetries THEN "blockTimeout" ELSE "sendBlock"), "blockRsp")
  /\ UNCHANGED <<nv, img, world>>

\* ota_sendImageBlockReqDelay
DelayTimer ==
  /\ m.timer = "delay"
  /\ Becomes(Post(Disarm(m), "sendBlockNow"), "delay")
  /\ UNCHANGED <<nv, img, world>>

\* ota_imageBlockWaitCb
WaitTimer ==
  /\ m.timer = "wait"
  /\ Becomes(IF m.status = "IN_PROGRESS" THEN Post(Disarm(m), "sendBlockNow")
             ELSE Disarm(m), "wait")
  /\ UNCHANGED <<nv, img, world>>

\* bug: one request too many
BugDue(x) == \/ x.status = "COUNT_DOWN"
             \/ x.status \in {"COMPLETE", "WAITING"} /\ x.endRetry >= EndRetries

\* ota_upgrade: the upgrade is due, or the server is asked again
Due(x) == \/ x.status = "COUNT_DOWN"
          \/ x.status \in {"COMPLETE", "WAITING"} /\ x.endRetry + 1 >= EndRetries

Upgraded(x) ==
  IF Due(x) THEN Completed(x, "SUCCESS")
  ELSE IF x.status \in {"COMPLETE", "WAITING"}
    THEN Post([x EXCEPT !.endRetry = @ + 1], "endAgain")
  ELSE x

\* ota_upgradeWaitCb
UpgradeTimer ==
  /\ m.timer = "upgrade"
  /\ Becomes(Disarm(Upgraded(m)), IF Due(m) THEN "boot" ELSE "upgrade")
  /\ nv' = IF Due(m) THEN NoNv ELSE nv
  /\ UNCHANGED <<img, world>>

OtaTimer == QueryTimer \/ AddrTimer \/ BlockRspTimer \/ DelayTimer \/ WaitTimer \/ UpgradeTimer

-----------------------------------------------------------------------------
(* Scheduled tasks, run in the order they were posted *)

Snapshot == [off |-> m.ioff, crc |-> m.crc, flag |-> m.flag]

RunTask ==
  /\ m.tasks # <<>>
  /\ LET x == [m EXCEPT !.tasks = Tail(@)]
         t == Head(m.tasks)
     IN /\ Becomes(CASE t = "blockTimeout" -> Completed(x, "ABORT")
                     [] t = "sendBlock"    -> SendBlockReq(x)
                     [] t = "sendBlockNow" -> Arm(x, "blockRsp")
                     [] t = "endAgain"     -> Arm(x, "upgrade")
                     [] t = "addrReqSend"  -> Arm(Ask(x, "ieee"), "addr")
                     [] t = "save"         -> x, t)
        \* not every block's position is saved
        /\ \/ t = "save" /\ nv' = [nv EXCEPT !.info = Snapshot]
           \/ ~(t = "save" /\ m.status = "COMPLETE") /\ UNCHANGED nv
  /\ UNCHANGED <<img, world>>

-----------------------------------------------------------------------------
(* Responses *)

\* the position reached belongs to the file offered
Resumable(v) == m.ver = v /\ m.off > ResumeMin

\* ota_queryNextImageRspHandler, for a file or (NoFile) for no suitable one
QueryRsp(v) ==
  /\ m.status # "IN_PROGRESS"
  /\ LET x == Disarm([m EXCEPT !.retry = 0, !.status = "IN_PROGRESS"])
         y == [x EXCEPT !.off = 0, !.crc = NoFile, !.ver = v, !.astray = FALSE]
     IN IF v = NoFile
          THEN Becomes([m EXCEPT !.retry = 0], "query") /\ UNCHANGED <<nv, img>>
        ELSE IF Resumable(v) /\ m.ioff = N /\ m.crc = v /\ img[N] = v
          THEN Becomes(Completed(x, "SUCCESS"), "boot") /\ nv' = NoNv /\ UNCHANGED img
        ELSE IF Resumable(v) /\ m.ioff # N
          THEN Becomes(SendBlockReq(x), "query") /\ UNCHANGED <<nv, img>>
        ELSE /\ img' = NoImage
             /\ \/ Becomes(IF m.server THEN SendBlockReq([y EXCEPT !.buf = TRUE, !.flag = "HDR"])
                           ELSE Post([y EXCEPT !.buf = TRUE], "addrReqSend"), "query")
                \/ May("buffer") /\ Becomes([y EXCEPT !.buf = FALSE], "buffer")
             /\ UNCHANGED nv
  /\ UNCHANGED world

\* ota_imageDataProcess takes block m.off + 1 of file v
Accepted(v) ==
  LET k == m.off + 1
  IN IF k = 1 THEN m.flag = "HDR" /\ m.buf
     ELSE /\ m.flag = "BODY"
          /\ img[k] \in {NoFile, v}
          /\ k = N => (IF k = 2 THEN NoFile ELSE v) = m.crc

\* and what it keeps of it: the header completes in block 1, the CRC runs over
\* the others
Stored(x, v) ==
  IF x.off = 0 THEN [x EXCEPT !.off = 1, !.flag = "BODY", !.buf = FALSE]
  ELSE [x EXCEPT !.off = @ + 1, !.ioff = x.off + 1,
                 !.crc = IF x.off = 1 \/ @ = v THEN v ELSE NoFile]

\* bug: a block is taken wherever it belongs
BugInSequence(k) == m.off < N

\* only the block asked for is taken
InSequence(k) == k = m.off + 1

\* ota_imageBlockRspHandler, with block k of file v
BlockRsp(v, k) ==
  /\ m.status = "IN_PROGRESS"
  /\ LET x == Disarm([m EXCEPT !.retry = 0])
         y == Stored(x, v)
         z == Post(y, "save")
         invalid == Becomes(Completed(x, "INVALID"), "invalid") /\ nv' = NoNv /\ UNCHANGED img
     IN IF v # m.ver
          THEN Becomes([m EXCEPT !.status = "NORMAL"], "mismatch") /\ UNCHANGED <<nv, img>>
        ELSE /\ InSequence(k)
             /\ \/ (~Accepted(v) \/ May("bad")) /\ invalid
                \/ /\ Accepted(v)
                   /\ Becomes(IF y.off = N
                                THEN Arm([z EXCEPT !.status = "COMPLETE", !.endRetry = 0], "upgrade")
                                ELSE SendBlockReq(z), "block")
                   /\ nv' = IF m.off = 0 THEN [nv EXCEPT !.hdr = v] ELSE nv
                   /\ img' = IF m.off = 0 THEN img ELSE [img EXCEPT ![k] = v]
  /\ UNCHANGED world

\* the same with status WAIT_FOR_DATA: for some seconds, or with a new block
\* request delay
WaitRsp ==
  /\ m.status = "IN_PROGRESS"
  /\ \/ Becomes(Arm([m EXCEPT !.retry = 0], "wait"), "wait")
     \/ \E p \in BOOLEAN : /\ p => May("slow")
                          /\ Becomes(SendBlockReq([m EXCEPT !.period = p]), "wait")
  /\ UNCHANGED <<nv, img, world>>

\* the same with status ABORT
AbortRsp ==
  /\ m.status = "IN_PROGRESS"
  /\ Becomes(Completed(Disarm([m EXCEPT !.retry = 0]), "ABORT"), "abort")
  /\ UNCHANGED <<nv, img, world>>

\* ota_upgradeEndRspHandler: upgrade now, later, or when told
EndRsp(when) ==
  /\ m.status = "COMPLETE" \/ (m.status = "WAITING" /\ when # "unknown")
  /\ CASE when = "now"     -> /\ Becomes(Completed([m EXCEPT !.status = "COUNT_DOWN"], "SUCCESS"), "boot")
                              /\ nv' = NoNv
       [] when = "later"   -> /\ Becomes(Arm([m EXCEPT !.status = "COUNT_DOWN"], "upgrade"), "end")
                              /\ UNCHANGED nv
       [] when = "unknown" -> /\ Becomes(Arm([m EXCEPT !.status = "WAITING", !.endRetry = 0],
                                             "upgrade"), "end")
                              /\ UNCHANGED nv
  /\ UNCHANGED <<img, world>>

\* a default response with status ABORT to the upgrade end request
RejectRsp ==
  /\ May("reject") /\ m.status = "COMPLETE"
  /\ Becomes(Completed(m, "ABORT"), "reject")
  /\ UNCHANGED <<nv, img, world>>

Answered(q) == [m EXCEPT !.asked = @ \ {q}]

\* ota_matchDescRspCb
MatchRsp ==
  /\ "match" \in m.asked
  /\ Becomes(Ask(Answered("match"), "ieee"), "match")
  /\ UNCHANGED <<nv, img, world>>

\* ota_nwkAddrReqCb
NwkRsp ==
  /\ "nwk" \in m.asked
  /\ LET x == Answered("nwk")
     IN Becomes(IF m.flag = "INIT" THEN x ELSE SendBlockReq([x EXCEPT !.retry = 0]), "nwk")
  /\ UNCHANGED <<nv, img, world>>

\* ota_ieeeAddrRspCb
IeeeRsp(ok) ==
  /\ "ieee" \in m.asked
  /\ LET x == [Answered("ieee") EXCEPT !.server = @ \/ ok]
     IN Becomes(IF m.status # "IN_PROGRESS" \/ m.flag # "INIT" THEN x
                ELSE IF ok THEN [SendBlockReq(x) EXCEPT !.flag = "HDR"]
                ELSE Completed(Disarm(x), "ABORT"), "ieee")
  /\ UNCHANGED <<nv, img, world>>

Room == Len(m.tasks) < MaxTasks

Response ==
  /\ Room
  /\ \/ \E v \in world.offers \cup {NoFile} : QueryRsp(v)
     \/ \E v \in world.offers, k \in 1..N : BlockRsp(v, k)
     \/ \E w \in {"now", "later", "unknown"} : EndRsp(w)
     \/ WaitRsp \/ AbortRsp \/ RejectRsp
     \/ MatchRsp \/ NwkRsp \/ \E ok \in BOOLEAN : IeeeRsp(ok)

-----------------------------------------------------------------------------
\* the main loop: tasks and timers
Run == m.status # "REBOOTED" /\ (RunTask \/ (Room /\ OtaTimer))

Next == Run \/ (m.status # "REBOOTED" /\ (Response \/ Crash))

Spec == Init /\ [][Next]_vars

\* the main loop runs tasks, and timers that expire
FairSpec == Spec /\ WF_vars(m.status # "REBOOTED" /\ RunTask)
                 /\ WF_vars(m.status # "REBOOTED" /\ Room /\ OtaTimer)
-----------------------------------------------------------------------------
(* Correctness *)

Snapshots == [off : 0..N, crc : File \cup {NoFile}, flag : {"INIT", "HDR", "BODY"}]

Statuses == {"NORMAL", "IN_PROGRESS", "COMPLETE", "WAITING", "COUNT_DOWN", "REBOOTED"}

Timers == {"off", "query", "addr", "blockRsp", "delay", "wait", "upgrade"}

Tasks == {"blockTimeout", "sendBlock", "sendBlockNow", "endAgain", "addrReqSend", "save"}

\* what how may name: a timer, a task or a response
Events == Timers \cup Tasks
            \cup {"none", "boot", "buffer", "invalid", "mismatch", "block", "abort", "end",
                  "reject", "match", "nwk", "ieee"}

Memory == [status : Statuses, off : 0..N, ver : File \cup {NoFile},
           flag : {"INIT", "HDR", "BODY"}, ioff : 0..N, crc : File \cup {NoFile},
           retry : 0..BlockRetries, endRetry : 0..(EndRetries - 1),
           addrTry : 0..(AddrRetries - 1), period : BOOLEAN, server : BOOLEAN, buf : BOOLEAN,
           asked : SUBSET {"match", "nwk", "ieee"}, timer : Timers, tasks : Seq(Tasks),
           how : Events, astray : BOOLEAN]

\* The client's memory, its NV items and the new image are well formed: no retry
\* counter passes its limit and no position leaves the image.
TypeOK ==
  /\ m \in Memory
  /\ nv \in [hdr : File \cup {NoFile}, info : Snapshots \cup {NoFile}]
  /\ img \in [2..N -> File \cup {NoFile}]

Downloading == m.status \in {"IN_PROGRESS", "COMPLETE", "WAITING", "COUNT_DOWN"}

\* What has been downloaded is in the flash: the blocks below the offset are
\* those of the file being downloaded, however responses are lost, delayed and
\* repeated, and wherever the download was aborted and resumed.  The exception is
\* a power loss after a download was begun anew, which erases the flash and not
\* the saved position, and before it caught up with that position: the client
\* then resumes astray.
PrefixWritten == Downloading /\ ~m.astray => \A k \in 2..N : k <= m.off => img[k] = m.ver

\* the events after which a client may be left with no timer and no task:
\*   "addr"     the server's address could not be found
\*   "buffer"   no buffer for the file header
\*   "boot"     the image is complete but is not booted
\*   "upgrade"  the end of an upgrade that the server has refused
\*   "wait"     the end of a wait in a download that has been given up
KnownStops == {"addr", "buffer", "boot", "upgrade", "wait"}

\* Nothing else stops a client for ever.
OnlyKnownStops == ~Driven(m) => m.how \in KnownStops

\* Whenever a download has been given up, for lack of the server's address as
\* for lack of blocks, the periodic query goes on.
QueryGoesOn == Driven(m)

\* A server that falls silent does not keep a client in a download that was
\* under way, but for one that a late answer to the query began while the end
\* of the last download was still being reported.
SilentServerEndsDownload ==
  \/ []<><<Response>>_vars
  \/ (m.status = "IN_PROGRESS" /\ Driven(m)) ~> (m.status # "IN_PROGRESS" \/ m.how = "upgrade")
=============================================================================
