----------------------------- MODULE OtaProofs -----------------------------
(***************************************************************************)
(* Proofs about what becomes of an image that comes over the air: its      *)
(* download (OtaClient) and its installation (ImageUpdate).                *)
(*                                                                         *)
(* OtaClient, for any number of blocks, files, retries and waiting tasks:  *)
(* PrefixWritten speaks of a download under way.  Between downloads the    *)
(* position is kept, to be resumed, so the inductive invariant says the    *)
(* same at all times, and adds what a restart relies on: the header in NV  *)
(* is that of the file whose blocks are in the flash, or there is none.    *)
(* OnlyKnownStops is inductive by itself once the tasks are known to be    *)
(* tasks of the client.                                                    *)
(*                                                                         *)
(* ImageUpdate, for images of any length: there is always an image to run, *)
(* only whole images are run, and the boot loader itself is lost only to   *)
(* blocks nobody asked for.                                                *)
(***************************************************************************)
EXTENDS OtaClient, ImageUpdate, TLAPS

-----------------------------------------------------------------------------
(* The download *)

NvOK == nv \in [hdr : File \cup {NoFile}, info : Snapshots \cup {NoFile}]
ImgOK == img \in [2..N -> File \cup {NoFile}]

\* what the flash and the header in NV say of the position in memory
PositionHeld ==
  ~m.astray => /\ m.off >= 1 => nv.hdr \in {m.ver, NoFile}
               /\ \A k \in 2..N : k <= m.off => img[k] = m.ver

OtaIInv == TypeOK /\ world \in Worlds /\ OnlyKnownStops /\ PositionHeld

\* x differs from the client's memory in nothing OtaIInv speaks of but whether
\* something drives it: the position is kept, or the download starts anew
KeepsPosition(x) == \/ x.off = m.off /\ x.ver = m.ver /\ x.astray = m.astray
                    \/ x.off = 0

\* y is at the position of x, and nothing was recorded between them
SameFile(x, y) == /\ y.off = x.off /\ y.ver = x.ver /\ y.astray = x.astray
                  /\ y.how = x.how

-----------------------------------------------------------------------------
(* The helpers *)

\* The bounds the constants allow every counter and position to start from.
LEMMA Bounds ==
  /\ N \in Nat /\ 0 \in 0..N /\ 1 \in 0..N
  /\ NoFile \in File \cup {NoFile} /\ NoFile \notin File
  /\ 0 \in 0..BlockRetries /\ 0 \in 0..(EndRetries - 1) /\ 0 \in 0..(AddrRetries - 1)
  /\ {BlockRetries, EndRetries, AddrRetries} \subseteq Nat \ {0}
  /\ Worlds \subseteq [offers : SUBSET File, mishaps : SUBSET Mishap]
BY OtaAssumption DEF OtaAssumption

\* Arming, disarming, posting and asking leave a well-formed memory.
LEMMA HelperTypes ==
  ASSUME NEW x \in Memory
  PROVE  /\ \A t \in Timers : Arm(x, t) \in Memory
         /\ Disarm(x) \in Memory
         /\ \A t \in Tasks : Post(x, t) \in Memory
         /\ \A q \in {"match", "nwk", "ieee"} : Ask(x, q) \in Memory
         /\ SendBlockReq(x) \in Memory
         /\ QueryStart(x) \in Memory
<1>1. ASSUME NEW t \in Timers PROVE Arm(x, t) \in Memory
  BY DEF Memory, Arm
<1>2. ASSUME NEW t \in Tasks PROVE Post(x, t) \in Memory
  <2> DEFINE s == Append(x.tasks, t)
  <2>1. s \in Seq(Tasks)
    BY DEF Memory
  <2> HIDE DEF s
  <2>2. [x EXCEPT !.tasks = s] \in Memory
    BY <2>1 DEF Memory
  <2> QED BY <2>2 DEF Post, s
<1>3. ASSUME NEW q \in {"match", "nwk", "ieee"} PROVE Ask(x, q) \in Memory
  BY DEF Memory, Ask
<1>4. {"off", "query", "delay", "blockRsp"} \subseteq Timers
  BY DEF Timers
<1> QED BY <1>1, <1>2, <1>3, <1>4 DEF Disarm, SendBlockReq, QueryStart

\* None of the helpers touches the position.
LEMMA HelpersKeepFile ==
  ASSUME NEW x \in Memory
  PROVE  /\ \A t \in Timers : SameFile(x, Arm(x, t))
         /\ SameFile(x, Disarm(x))
         /\ \A t \in Tasks : SameFile(x, Post(x, t))
         /\ \A q \in {"match", "nwk", "ieee"} : SameFile(x, Ask(x, q))
         /\ SameFile(x, SendBlockReq(x))
         /\ SameFile(x, QueryStart(x))
BY DEF SameFile, Memory, Arm, Disarm, Post, Ask, SendBlockReq, QueryStart

\* ... and each of them but disarming leaves something that drives the client.
LEMMA HelpersDrive ==
  ASSUME NEW x \in Memory
  PROVE  /\ \A t \in Timers \ {"off"} : Driven(Arm(x, t))
         /\ \A t \in Tasks \ {"save"} : Driven(Post(x, t))
         /\ Driven(SendBlockReq(x))
         /\ Driven(QueryStart(x))
<1>1. ASSUME NEW t \in Tasks \ {"save"} PROVE Driven(Post(x, t))
  <2>1. Post(x, t).tasks = Append(x.tasks, t)
    BY DEF Post, Memory
  <2>2. /\ Len(Post(x, t).tasks) = Len(x.tasks) + 1
        /\ Post(x, t).tasks[Len(x.tasks) + 1] = t
    BY <2>1 DEF Memory
  <2> QED BY <2>2 DEF Driven, Memory
<1> QED BY <1>1 DEF Driven, Arm, SendBlockReq, QueryStart, Memory, Timers

\* The end of an upgrade keeps the memory well formed, forgets the position or
\* keeps it, and starts the query unless the upgrade succeeded
\* (ota_upgradeComplete).
LEMMA CompletedFacts ==
  ASSUME NEW x \in Memory, NEW st \in {"SUCCESS", "ABORT", "INVALID"}
  PROVE  /\ Completed(x, st) \in Memory
         /\ Completed(x, st).how = x.how
         /\ SameFile(x, Completed(x, st)) \/ Completed(x, st).off = 0
         /\ st # "SUCCESS" => Completed(x, st).timer # "off"
<1> DEFINE y == [x EXCEPT !.buf = FALSE, !.status = "NORMAL"]
<1>1. y \in Memory /\ [y EXCEPT !.status = "REBOOTED"] \in Memory
  BY DEF Memory, Statuses
<1>2. Forgotten(y) \in Memory
  <2> HIDE DEF y
  <2> QED BY <1>1, Bounds DEF Forgotten, Memory
<1>3. QueryStart(y) \in Memory /\ QueryStart(Forgotten(y)) \in Memory
  BY <1>1, <1>2, HelperTypes
<1>4. ASSUME NEW z \in Memory
      PROVE  SameFile(z, QueryStart(z)) /\ QueryStart(z).timer # "off"
  <2>1. QueryStart(z).timer # "off"
    BY DEF QueryStart, Arm, Memory
  <2> QED BY <2>1, HelpersKeepFile
<1>5. /\ SameFile(x, y)
      /\ Forgotten(y).how = x.how /\ Forgotten(y).off = 0
  BY DEF Forgotten, Memory, SameFile
<1>6. SameFile(x, [y EXCEPT !.status = "REBOOTED"])
  BY DEF Memory, SameFile
<1> HIDE DEF y
<1>7. CASE st = "SUCCESS"
  BY <1>1, <1>5, <1>6, <1>7 DEF Completed, SameFile, y
<1>8. CASE st = "ABORT"
  BY <1>1, <1>3, <1>4, <1>5, <1>8 DEF Completed, SameFile, y
<1>9. CASE st = "INVALID"
  BY <1>2, <1>3, <1>4, <1>5, <1>9 DEF Completed, SameFile, y
<1> QED BY <1>7, <1>8, <1>9

\* An event leaves the memory it computed, and the client driven unless it is
\* one of the known events or the client was not driven before.
LEMMA BecomesFacts ==
  ASSUME OtaIInv, NEW x \in Memory, NEW e \in Events, Becomes(x, e), x.how = m.how,
         e \in KnownStops \/ Driven(x) \/ ~Driven(m)
  PROVE  /\ m' \in Memory
         /\ m'.off = x.off /\ m'.ver = x.ver /\ m'.astray = x.astray
         /\ OnlyKnownStops'
<1> DEFINE h == IF Driven(x) THEN "none" ELSE IF Driven(m) THEN e ELSE x.how
<1>1. /\ m' = [x EXCEPT !.how = h]
      /\ h \in Events
  <2>1. x.how \in Events
    BY DEF Memory
  <2>2. h \in Events
    BY <2>1 DEF Events
  <2>3. m' = [x EXCEPT !.how = h]
    BY DEF Becomes
  <2> QED BY <2>2, <2>3
<1>2. /\ m' \in Memory
      /\ m'.off = x.off /\ m'.ver = x.ver /\ m'.astray = x.astray /\ m'.how = h
      /\ m'.timer = x.timer /\ m'.status = x.status /\ m'.tasks = x.tasks
  <2> HIDE DEF h
  <2> QED BY <1>1 DEF Memory
<1>3. Driven(x) <=> Driven(m)'
  BY <1>2 DEF Driven
<1> QED BY <1>2, <1>3 DEF OnlyKnownStops, OtaIInv

\* A step that keeps the position, or forgets it, and leaves the client driven
\* unless at one of the known events, keeps the invariant: all steps but a
\* restart and a block stored.
LEMMA BecomesKeeps ==
  ASSUME OtaIInv, NEW x \in Memory, NEW e \in Events, Becomes(x, e),
         x.how = m.how,
         e \in KnownStops \/ Driven(x) \/ ~Driven(m),
         KeepsPosition(x),
         NvOK', nv'.hdr \in {nv.hdr, NoFile},
         img' = img \/ (x.off = 0 /\ ImgOK'),
         UNCHANGED world
  PROVE  OtaIInv'
<1>1. /\ m' \in Memory
      /\ m'.off = x.off /\ m'.ver = x.ver /\ m'.astray = x.astray
      /\ OnlyKnownStops'
  BY BecomesFacts
<1>2. TypeOK'
  BY <1>1 DEF TypeOK, OtaIInv, NvOK, ImgOK
<1>3. PositionHeld'
  <2>1. CASE x.off = 0
    BY <1>1, <2>1 DEF PositionHeld
  <2>2. CASE x.off # 0
    BY <1>1, <2>2 DEF PositionHeld, OtaIInv, KeepsPosition
  <2> QED BY <2>1, <2>2
<1> QED BY <1>1, <1>2, <1>3 DEF OtaIInv

\* The NV items stay well formed when they are kept or erased.
LEMMA NvKept ==
  ASSUME OtaIInv, nv' \in {nv, NoNv}
  PROVE  NvOK' /\ nv'.hdr \in {nv.hdr, NoFile}
BY Bounds DEF OtaIInv, TypeOK, NvOK, NoNv

\* A step that changes nothing keeps the invariant.
LEMMA StutterKeeps == OtaIInv /\ UNCHANGED vars => OtaIInv'
BY DEF vars, OtaIInv, TypeOK, OnlyKnownStops, Driven, PositionHeld, Snapshots

\* What most steps have in common: the memory becomes x at the same file, the
\* NV items are kept or erased, and the flash is left alone.
LEMMA SameFileKeeps ==
  ASSUME OtaIInv, NEW x \in Memory, NEW e \in Events, Becomes(x, e),
         SameFile(m, x) \/ (x.off = 0 /\ x.how = m.how),
         e \in KnownStops \/ Driven(x) \/ ~Driven(m),
         nv' \in {nv, NoNv}, UNCHANGED <<img, world>>
  PROVE  OtaIInv'
BY NvKept, BecomesKeeps DEF SameFile, KeepsPosition

-----------------------------------------------------------------------------
(* The timer and the tasks *)

\* The periodic query: its timer runs on.
LEMMA QueryTimerKeeps == ASSUME OtaIInv, QueryTimer PROVE OtaIInv'
<1>1. CASE UNCHANGED m
  BY <1>1, StutterKeeps DEF QueryTimer, vars
<1>2. ASSUME NEW q \in {"nwk", "match"}, Becomes(Ask(m, q), "query") PROVE OtaIInv'
  <2>1. m \in Memory
    BY DEF OtaIInv, TypeOK
  <2>2. Ask(m, q) \in Memory /\ SameFile(m, Ask(m, q))
    BY <2>1, HelperTypes, HelpersKeepFile
  <2>3. Driven(Ask(m, q))
    BY <2>1 DEF Driven, Ask, Memory, QueryTimer
  <2>4. "query" \in Events
    BY DEF Events, Timers
  <2> QED BY <1>2, <2>2, <2>3, <2>4, SameFileKeeps DEF QueryTimer
<1> QED BY <1>1, <1>2 DEF QueryTimer

\* No address of the server: it is asked for again, or the download is given up.
LEMMA AddrTimerKeeps == ASSUME OtaIInv, AddrTimer PROVE OtaIInv'
<1> DEFINE y == [m EXCEPT !.addrTry = 0]
           z == [m EXCEPT !.addrTry = @ + 1]
<1>1. m \in Memory
  BY DEF OtaIInv, TypeOK
<1>2. "addr" \in Events /\ "addr" \in KnownStops
  BY DEF Events, Timers, KnownStops
<1>3. CASE m.addrTry + 1 >= AddrRetries
  <2>1. y \in Memory /\ SameFile(m, y)
    BY <1>1, Bounds DEF Memory, SameFile
  <2> HIDE DEF y
  <2>2. /\ Completed(y, "ABORT") \in Memory
        /\ SameFile(y, Completed(y, "ABORT")) \/ Completed(y, "ABORT").off = 0
        /\ Completed(y, "ABORT").how = y.how
    BY <2>1, CompletedFacts
  <2>3. /\ Disarm(Completed(y, "ABORT")) \in Memory
        /\ SameFile(Completed(y, "ABORT"), Disarm(Completed(y, "ABORT")))
    BY <2>2, HelperTypes, HelpersKeepFile
  <2>4. Becomes(Disarm(Completed(y, "ABORT")), "addr")
    BY <1>3 DEF AddrTimer, y
  <2> QED BY <2>1, <2>2, <2>3, <2>4, <1>2, SameFileKeeps DEF SameFile, AddrTimer
<1>4. CASE ~(m.addrTry + 1 >= AddrRetries)
  <2>1. m.addrTry + 1 \in 0..(AddrRetries - 1)
    BY <1>1, <1>4, Bounds DEF Memory
  <2>2. z \in Memory /\ SameFile(m, z)
    BY <1>1, <2>1 DEF Memory, SameFile
  <2>3. Becomes(Ask(z, "ieee"), "addr")
    BY <1>4 DEF AddrTimer
  <2> HIDE DEF z
  <2>4. Ask(z, "ieee") \in Memory /\ SameFile(z, Ask(z, "ieee"))
    BY <2>2, HelperTypes, HelpersKeepFile
  <2> QED BY <2>2, <2>3, <2>4, <1>2, SameFileKeeps DEF SameFile, AddrTimer
<1> QED BY <1>3, <1>4

\* No block: one more request is posted, or the end of the download.
LEMMA BlockRspTimerKeeps == ASSUME OtaIInv, BlockRspTimer PROVE OtaIInv'
<1> DEFINE r == IF m.retry + 1 > BlockRetries THEN m.retry ELSE m.retry + 1
           y == [m EXCEPT !.retry = r]
           t == IF m.retry + 1 >= BlockRetries THEN "blockTimeout" ELSE "sendBlock"
<1>1. m \in Memory
  BY DEF OtaIInv, TypeOK
<1>2. r \in 0..BlockRetries
  BY <1>1, Bounds DEF Memory
<1>3. Becomes(Post(Disarm(y), t), "blockRsp")
  BY DEF BlockRspTimer
<1>4. t \in Tasks \ {"save"}
  BY DEF Tasks
<1> HIDE DEF r, t
<1>5. y \in Memory /\ SameFile(m, y)
  BY <1>1, <1>2 DEF Memory, SameFile
<1> HIDE DEF y
<1>6. Disarm(y) \in Memory /\ SameFile(y, Disarm(y))
  BY <1>5, HelperTypes, HelpersKeepFile
<1>7. /\ Post(Disarm(y), t) \in Memory /\ SameFile(Disarm(y), Post(Disarm(y), t))
      /\ Driven(Post(Disarm(y), t))
  BY <1>4, <1>6, HelperTypes, HelpersKeepFile, HelpersDrive
<1>8. "blockRsp" \in Events
  BY DEF Events, Timers
<1> QED BY <1>3, <1>5, <1>6, <1>7, <1>8, SameFileKeeps DEF SameFile, BlockRspTimer

\* The delay before the next request is over.
LEMMA DelayTimerKeeps == ASSUME OtaIInv, DelayTimer PROVE OtaIInv'
<1>1. m \in Memory
  BY DEF OtaIInv, TypeOK
<1>2. Disarm(m) \in Memory /\ SameFile(m, Disarm(m))
  BY <1>1, HelperTypes, HelpersKeepFile
<1>3. "sendBlockNow" \in Tasks \ {"save"} /\ "delay" \in Events
  BY DEF Tasks, Events, Timers
<1>4. /\ Post(Disarm(m), "sendBlockNow") \in Memory
      /\ SameFile(Disarm(m), Post(Disarm(m), "sendBlockNow"))
  BY <1>2, <1>3, HelperTypes, HelpersKeepFile
<1>5. Driven(Post(Disarm(m), "sendBlockNow"))
  BY <1>2, <1>3, HelpersDrive
<1> QED BY <1>2, <1>3, <1>4, <1>5, SameFileKeeps DEF SameFile, DelayTimer

\* The wait the server asked for is over.
LEMMA WaitTimerKeeps == ASSUME OtaIInv, WaitTimer PROVE OtaIInv'
<1>1. m \in Memory
  BY DEF OtaIInv, TypeOK
<1>2. Disarm(m) \in Memory /\ SameFile(m, Disarm(m))
  BY <1>1, HelperTypes, HelpersKeepFile
<1>3. "sendBlockNow" \in Tasks /\ "wait" \in Events /\ "wait" \in KnownStops
  BY DEF Tasks, Events, Timers, KnownStops
<1>4. /\ Post(Disarm(m), "sendBlockNow") \in Memory
      /\ SameFile(Disarm(m), Post(Disarm(m), "sendBlockNow"))
  BY <1>2, <1>3, HelperTypes, HelpersKeepFile
<1> QED BY <1>2, <1>3, <1>4, SameFileKeeps DEF SameFile, WaitTimer

\* The upgrade is due, or the server is asked again.
LEMMA UpgradeTimerKeeps == ASSUME OtaIInv, UpgradeTimer PROVE OtaIInv'
<1> DEFINE e == IF Due(m) THEN "boot" ELSE "upgrade"
<1>1. m \in Memory
  BY DEF OtaIInv, TypeOK
<1>2. e \in Events /\ e \in KnownStops
  BY DEF Events, Timers, KnownStops
<1>3. /\ Upgraded(m) \in Memory /\ Upgraded(m).how = m.how
      /\ SameFile(m, Upgraded(m)) \/ Upgraded(m).off = 0
  <2>1. CASE Due(m)
    BY <1>1, <2>1, CompletedFacts DEF Upgraded
  <2>2. CASE ~Due(m) /\ m.status \in {"COMPLETE", "WAITING"}
    <3> DEFINE y == [m EXCEPT !.endRetry = @ + 1]
    <3>1. m.endRetry + 1 \in 0..(EndRetries - 1)
      BY <1>1, <2>2, Bounds DEF Due, Memory
    <3>2. y \in Memory /\ SameFile(m, y)
      BY <1>1, <3>1 DEF Memory, SameFile
    <3>3. Upgraded(m) = Post(y, "endAgain")
      BY <2>2 DEF Upgraded
    <3> HIDE DEF y
    <3>4. Post(y, "endAgain") \in Memory /\ SameFile(y, Post(y, "endAgain"))
      BY <3>2, HelperTypes, HelpersKeepFile DEF Tasks
    <3> QED BY <3>2, <3>3, <3>4 DEF SameFile
  <2>3. CASE ~Due(m) /\ m.status \notin {"COMPLETE", "WAITING"}
    BY <1>1, <2>3 DEF Upgraded, SameFile
  <2> QED BY <2>1, <2>2, <2>3
<1>4. Disarm(Upgraded(m)) \in Memory /\ SameFile(Upgraded(m), Disarm(Upgraded(m)))
  BY <1>3, HelperTypes, HelpersKeepFile
<1>5. Becomes(Disarm(Upgraded(m)), e) /\ nv' \in {nv, NoNv} /\ UNCHANGED <<img, world>>
  BY DEF UpgradeTimer
<1> QED BY <1>2, <1>3, <1>4, <1>5, SameFileKeeps DEF SameFile

\* Saving the position changes nothing but the item it is saved in.
LEMMA SavedKeepsNv ==
  ASSUME OtaIInv, nv' \in {nv, [nv EXCEPT !.info = Snapshot]}
  PROVE  NvOK' /\ nv'.hdr \in {nv.hdr, NoFile}
<1>1. Snapshot \in Snapshots
  BY DEF OtaIInv, TypeOK, Memory, Snapshot, Snapshots
<1>2. nv \in [hdr : File \cup {NoFile}, info : Snapshots \cup {NoFile}]
  BY DEF OtaIInv, TypeOK
<1> QED BY <1>1, <1>2 DEF NvOK

\* A task taken from the queue: nothing but a request to save the position
\* leads nowhere.
LEMMA RunTaskKeeps == ASSUME OtaIInv, RunTask PROVE OtaIInv'
<1> DEFINE x == [m EXCEPT !.tasks = Tail(@)]
           t == Head(m.tasks)
<1>1. m \in Memory /\ m.tasks # <<>>
  BY DEF OtaIInv, TypeOK, RunTask
<1>2. t \in Tasks /\ Tail(m.tasks) \in Seq(Tasks)
  BY <1>1 DEF Memory
<1>3. x \in Memory /\ SameFile(m, x)
  <2> DEFINE s == Tail(m.tasks)
  <2> HIDE DEF s
  <2>1. [m EXCEPT !.tasks = s] \in Memory /\ SameFile(m, [m EXCEPT !.tasks = s])
    BY <1>1, <1>2 DEF Memory, SameFile, s
  <2> QED BY <2>1 DEF s
<1>4. t \in Events
  BY <1>2 DEF Events
<1>5. t = "save" /\ Driven(m) => Driven(x)
  <2>1. SUFFICES ASSUME t = "save", NEW i \in 1..Len(m.tasks), m.tasks[i] # "save"
                 PROVE  Driven(x)
    BY <1>1 DEF Driven, Memory
  <2>2. i # 1
    BY <1>1, <2>1 DEF Memory
  <2>3. /\ x.tasks = Tail(m.tasks)
        /\ i - 1 \in 1..Len(Tail(m.tasks)) /\ Tail(m.tasks)[i - 1] = m.tasks[i]
    BY <1>1, <2>1, <2>2 DEF Memory
  <2> QED BY <2>1, <2>3 DEF Driven
<1>6. /\ NvOK' /\ nv'.hdr \in {nv.hdr, NoFile}
      /\ UNCHANGED <<img, world>>
  BY SavedKeepsNv DEF RunTask
<1>7. t = "blockTimeout" => Becomes(Completed(x, "ABORT"), t)
  BY DEF RunTask
<1>8. t = "sendBlock" => Becomes(SendBlockReq(x), t)
  BY DEF RunTask
<1>9. t = "sendBlockNow" => Becomes(Arm(x, "blockRsp"), t)
  BY DEF RunTask
<1>10. t = "endAgain" => Becomes(Arm(x, "upgrade"), t)
  BY DEF RunTask
<1>11. t = "addrReqSend" => Becomes(Arm(Ask(x, "ieee"), "addr"), t)
  BY DEF RunTask
<1>12. t = "save" => Becomes(x, t)
  BY DEF RunTask
<1> HIDE DEF x, t
<1>13. \E y \in Memory : /\ Becomes(y, t) /\ y.how = m.how
                         /\ SameFile(m, y) \/ y.off = 0
                         /\ Driven(y) \/ ~Driven(m)
  <2> DEFINE Fit(y) == /\ Becomes(y, t) /\ y.how = m.how
                       /\ SameFile(m, y) \/ y.off = 0
                       /\ Driven(y) \/ ~Driven(m)
  <2>1. CASE t = "blockTimeout"
    <3>1. /\ Completed(x, "ABORT") \in Memory /\ Completed(x, "ABORT").how = x.how
          /\ SameFile(x, Completed(x, "ABORT")) \/ Completed(x, "ABORT").off = 0
          /\ Completed(x, "ABORT").timer # "off"
      BY <1>3, CompletedFacts
    <3>2. Fit(Completed(x, "ABORT"))
      BY <1>3, <1>7, <2>1, <3>1 DEF SameFile, Driven
    <3> QED BY <3>1, <3>2
  <2>2. CASE t = "sendBlock"
    <3>1. SendBlockReq(x) \in Memory /\ SameFile(x, SendBlockReq(x)) /\ Driven(SendBlockReq(x))
      BY <1>3, HelperTypes, HelpersKeepFile, HelpersDrive
    <3> QED BY <1>3, <1>8, <2>2, <3>1 DEF SameFile
  <2>3. CASE t = "sendBlockNow"
    <3>1. /\ Arm(x, "blockRsp") \in Memory /\ SameFile(x, Arm(x, "blockRsp"))
          /\ Driven(Arm(x, "blockRsp"))
      BY <1>3, HelperTypes, HelpersKeepFile, HelpersDrive DEF Timers
    <3> QED BY <1>3, <1>9, <2>3, <3>1 DEF SameFile
  <2>4. CASE t = "endAgain"
    <3>1. /\ Arm(x, "upgrade") \in Memory /\ SameFile(x, Arm(x, "upgrade"))
          /\ Driven(Arm(x, "upgrade"))
      BY <1>3, HelperTypes, HelpersKeepFile, HelpersDrive DEF Timers
    <3> QED BY <1>3, <1>10, <2>4, <3>1 DEF SameFile
  <2>5. CASE t = "addrReqSend"
    <3>1. Ask(x, "ieee") \in Memory /\ SameFile(x, Ask(x, "ieee"))
      BY <1>3, HelperTypes, HelpersKeepFile
    <3>2. /\ Arm(Ask(x, "ieee"), "addr") \in Memory
          /\ SameFile(Ask(x, "ieee"), Arm(Ask(x, "ieee"), "addr"))
          /\ Driven(Arm(Ask(x, "ieee"), "addr"))
      BY <3>1, HelperTypes, HelpersKeepFile, HelpersDrive DEF Timers
    <3> QED BY <1>3, <1>11, <2>5, <3>1, <3>2 DEF SameFile
  <2>6. CASE t = "save"
    BY <1>3, <1>5, <1>12, <2>6 DEF SameFile
  <2> QED BY <1>2, <2>1, <2>2, <2>3, <2>4, <2>5, <2>6 DEF Tasks
<1>14. PICK y \in Memory : /\ Becomes(y, t) /\ y.how = m.how
                           /\ SameFile(m, y) \/ y.off = 0
                           /\ Driven(y) \/ ~Driven(m)
  BY <1>13
<1>15. KeepsPosition(y)
  BY <1>14 DEF SameFile, KeepsPosition
<1>16. img' = img \/ (y.off = 0 /\ ImgOK')
  BY <1>6
<1> QED BY <1>4, <1>6, <1>14, <1>15, <1>16, BecomesKeeps

-----------------------------------------------------------------------------
(* Responses *)

\* What the server has to offer is a file.
LEMMA OffersAreFiles == OtaIInv => world.offers \subseteq File
BY Bounds DEF OtaIInv

\* The answer to a query: no image, a complete one, a resumed download, or one
\* begun anew on an erased flash.
LEMMA QueryRspKeeps ==
  ASSUME OtaIInv, NEW v \in File \cup {NoFile}, QueryRsp(v)
  PROVE  OtaIInv'
<1> DEFINE x == Disarm([m EXCEPT !.retry = 0, !.status = "IN_PROGRESS"])
           y == [x EXCEPT !.off = 0, !.crc = NoFile, !.ver = v, !.astray = FALSE]
           x0 == [m EXCEPT !.retry = 0, !.status = "IN_PROGRESS"]
<1>1. m \in Memory
  BY DEF OtaIInv, TypeOK
<1>2. x0 \in Memory /\ SameFile(m, x0)
  BY <1>1, Bounds DEF Memory, SameFile, Statuses
<1>3. x \in Memory /\ SameFile(m, x)
  <2> HIDE DEF x0
  <2>1. Disarm(x0) \in Memory /\ SameFile(x0, Disarm(x0))
    BY <1>2, HelperTypes, HelpersKeepFile
  <2> QED BY <1>2, <2>1 DEF SameFile, x0
<1>4. {"query", "boot", "buffer"} \subseteq Events /\ {"boot", "buffer"} \subseteq KnownStops
  BY DEF Events, Timers, KnownStops
<1>5. CASE v = NoFile
  <2>1. [m EXCEPT !.retry = 0] \in Memory /\ SameFile(m, [m EXCEPT !.retry = 0])
    BY <1>1, Bounds DEF Memory, SameFile
  <2>2. Driven([m EXCEPT !.retry = 0]) \/ ~Driven(m)
    BY <1>1 DEF Driven, Memory
  <2>3. Becomes([m EXCEPT !.retry = 0], "query") /\ UNCHANGED <<nv, img, world>>
    BY <1>5 DEF QueryRsp
  <2> QED BY <1>4, <2>1, <2>2, <2>3, SameFileKeeps
<1>6. CASE Becomes(Completed(x, "SUCCESS"), "boot") /\ nv' = NoNv /\ UNCHANGED <<img, world>>
  <2> HIDE DEF x
  <2>1. /\ Completed(x, "SUCCESS") \in Memory /\ Completed(x, "SUCCESS").how = x.how
        /\ SameFile(x, Completed(x, "SUCCESS")) \/ Completed(x, "SUCCESS").off = 0
    BY <1>3, CompletedFacts
  <2> QED BY <1>3, <1>4, <1>6, <2>1, SameFileKeeps DEF SameFile
<1>7. CASE Becomes(SendBlockReq(x), "query") /\ UNCHANGED <<nv, img, world>>
  <2> HIDE DEF x
  <2>1. SendBlockReq(x) \in Memory /\ SameFile(x, SendBlockReq(x)) /\ Driven(SendBlockReq(x))
    BY <1>3, HelperTypes, HelpersKeepFile, HelpersDrive
  <2> QED BY <1>3, <1>4, <1>7, <2>1, SameFileKeeps DEF SameFile
<1>8. ASSUME img' = NoImage, UNCHANGED <<nv, world>>,
             \/ Becomes(IF m.server THEN SendBlockReq([y EXCEPT !.buf = TRUE, !.flag = "HDR"])
                        ELSE Post([y EXCEPT !.buf = TRUE], "addrReqSend"), "query")
             \/ Becomes([y EXCEPT !.buf = FALSE], "buffer")
      PROVE  OtaIInv'
  <2> HIDE DEF x
  <2>1. y \in Memory /\ y.off = 0 /\ y.how = m.how
    BY <1>3, Bounds DEF Memory, SameFile
  <2> HIDE DEF y
  <2> DEFINE y1 == [y EXCEPT !.buf = TRUE, !.flag = "HDR"]
             y2 == [y EXCEPT !.buf = TRUE]
             y3 == [y EXCEPT !.buf = FALSE]
  <2>2. /\ y1 \in Memory /\ y1.off = 0 /\ y1.how = m.how
        /\ y2 \in Memory /\ y2.off = 0 /\ y2.how = m.how
        /\ y3 \in Memory /\ y3.off = 0 /\ y3.how = m.how
    <3>1. y1 \in Memory /\ y1.off = 0 /\ y1.how = m.how
      BY <2>1 DEF Memory
    <3>2. y2 \in Memory /\ y2.off = 0 /\ y2.how = m.how
      BY <2>1 DEF Memory
    <3>3. y3 \in Memory /\ y3.off = 0 /\ y3.how = m.how
      BY <2>1 DEF Memory
    <3> QED BY <3>1, <3>2, <3>3
  <2>3. img' = img \/ ImgOK'
    BY <1>8, Bounds DEF NoImage, ImgOK
  <2>4. NvOK' /\ nv'.hdr \in {nv.hdr, NoFile} /\ UNCHANGED world
    BY <1>8, NvKept
  <2>5. CASE Becomes(SendBlockReq(y1), "query")
    <3> HIDE DEF y1
    <3>1. /\ SendBlockReq(y1) \in Memory /\ SameFile(y1, SendBlockReq(y1))
          /\ Driven(SendBlockReq(y1))
      BY <2>2, HelperTypes, HelpersKeepFile, HelpersDrive
    <3> QED BY <1>4, <2>2, <2>3, <2>4, <2>5, <3>1, BecomesKeeps DEF SameFile, KeepsPosition
  <2>6. CASE Becomes(Post(y2, "addrReqSend"), "query")
    <3> HIDE DEF y2
    <3>1. /\ Post(y2, "addrReqSend") \in Memory /\ SameFile(y2, Post(y2, "addrReqSend"))
          /\ Driven(Post(y2, "addrReqSend"))
      BY <2>2, HelperTypes, HelpersKeepFile, HelpersDrive DEF Tasks
    <3> QED BY <1>4, <2>2, <2>3, <2>4, <2>6, <3>1, BecomesKeeps DEF SameFile, KeepsPosition
  <2>7. CASE Becomes(y3, "buffer")
    <3> HIDE DEF y3
    <3> QED BY <1>4, <2>2, <2>3, <2>4, <2>7, BecomesKeeps DEF KeepsPosition
  <2> QED BY <1>8, <2>5, <2>6, <2>7
<1> HIDE DEF OtaIInv
<1> QED BY <1>5, <1>6, <1>7, <1>8 DEF QueryRsp

\* A block of the image: refused, of another file, or the one asked for, which
\* extends the part of the image that is in the flash.
LEMMA BlockRspKeeps ==
  ASSUME OtaIInv, NEW v \in File, NEW k \in 1..N, BlockRsp(v, k)
  PROVE  OtaIInv'
<1> DEFINE x0 == [m EXCEPT !.retry = 0]
           x == Disarm(x0)
           y == Stored(x, v)
           z == Post(y, "save")
           c == [z EXCEPT !.status = "COMPLETE", !.endRetry = 0]
<1>1. m \in Memory /\ m.status = "IN_PROGRESS"
  BY DEF OtaIInv, TypeOK, BlockRsp
<1>2. x0 \in Memory /\ SameFile(m, x0)
  BY <1>1, Bounds DEF Memory, SameFile
<1>3. x \in Memory /\ SameFile(m, x)
  <2> HIDE DEF x0
  <2>1. Disarm(x0) \in Memory /\ SameFile(x0, Disarm(x0))
    BY <1>2, HelperTypes, HelpersKeepFile
  <2> QED BY <1>2, <2>1 DEF SameFile
<1>4. {"invalid", "mismatch", "block"} \subseteq Events
  BY DEF Events
<1>5. CASE Becomes(Completed(x, "INVALID"), "invalid") /\ nv' = NoNv /\ UNCHANGED <<img, world>>
  <2> HIDE DEF x
  <2>1. /\ Completed(x, "INVALID") \in Memory /\ Completed(x, "INVALID").how = x.how
        /\ SameFile(x, Completed(x, "INVALID")) \/ Completed(x, "INVALID").off = 0
        /\ Completed(x, "INVALID").timer # "off"
    BY <1>3, CompletedFacts
  <2>2. Driven(Completed(x, "INVALID"))
    BY <2>1 DEF Driven
  <2> QED BY <1>3, <1>4, <1>5, <2>1, <2>2, SameFileKeeps DEF SameFile
<1>6. CASE Becomes([m EXCEPT !.status = "NORMAL"], "mismatch") /\ UNCHANGED <<nv, img, world>>
  <2>1. /\ [m EXCEPT !.status = "NORMAL"] \in Memory
        /\ SameFile(m, [m EXCEPT !.status = "NORMAL"])
    BY <1>1 DEF Memory, SameFile, Statuses
  <2>2. Driven([m EXCEPT !.status = "NORMAL"]) \/ ~Driven(m)
    BY <1>1 DEF Driven, Memory
  <2> QED BY <1>4, <1>6, <2>1, <2>2, SameFileKeeps
<1>7. ASSUME v = m.ver, k = m.off + 1,
             Becomes(IF y.off = N THEN Arm(c, "upgrade") ELSE SendBlockReq(z), "block"),
             nv' = IF m.off = 0 THEN [nv EXCEPT !.hdr = v] ELSE nv,
             img' = IF m.off = 0 THEN img ELSE [img EXCEPT ![k] = v],
             UNCHANGED world
      PROVE  OtaIInv'
  <2> HIDE DEF x
  <2>1. m.off + 1 \in 0..N
    BY <1>1, <1>7, Bounds DEF Memory
  <2>2. /\ y \in Memory /\ y.off = m.off + 1 /\ y.ver = m.ver /\ y.astray = m.astray
        /\ y.how = m.how
    <3> DEFINE crc == IF x.off = 1 \/ x.crc = v THEN v ELSE NoFile
               y1 == [x EXCEPT !.off = 1, !.flag = "BODY", !.buf = FALSE]
               y2 == [x EXCEPT !.off = x.off + 1, !.ioff = x.off + 1, !.crc = crc]
    <3>1. crc \in File \cup {NoFile}
      OBVIOUS
    <3>2. x.off + 1 \in 0..N /\ x.off = m.off
      BY <1>3, <2>1 DEF SameFile
    <3>3. y = IF x.off = 0 THEN y1 ELSE y2
      BY DEF Stored
    <3> HIDE DEF crc, y
    <3>4. y1 \in Memory /\ SameFile(x, [y1 EXCEPT !.off = x.off]) /\ y1.off = 1
      BY <1>3, Bounds DEF Memory, SameFile
    <3>5. y2 \in Memory /\ SameFile(x, [y2 EXCEPT !.off = x.off]) /\ y2.off = x.off + 1
      BY <1>3, <3>1, <3>2 DEF Memory, SameFile
    <3>6. \A w \in Memory : SameFile(x, [w EXCEPT !.off = x.off])
                             => w.ver = x.ver /\ w.astray = x.astray /\ w.how = x.how
      BY DEF Memory, SameFile
    <3> QED BY <1>3, <3>2, <3>3, <3>4, <3>5, <3>6 DEF SameFile
  <2> HIDE DEF y
  <2>3. z \in Memory /\ SameFile(y, z) /\ SendBlockReq(z) \in Memory
        /\ SameFile(z, SendBlockReq(z)) /\ Driven(SendBlockReq(z))
    <3>1. z \in Memory /\ SameFile(y, z)
      BY <2>2, HelperTypes, HelpersKeepFile DEF Tasks
    <3> HIDE DEF z
    <3> QED BY <3>1, HelperTypes, HelpersKeepFile, HelpersDrive
  <2> HIDE DEF z
  <2>4. c \in Memory /\ SameFile(z, c)
    BY <2>3, Bounds DEF Memory, SameFile, Statuses
  <2> HIDE DEF c
  <2>5. /\ Arm(c, "upgrade") \in Memory /\ SameFile(c, Arm(c, "upgrade"))
        /\ Driven(Arm(c, "upgrade"))
    BY <2>4, HelperTypes, HelpersKeepFile, HelpersDrive DEF Timers
  <2> DEFINE w == IF y.off = N THEN Arm(c, "upgrade") ELSE SendBlockReq(z)
  <2>6. /\ w \in Memory /\ Driven(w) /\ w.how = m.how
        /\ w.off = m.off + 1 /\ w.ver = m.ver /\ w.astray = m.astray
    BY <2>2, <2>3, <2>4, <2>5 DEF SameFile
  <2>7. Becomes(w, "block")
    BY <1>7
  <2> HIDE DEF w
  <2>8. /\ m' \in Memory /\ OnlyKnownStops'
        /\ m'.off = m.off + 1 /\ m'.ver = m.ver /\ m'.astray = m.astray
    BY <1>4, <2>6, <2>7, BecomesFacts
  <2>9. NvOK /\ ImgOK /\ PositionHeld
    BY DEF OtaIInv, TypeOK, NvOK, ImgOK
  <2>10. NvOK' /\ ImgOK'
    BY <1>7, <2>9 DEF NvOK, ImgOK
  <2>11. PositionHeld'
    <3>1. SUFFICES ASSUME ~m.astray
                   PROVE  /\ nv'.hdr \in {m.ver, NoFile}
                          /\ \A j \in 2..N : j <= m.off + 1 => img'[j] = m.ver
      BY <2>8 DEF PositionHeld
    <3>2. CASE m.off = 0
      BY <1>7, <2>9, <3>2 DEF NvOK
    <3>3. CASE m.off # 0
      <4>1. m.off \in 1..N
        BY <1>1, <3>3, Bounds DEF Memory
      <4>2. nv'.hdr \in {m.ver, NoFile}
        BY <1>7, <2>9, <3>1, <3>3, <4>1 DEF PositionHeld
      <4>3. ASSUME NEW j \in 2..N, j <= m.off + 1 PROVE img'[j] = m.ver
        BY <1>7, <2>9, <3>1, <3>3, <4>1, <4>3 DEF PositionHeld, ImgOK
      <4> QED BY <4>2, <4>3
    <3> QED BY <3>2, <3>3
  <2> QED BY <1>7, <2>8, <2>10, <2>11 DEF OtaIInv, TypeOK, NvOK, ImgOK
<1> HIDE DEF OtaIInv
<1> QED BY <1>5, <1>6, <1>7 DEF BlockRsp, InSequence

\* The server asks the client to wait, or to ask more slowly.
LEMMA WaitRspKeeps == ASSUME OtaIInv, WaitRsp PROVE OtaIInv'
<1> DEFINE x == [m EXCEPT !.retry = 0]
<1>1. m \in Memory
  BY DEF OtaIInv, TypeOK
<1>2. x \in Memory /\ SameFile(m, x)
  BY <1>1, Bounds DEF Memory, SameFile
<1>3. "wait" \in Events
  BY DEF Events, Timers
<1>4. CASE Becomes(Arm(x, "wait"), "wait")
  <2> HIDE DEF x
  <2>1. Arm(x, "wait") \in Memory /\ SameFile(x, Arm(x, "wait")) /\ Driven(Arm(x, "wait"))
    BY <1>2, HelperTypes, HelpersKeepFile, HelpersDrive DEF Timers
  <2> QED BY <1>2, <1>3, <1>4, <2>1, SameFileKeeps DEF SameFile, WaitRsp
<1>5. ASSUME NEW p \in BOOLEAN, Becomes(SendBlockReq([m EXCEPT !.period = p]), "wait")
      PROVE  OtaIInv'
  <2> DEFINE y == [m EXCEPT !.period = p]
  <2>1. y \in Memory /\ SameFile(m, y)
    BY <1>1, Bounds DEF Memory, SameFile
  <2>2. Becomes(SendBlockReq(y), "wait")
    BY <1>5
  <2> HIDE DEF y
  <2>3. SendBlockReq(y) \in Memory /\ SameFile(y, SendBlockReq(y)) /\ Driven(SendBlockReq(y))
    BY <2>1, HelperTypes, HelpersKeepFile, HelpersDrive
  <2> QED BY <1>3, <2>1, <2>2, <2>3, SameFileKeeps DEF SameFile, WaitRsp
<1> HIDE DEF OtaIInv
<1> QED BY <1>4, <1>5 DEF WaitRsp

\* The server aborts the download, or rejects the end of the upgrade.
LEMMA AbortKeeps == ASSUME OtaIInv, AbortRsp \/ RejectRsp PROVE OtaIInv'
<1> DEFINE x0 == [m EXCEPT !.retry = 0]
<1>1. m \in Memory
  BY DEF OtaIInv, TypeOK
<1>2. x0 \in Memory /\ SameFile(m, x0)
  BY <1>1, Bounds DEF Memory, SameFile
<1>3. {"abort", "reject"} \subseteq Events
  BY DEF Events
<1>4. PICK x \in Memory, e \in {"abort", "reject"} :
        SameFile(m, x) /\ Becomes(Completed(x, "ABORT"), e)
  <2>1. CASE AbortRsp
    <3>1. Becomes(Completed(Disarm(x0), "ABORT"), "abort")
      BY <2>1 DEF AbortRsp
    <3> HIDE DEF x0
    <3>2. Disarm(x0) \in Memory /\ SameFile(x0, Disarm(x0))
      BY <1>2, HelperTypes, HelpersKeepFile
    <3> QED BY <1>2, <3>1, <3>2 DEF SameFile
  <2>2. CASE RejectRsp
    BY <1>1, <2>2 DEF RejectRsp, SameFile
  <2> QED BY <2>1, <2>2
<1>5. /\ Completed(x, "ABORT") \in Memory /\ Completed(x, "ABORT").how = x.how
      /\ SameFile(x, Completed(x, "ABORT")) \/ Completed(x, "ABORT").off = 0
      /\ Completed(x, "ABORT").timer # "off"
  BY CompletedFacts
<1>6. Driven(Completed(x, "ABORT"))
  BY <1>5 DEF Driven
<1>7. UNCHANGED <<nv, img, world>>
  BY DEF AbortRsp, RejectRsp
<1> DEFINE c == Completed(x, "ABORT")
<1>8. SameFile(m, c) \/ (c.off = 0 /\ c.how = m.how)
  BY <1>4, <1>5 DEF SameFile
<1>9. c \in Memory /\ Driven(c) /\ Becomes(c, e) /\ e \in Events
  BY <1>3, <1>4, <1>5, <1>6
<1> HIDE DEF c
<1> QED BY <1>7, <1>8, <1>9, SameFileKeeps

\* The server says when to upgrade.
LEMMA EndRspKeeps ==
  ASSUME OtaIInv, NEW when \in {"now", "later", "unknown"}, EndRsp(when)
  PROVE  OtaIInv'
<1> DEFINE x == [m EXCEPT !.status = "COUNT_DOWN"]
           y == [m EXCEPT !.status = "WAITING", !.endRetry = 0]
<1>1. m \in Memory
  BY DEF OtaIInv, TypeOK
<1>2. x \in Memory /\ SameFile(m, x) /\ y \in Memory /\ SameFile(m, y)
  <2>1. x \in Memory /\ SameFile(m, x)
    BY <1>1 DEF Memory, SameFile, Statuses
  <2>2. y \in Memory /\ SameFile(m, y)
    BY <1>1, Bounds DEF Memory, SameFile, Statuses
  <2> QED BY <2>1, <2>2
<1>3. {"boot", "end"} \subseteq Events /\ "boot" \in KnownStops
  BY DEF Events, KnownStops
<1>4. CASE when = "now"
  <2>1. Becomes(Completed(x, "SUCCESS"), "boot") /\ nv' = NoNv /\ UNCHANGED <<img, world>>
    BY <1>4 DEF EndRsp
  <2> HIDE DEF x
  <2>2. /\ Completed(x, "SUCCESS") \in Memory /\ Completed(x, "SUCCESS").how = x.how
        /\ SameFile(x, Completed(x, "SUCCESS")) \/ Completed(x, "SUCCESS").off = 0
    BY <1>2, CompletedFacts
  <2> QED BY <1>2, <1>3, <2>1, <2>2, SameFileKeeps DEF SameFile
<1>5. ASSUME NEW z \in {x, y}, Becomes(Arm(z, "upgrade"), "end"), UNCHANGED <<nv, img, world>>
      PROVE  OtaIInv'
  <2> HIDE DEF x, y
  <2>1. /\ Arm(z, "upgrade") \in Memory /\ SameFile(z, Arm(z, "upgrade"))
        /\ Driven(Arm(z, "upgrade"))
    BY <1>2, <1>5, HelperTypes, HelpersKeepFile, HelpersDrive DEF Timers
  <2> QED BY <1>2, <1>3, <1>5, <2>1, SameFileKeeps DEF SameFile
<1>6. when # "now" => /\ \E z \in {x, y} : Becomes(Arm(z, "upgrade"), "end")
                      /\ UNCHANGED <<nv, img, world>>
  BY DEF EndRsp
<1> QED BY <1>4, <1>5, <1>6

\* The addresses of the server.
LEMMA AddressKeeps ==
  ASSUME OtaIInv, MatchRsp \/ NwkRsp \/ \E ok \in BOOLEAN : IeeeRsp(ok)
  PROVE  OtaIInv'
<1>1. m \in Memory
  BY DEF OtaIInv, TypeOK
<1>2. ASSUME NEW q \in {"match", "nwk", "ieee"}
      PROVE  /\ Answered(q) \in Memory /\ SameFile(m, Answered(q))
             /\ Driven(Answered(q)) <=> Driven(m)
  BY <1>1 DEF Answered, Memory, SameFile, Driven
<1>3. {"match", "nwk", "ieee"} \subseteq Events
  BY DEF Events
<1>4. UNCHANGED <<nv, img, world>>
  BY DEF MatchRsp, NwkRsp, IeeeRsp
<1>5. CASE MatchRsp
  <2> DEFINE x == Answered("match")
  <2>1. Becomes(Ask(x, "ieee"), "match")
    BY <1>5 DEF MatchRsp
  <2>2. x \in Memory /\ SameFile(m, x) /\ (Driven(x) <=> Driven(m))
    BY <1>2
  <2> HIDE DEF x
  <2>3. Ask(x, "ieee") \in Memory /\ SameFile(x, Ask(x, "ieee"))
    BY <2>2, HelperTypes, HelpersKeepFile
  <2>4. Driven(Ask(x, "ieee")) <=> Driven(x)
    BY <2>2 DEF Ask, Driven, Memory
  <2> QED BY <1>3, <1>4, <2>1, <2>2, <2>3, <2>4, SameFileKeeps DEF SameFile
<1>6. CASE NwkRsp
  <2> DEFINE x == Answered("nwk")
             y == [x EXCEPT !.retry = 0]
  <2>1. Becomes(IF m.flag = "INIT" THEN x ELSE SendBlockReq(y), "nwk")
    BY <1>6 DEF NwkRsp
  <2>2. x \in Memory /\ SameFile(m, x) /\ (Driven(x) <=> Driven(m))
    BY <1>2
  <2> HIDE DEF x
  <2>3. y \in Memory /\ SameFile(x, y)
    BY <2>2, Bounds DEF Memory, SameFile
  <2> HIDE DEF y
  <2>4. SendBlockReq(y) \in Memory /\ SameFile(y, SendBlockReq(y)) /\ Driven(SendBlockReq(y))
    BY <2>3, HelperTypes, HelpersKeepFile, HelpersDrive
  <2> QED BY <1>3, <1>4, <2>1, <2>2, <2>3, <2>4, SameFileKeeps DEF SameFile
<1>7. ASSUME NEW ok \in BOOLEAN, IeeeRsp(ok) PROVE OtaIInv'
  <2> DEFINE a == Answered("ieee")
             x == [a EXCEPT !.server = @ \/ ok]
             w == IF m.status # "IN_PROGRESS" \/ m.flag # "INIT" THEN x
                  ELSE IF ok THEN [SendBlockReq(x) EXCEPT !.flag = "HDR"]
                  ELSE Completed(Disarm(x), "ABORT")
  <2>1. Becomes(w, "ieee")
    BY <1>7 DEF IeeeRsp
  <2>2. a \in Memory /\ SameFile(m, a) /\ (Driven(a) <=> Driven(m))
    BY <1>2
  <2> HIDE DEF a
  <2>3. x \in Memory /\ SameFile(m, x) /\ (Driven(x) <=> Driven(m))
    <3>1. a.server \/ ok \in BOOLEAN
      BY <2>2 DEF Memory
    <3> DEFINE b == a.server \/ ok
    <3> HIDE DEF b
    <3>2. LET u == [a EXCEPT !.server = b]
          IN u \in Memory /\ SameFile(m, u) /\ (Driven(u) <=> Driven(m))
      BY <2>2, <3>1 DEF Memory, SameFile, Driven, b
    <3> QED BY <3>2 DEF b
  <2> HIDE DEF x
  <2>4. LET s == SendBlockReq(x)
        IN s \in Memory /\ SameFile(x, s) /\ Driven(s)
    BY <2>3, HelperTypes, HelpersKeepFile, HelpersDrive
  <2>5. LET s == [SendBlockReq(x) EXCEPT !.flag = "HDR"]
        IN s \in Memory /\ SameFile(x, s) /\ Driven(s)
    <3> DEFINE s == SendBlockReq(x)
    <3>1. s \in Memory /\ SameFile(x, s) /\ Driven(s)
      BY <2>4
    <3> HIDE DEF s
    <3>2. LET u == [s EXCEPT !.flag = "HDR"]
          IN u \in Memory /\ SameFile(x, u) /\ Driven(u)
      BY <3>1 DEF Memory, SameFile, Driven
    <3> QED BY <3>2 DEF s
  <2>6. Disarm(x) \in Memory /\ SameFile(x, Disarm(x))
    BY <2>3, HelperTypes, HelpersKeepFile
  <2>7. LET s == Completed(Disarm(x), "ABORT")
        IN /\ s \in Memory /\ s.how = x.how /\ Driven(s)
           /\ SameFile(Disarm(x), s) \/ s.off = 0
    BY <2>6, CompletedFacts DEF SameFile, Driven
  <2>8. /\ w \in Memory /\ w.how = m.how
        /\ SameFile(m, w) \/ w.off = 0
        /\ Driven(w) \/ ~Driven(m)
    BY <2>3, <2>5, <2>6, <2>7 DEF SameFile
  <2> HIDE DEF w
  <2> QED BY <1>3, <1>4, <2>1, <2>8, SameFileKeeps
<1> QED BY <1>5, <1>6, <1>7

-----------------------------------------------------------------------------
(* Restarts *)

\* After a power loss the position comes from NV.  Where it is not beyond the
\* one lost, the header in NV is that of the file in the flash, and so are the
\* blocks below it.
LEMMA CrashKeeps == ASSUME OtaIInv, Crash PROVE OtaIInv'
<1> DEFINE x == [Fresh EXCEPT !.timer = "query"]
           a == m.astray \/ nv.info.off > m.off
           b == [x EXCEPT !.ver = nv.hdr, !.server = TRUE, !.off = nv.info.off,
                          !.ioff = nv.info.off, !.crc = nv.info.crc, !.flag = nv.info.flag,
                          !.astray = a]
<1>1. m \in Memory /\ NvOK /\ ImgOK /\ PositionHeld
  BY DEF OtaIInv, TypeOK, NvOK, ImgOK
<1>2. x \in Memory /\ x.off = 0 /\ x.astray = FALSE /\ x.timer = "query"
  <2>1. /\ "NORMAL" \in Statuses /\ "query" \in Timers /\ "none" \in Events
        /\ <<>> \in Seq(Tasks) /\ {} \in SUBSET {"match", "nwk", "ieee"}
    BY DEF Statuses, Timers, Events
  <2> QED BY <2>1, Bounds DEF Fresh, Memory
<1>3. UNCHANGED <<nv, img, world>>
  BY DEF Crash
<1>4. CASE nv.hdr = NoFile \/ nv.info = NoFile
  <2>1. m' = x
    BY <1>4 DEF Crash, Booted
  <2> HIDE DEF x
  <2>2. Driven(m)' /\ PositionHeld'
    BY <1>2, <2>1 DEF Driven, PositionHeld
  <2> QED BY <1>1, <1>2, <1>3, <2>1, <2>2 DEF OtaIInv, TypeOK, NvOK, ImgOK, OnlyKnownStops
<1>5. CASE nv.hdr # NoFile /\ nv.info # NoFile
  <2>1. m' = b
    BY <1>5 DEF Crash, Booted
  <2>2. nv.info \in Snapshots /\ nv.hdr \in File
    BY <1>1, <1>5 DEF NvOK
  <2>3. a \in BOOLEAN
    BY <1>1, <2>2 DEF Memory
  <2>4. /\ nv.info.off \in 0..N /\ nv.info.crc \in File \cup {NoFile}
        /\ nv.info.flag \in {"INIT", "HDR", "BODY"}
    BY <2>2 DEF Snapshots
  <2> HIDE DEF x, a
  <2>5. b \in Memory /\ b.off = nv.info.off /\ b.ver = nv.hdr /\ b.astray = a
        /\ b.timer = "query"
    BY <1>2, <2>2, <2>3, <2>4 DEF Memory
  <2> HIDE DEF b
  <2>6. Driven(m)'
    BY <2>1, <2>5 DEF Driven
  <2>7. PositionHeld'
    <3>1. SUFFICES ASSUME ~a, NEW j \in 2..N, j <= nv.info.off PROVE img[j] = nv.hdr
      BY <1>3, <2>1, <2>5 DEF PositionHeld
    <3>2. ~m.astray /\ nv.info.off <= m.off
      BY <1>1, <2>3, <2>4, <3>1 DEF a, Memory
    <3>3. j <= m.off /\ m.off >= 1
      BY <1>1, <2>4, <3>1, <3>2, Bounds DEF Memory
    <3> QED BY <1>1, <1>5, <3>2, <3>3 DEF PositionHeld
  <2> QED BY <1>1, <1>3, <2>1, <2>5, <2>6, <2>7 DEF OtaIInv, TypeOK, NvOK, ImgOK, OnlyKnownStops
<1> QED BY <1>4, <1>5

-----------------------------------------------------------------------------
(* The theorems *)

\* The client starts with nothing downloaded and the query under way.
LEMMA InitOtaIInv == Init => OtaIInv
<1> SUFFICES ASSUME Init PROVE OtaIInv
  OBVIOUS
<1>1. m \in Memory /\ m.off = 0 /\ m.timer = "query"
  <2>1. /\ "NORMAL" \in Statuses /\ "query" \in Timers /\ "none" \in Events
        /\ <<>> \in Seq(Tasks) /\ {} \in SUBSET {"match", "nwk", "ieee"}
    BY DEF Statuses, Timers, Events
  <2> QED BY <2>1, Bounds DEF Init, Fresh, Memory
<1>2. TypeOK
  BY <1>1, Bounds DEF Init, TypeOK, NoNv, NoImage
<1>3. OnlyKnownStops
  BY <1>1 DEF OnlyKnownStops, Driven
<1>4. PositionHeld
  BY <1>1, Bounds DEF PositionHeld
<1> QED BY <1>2, <1>3, <1>4 DEF OtaIInv, Init

\* Every step of the client keeps the invariant.
LEMMA NextOtaIInv == OtaIInv /\ [Next]_vars => OtaIInv'
<1> SUFFICES ASSUME OtaIInv, [Next]_vars PROVE OtaIInv'
  OBVIOUS
<1>1. CASE Run
  BY <1>1, RunTaskKeeps, QueryTimerKeeps, AddrTimerKeeps, BlockRspTimerKeeps,
     DelayTimerKeeps, WaitTimerKeeps, UpgradeTimerKeeps DEF Run, OtaTimer
<1>2. CASE Response
  <2>1. ASSUME NEW v \in world.offers \cup {NoFile}, QueryRsp(v) PROVE OtaIInv'
    BY <2>1, QueryRspKeeps, OffersAreFiles
  <2>2. ASSUME NEW v \in world.offers, NEW k \in 1..N, BlockRsp(v, k) PROVE OtaIInv'
    BY <2>2, BlockRspKeeps, OffersAreFiles
  <2> QED BY <1>2, <2>1, <2>2, EndRspKeeps, WaitRspKeeps, AbortKeeps, AddressKeeps DEF Response
<1>3. CASE UNCHANGED vars
  BY <1>3, StutterKeeps
<1> QED BY <1>1, <1>2, <1>3, CrashKeeps DEF Next

\* The invariant holds of every behaviour.
THEOREM OtaInvariant == Spec => []OtaIInv
BY InitOtaIInv, NextOtaIInv, PTL DEF Spec

\* Memory, NV items and flash are well formed: no counter passes its limit and
\* no position leaves the image, for images and limits of any size.
THEOREM OtaTypeCorrect == Spec => []TypeOK
<1>1. OtaIInv => TypeOK
  BY DEF OtaIInv
<1> QED BY <1>1, OtaInvariant, PTL

\* The blocks below the position of a download are in the flash, unless the
\* client has restarted from a saved position beyond the one it had reached.
THEOREM OtaPrefixWritten == Spec => []PrefixWritten
<1>1. OtaIInv => PrefixWritten
  BY DEF OtaIInv, PositionHeld, PrefixWritten
<1> QED BY <1>1, OtaInvariant, PTL

\* A client is left with nothing that drives it only by one of the five events
\* named in KnownStops.
THEOREM OtaOnlyKnownStops == Spec => []OnlyKnownStops
<1>1. OtaIInv => OnlyKnownStops
  BY DEF OtaIInv
<1> QED BY <1>1, OtaInvariant, PTL

-----------------------------------------------------------------------------
(* The installation *)

\* The pages below n are those of the new image.
Copied(n) == \A k \in 1..P : k < n => run[k] = new[k]

Kept == Valid(run) \/ cut

\* While the image is copied the new one is whole and flagged; in the other
\* states of the processor the running one is whole, or it is not yet known.
Stage ==
  /\ mcu \in {"check", "erase", "write"} => at \in 1..P
  /\ mcu = "check" => at = 1
  /\ mcu \in {"erase", "write"} => flag = "set" /\ Valid(new) /\ Copied(at)
  /\ mcu \in {"clear", "wipe", "jump", "app"} => Kept
  /\ mcu = "wait" /\ up.total # 0 => Kept

IInv == FlashTypeOK /\ cut \in BOOLEAN /\ NeverStranded /\ Stage

\* Pages and areas

LEMMA BlankType == Blank \in [1..P -> Page]
  BY DEF Blank, Page

\* Erasing a sector and programming a page leave an area of pages.
LEMMA AreaType ==
  ASSUME NEW area \in [1..P -> Page], NEW k \in 1..P, NEW v \in Page
  PROVE  /\ ErasedSector(area, k) \in [1..P -> Page]
         /\ Programmed(area, k, v) \in [1..P -> Page]
         /\ \A j \in 1..P : j # k => Programmed(area, k, v)[j] = area[j]
  BY DEF ErasedSector, Programmed, Page

\* A page that begins a sector is the first of it.
LEMMA SectorStart ==
  ASSUME NEW k \in 1..P, NEW j \in SectorOf(k), SectorPages = 1 \/ k % SectorPages = 1
  PROVE  j >= k
  <1>1. P \in Nat /\ SectorPages \in Nat /\ SectorPages > 0
    BY ImageAssumption DEF ImageAssumption
  <1>2. j \in 1..P /\ (j - 1) \div SectorPages = (k - 1) \div SectorPages
    BY DEF SectorOf
  <1> DEFINE a == k - 1
             b == j - 1
  <1>3. a \in Int /\ b \in Int /\ a >= 0 /\ b >= 0
    BY <1>1, <1>2
  <1>4. a % SectorPages = 0
    BY <1>1, <1>3, SMTT(60)
  <1>5. /\ a = SectorPages * (a \div SectorPages) + (a % SectorPages)
        /\ b = SectorPages * (b \div SectorPages) + (b % SectorPages)
        /\ b % SectorPages >= 0
    BY <1>1, <1>3, SMTT(60)
  <1> QED
    BY <1>1, <1>2, <1>3, <1>4, <1>5, SMTT(60)

\* At the start the running image is whole, or the device is bare.
LEMMA InitIInv == UpdateInit => IInv
  <1> SUFFICES ASSUME UpdateInit PROVE IInv
    OBVIOUS
  <1>1. run \in [1..P -> Page]
    BY BlankType, ImageAssumption DEF UpdateInit, Page
  <1>2. cut \in BOOLEAN /\ runFlag \in BOOLEAN
    BY DEF UpdateInit, BootInit, Valid
  <1> QED
    BY <1>1, <1>2, BlankType DEF UpdateInit, BootInit, IInv, FlashTypeOK, NeverStranded, Stage, Kept

-----------------------------------------------------------------------------
(* The boot loader *)

\* Start-up and the decision what to do keep the invariant.
LEMMA StartKeeps ==
  ASSUME IInv, PowerUp \/ CheckTimer \/ Check \/ Jump \/ BlockReqTimer
  PROVE  IInv'
  <1> USE DEF IInv, FlashTypeOK, NeverStranded, Stage, Kept, Valid, Copied, flashVars, bootVars
  <1>0. 1 \in 1..P  BY ImageAssumption DEF ImageAssumption
  <1>1. CASE PowerUp        BY <1>0, <1>1 DEF PowerUp, NoUpgrade
  <1>2. CASE CheckTimer     BY <1>0, <1>2 DEF CheckTimer
  <1>3. CASE Check
    <2>1. \A k \in 1..P : ~(k < 1)  BY ImageAssumption DEF ImageAssumption
    <2> QED  BY <1>0, <1>3, <2>1 DEF Check
  <1>4. CASE Jump           BY <1>4 DEF Jump
  <1>5. CASE BlockReqTimer  BY <1>5 DEF BlockReqTimer, Retry, NoUpgrade
  <1> QED  BY <1>1, <1>2, <1>3, <1>4, <1>5

\* Erasing the sector that the copy has reached takes no page copied before.
LEMMA EraseKeeps ==
  ASSUME IInv, CopyErase
  PROVE  IInv'
  <1> USE DEF IInv, CopyErase
  <1>1. at \in 1..P /\ run \in [1..P -> Page] /\ Copied(at) /\ flag = "set" /\ Valid(new)
    BY DEF FlashTypeOK, Stage
  <1>2. run' \in [1..P -> Page] /\ runFlag' \in BOOLEAN
    <2>1. Erased \in Page  BY DEF Page
    <2>2. ErasedSector(run, at) \in [1..P -> Page]
      BY <1>1, <2>1, AreaType
    <2>3. run' \in [1..P -> Page]  BY <1>1, <2>2
    <2>4. runFlag' \in BOOLEAN  BY Zenon DEF FlashTypeOK
    <2> QED  BY <2>3, <2>4
  <1>3. ASSUME NEW k \in 1..P, k < at PROVE run'[k] = run[k]
    <2>1. CASE SectorPages = 1 \/ at % SectorPages = 1
      <3>1. k \notin SectorOf(at)
        <4>1. at \in Int /\ k \in Int  BY <1>1, ImageAssumption DEF ImageAssumption
        <4> QED  BY <1>1, <1>3, <2>1, <4>1, SectorStart
      <3> QED  BY <2>1, <3>1 DEF ErasedSector
    <2>2. CASE ~(SectorPages = 1 \/ at % SectorPages = 1)
      BY <2>2
    <2> QED  BY <2>1, <2>2
  <1> QED
    BY <1>1, <1>2, <1>3 DEF FlashTypeOK, NeverStranded, Stage, Kept, Valid, Copied, bootVars

\* A page that reads back right is a page of the new image; after the last one
\* the running image is whole.
LEMMA WriteKeeps ==
  ASSUME IInv, CopyWrite
  PROVE  IInv'
  <1> USE DEF IInv, CopyWrite
  <1>1. at \in 1..P /\ run \in [1..P -> Page] /\ new \in [1..P -> Page] /\ Copied(at)
        /\ flag = "set" /\ Valid(new)
    BY DEF FlashTypeOK, Stage
  <1>2. new[at] \in Page  BY <1>1
  <1>3. /\ run' \in [1..P -> Page]
        /\ \A j \in 1..P : j # at => run'[j] = run[j]
    BY <1>1, <1>2, AreaType
  <1>4. P \in Nat /\ at \in Int /\ 1 <= at /\ at <= P
    BY <1>1, ImageAssumption DEF ImageAssumption
  <1>5. \A j \in 1..P : j <= at => run'[j] = new[j]
    BY <1>1, <1>3, <1>4 DEF Copied
  <1>6. runFlag' \in BOOLEAN /\ cut' \in BOOLEAN
    BY <1>4 DEF FlashTypeOK
  <1>7. CASE at = P
    <2>1. \A j \in 1..P : run'[j] = new[j]
      BY <1>5, <1>7, <1>4
    <2>2. Valid(run)'
      BY <1>1, <2>1 DEF Valid
    <2> QED
      BY <1>1, <1>3, <1>6, <1>7, <2>2 DEF FlashTypeOK, NeverStranded, Stage, Kept
  <1>8. CASE at # P
    <2>1. at' \in 1..P /\ Copied(at)'
      BY <1>4, <1>5, <1>8 DEF Copied
    <2> QED
      BY <1>1, <1>3, <1>6, <1>8, <2>1 DEF FlashTypeOK, NeverStranded, Stage, Kept, Valid
  <1> QED
    BY <1>7, <1>8

\* Clearing the flag and erasing the new image come when the running one is
\* whole.
LEMMA CleanKeeps ==
  ASSUME IInv, ClearFlag \/ Wipe
  PROVE  IInv'
  <1>1. mcu \in {"clear", "wipe"} /\ Kept /\ run' = run /\ cut' = cut /\ up' = up
        /\ runFlag' = runFlag /\ loader' = loader /\ mcu' \in {"wipe", "jump"}
    BY DEF ClearFlag, Wipe, IInv, Stage
  <1>2. new' \in [1..P -> Page] /\ flag' \in {"blank", "set", "clear"}
    BY Zenon, ImageAssumption DEF IInv, FlashTypeOK, ClearFlag, Wipe, ErasedSector, Page
  <1> QED
    BY <1>1, <1>2 DEF IInv, FlashTypeOK, NeverStranded, Stage, Kept, Valid

\* A page that does not read back leaves the copy to be done again.
LEMMA SpoiltKeeps ==
  ASSUME IInv, SpoiltWrite
  PROVE  IInv'
  <1> USE DEF SpoiltWrite
  <1>1. flag = "set" /\ Valid(new) /\ new' = new /\ flag' = flag /\ mcu' = "off"
    BY DEF IInv, Stage, flashVars
  <1>2. run' \in [1..P -> Page]
    BY ImageAssumption DEF IInv, FlashTypeOK, Page
  <1>3. runFlag' \in BOOLEAN /\ loader' \in BOOLEAN /\ cut' \in BOOLEAN
    BY Zenon DEF IInv, FlashTypeOK, bootVars
  <1> QED
    BY <1>1, <1>2, <1>3 DEF IInv, FlashTypeOK, NeverStranded, Stage, Valid

-----------------------------------------------------------------------------
(* The hosts, the application and the power *)

\* What the boot loader's host does to the new image it may do: the running one
\* is whole, or the exception is noted.
LEMMA UartKeeps ==
  ASSUME IInv, UartHost
  PROVE  IInv'
  <1>1. mcu = "wait" /\ mcu' = "wait" /\ run' = run /\ runFlag' = runFlag /\ loader' = loader
    BY Zenon DEF UartHost, StartRequest, BlockResponse, BlockError, KeyPress, flashVars
  <1>2. CASE \E n \in {0, P} : StartRequest(n)
    <2>1. PICK n \in {0, P} : StartRequest(n)  BY <1>2
    <2>2. up'.total = n  BY <2>1 DEF StartRequest
    <2>3. CASE n = 0
      BY <1>1, <2>1, <2>2, <2>3 DEF StartRequest, IInv, FlashTypeOK, NeverStranded, Stage, Kept, Valid
    <2>4. CASE n # 0
      <3>1. new' = Blank /\ flag' = "blank" /\ cut' = (cut \/ ~Valid(run))
        BY <2>1, <2>4 DEF StartRequest
      <3>2. Valid(run)' <=> Valid(run)  BY <1>1 DEF Valid
      <3>3. cut' \in BOOLEAN /\ (Valid(run)' \/ cut')
        BY <3>1, <3>2, Zenon DEF IInv, Valid
      <3> QED  BY <1>1, <3>1, <3>3, BlankType DEF IInv, FlashTypeOK, NeverStranded, Stage, Kept
    <2> QED  BY <2>3, <2>4
  <1>3. CASE \E v \in Good \cup Bad, k \in 0..P, len \in 1..2 : BlockResponse(v, k, len)
    <2>1. PICK v \in Good \cup Bad, k \in 0..P, len \in 1..2 : BlockResponse(v, k, len)
      BY <1>3
    <2>2. cut' = cut  BY <2>1 DEF BlockResponse
    <2>3. CASE up.total = 0
      <3>1. up'.total = 0 /\ new' = new /\ flag' = flag
        BY <2>1, <2>3 DEF BlockResponse, NoUpgrade
      <3> QED  BY <1>1, <2>2, <3>1 DEF IInv, FlashTypeOK, NeverStranded, Stage, Kept, Valid
    <2>4. CASE up.total # 0
      <3>1. Kept  BY <1>1, <2>4 DEF IInv, Stage
      <3>2. Kept'  BY <1>1, <2>2, <3>1 DEF Kept, Valid
      <3>3. new' \in [1..P -> Page] /\ flag' \in {"blank", "set", "clear"}
        <4>1. new \in [1..P -> Page] /\ flag \in {"blank", "set", "clear"} /\ v \in Page
          BY DEF IInv, FlashTypeOK, Page
        <4> QED  BY <2>1, <2>4, <4>1 DEF BlockResponse
      <3> QED  BY <1>1, <2>2, <3>2, <3>3 DEF IInv, FlashTypeOK, NeverStranded, Stage, Kept
    <2> QED  BY <2>3, <2>4
  <1>4. CASE BlockError \/ KeyPress
    <2>1. new' = new /\ flag' = flag /\ cut' = cut /\ (up' = up \/ up'.total = 0)
      BY <1>4 DEF BlockError, KeyPress, NoUpgrade, flashVars
    <2> QED  BY <1>1, <2>1 DEF IInv, FlashTypeOK, NeverStranded, Stage, Kept, Valid
  <1> QED
    BY <1>2, <1>3, <1>4 DEF UartHost

\* The application's steps leave the running image alone, which is whole.
LEMMA AppKeeps ==
  ASSUME IInv, mcu = "app", mcu' \in {"app", "off"},
         run' = run, runFlag' = runFlag, cut' = cut,
         loader' \in BOOLEAN, new' \in [1..P -> Page], flag' \in {"blank", "set", "clear"}
  PROVE  IInv'
  BY DEF IInv, FlashTypeOK, NeverStranded, Stage, Kept, Valid

\* Ending a download, storing a block.
LEMMA DownloadType ==
  ASSUME IInv, NEW x,
         EndFailed(x) \/ \E v \in Good \cup Bad \cup Remote, k \in 0..P : BlockStored(v, k)
  PROVE  loader' \in BOOLEAN /\ new' \in [1..P -> Page] /\ flag' \in {"blank", "set", "clear"}
  <1>1. loader \in BOOLEAN /\ new \in [1..P -> Page] /\ flag \in {"blank", "set", "clear"}
    BY Zenon DEF IInv, FlashTypeOK
  <1>2. \A n : ErasedUpTo(n) \in [1..P -> Page]
    BY <1>1 DEF ErasedUpTo, Page
  <1>3. CASE EndFailed(x)
    BY <1>1, <1>2, <1>3 DEF EndFailed
  <1>4. CASE \E v \in Good \cup Bad \cup Remote, k \in 0..P : BlockStored(v, k)
    <2>1. PICK v \in Good \cup Bad \cup Remote, k \in 0..P : BlockStored(v, k)  BY <1>4
    <2>2. v \in Page  BY DEF Page
    <2>3. k < P => k + 1 \in 1..P  BY ImageAssumption DEF ImageAssumption
    <2>4. k < P => Programmed(new, k + 1, v) \in [1..P -> Page]
      BY <1>1, <2>2, <2>3, AreaType
    <2> QED  BY <1>1, <2>1, <2>4 DEF BlockStored
  <1> QED  BY <1>3, <1>4

\* The host's download and its timer.
LEMMA HostKeeps ==
  ASSUME IInv, Host \/ HostTimer, UNCHANGED <<uart, bootVars>>
  PROVE  IInv'
  <1>1. loader \in BOOLEAN /\ new \in [1..P -> Page] /\ flag \in {"blank", "set", "clear"}
    BY Zenon DEF IInv, FlashTypeOK
  <1>2. /\ mcu = "app" /\ mcu' \in {"app", "off"}
        /\ run' = run /\ runFlag' = runFlag /\ cut' = cut
    BY Zenon DEF Host, HostStart, HostBlock, HostBlockError, HostTimer, HostBlockTimer, RebootTimer, bootVars
  <1>3. loader' \in BOOLEAN /\ new' \in [1..P -> Page] /\ flag' \in {"blank", "set", "clear"}
    <2>1. ASSUME NEW n, NEW local, HostStart(n, local)
          PROVE  loader' \in BOOLEAN /\ new' \in [1..P -> Page] /\ flag' \in {"blank", "set", "clear"}
      <3>1. \A j : ErasedUpTo(j) \in [1..P -> Page]
        BY <1>1 DEF ErasedUpTo, Page
      <3> QED  BY <1>1, <2>1, <3>1 DEF HostStart
    <2>2. ASSUME NEW v \in Good \cup Bad \cup Remote, NEW k \in 0..P, HostBlock(v, k)
          PROVE  loader' \in BOOLEAN /\ new' \in [1..P -> Page] /\ flag' \in {"blank", "set", "clear"}
      <3>1. \/ UNCHANGED <<flashVars, hostVars>>
            \/ BlockStored(v, k)
            \/ \E x \in {info, [info EXCEPT !.off = @ + 1]} : EndFailed(x)
        BY <2>2, Zenon DEF HostBlock
      <3>2. CASE UNCHANGED <<flashVars, hostVars>>
        BY <1>1, <3>2 DEF flashVars
      <3>3. CASE BlockStored(v, k)
        BY <3>3, DownloadType
      <3>4. CASE \E x \in {info, [info EXCEPT !.off = @ + 1]} : EndFailed(x)
        BY <3>4, DownloadType
      <3> QED  BY <3>1, <3>2, <3>3, <3>4
    <2>3. CASE HostBlockError
      BY <2>3, DownloadType DEF HostBlockError
    <2>4. CASE HostBlockTimer
      BY <1>1, <2>4, DownloadType DEF HostBlockTimer
    <2>5. CASE RebootTimer
      BY <1>1, <2>5 DEF RebootTimer
    <2> QED  BY <2>1, <2>2, <2>3, <2>4, <2>5 DEF Host, HostTimer
  <1> QED
    BY <1>2, <1>3, AppKeeps

\* The over-the-air client.
LEMMA OtaKeeps ==
  ASSUME IInv, OtaClientStep
  PROVE  IInv'
  <1>1. loader \in BOOLEAN /\ new \in [1..P -> Page] /\ flag \in {"blank", "set", "clear"}
    BY Zenon DEF IInv, FlashTypeOK
  <1>2. ASSUME NEW v \in Good, OtaWrite(v)
        PROVE  new' \in [1..P -> Page]
    <2>1. PICK k \in 1..P : new' = Programmed(new, k, v)  BY <1>2 DEF OtaWrite
    <2>2. v \in Page  BY DEF Page
    <2> QED  BY <1>1, <2>1, <2>2, AreaType
  <1>3. new' \in [1..P -> Page]
    BY <1>1, <1>2, BlankType DEF OtaClientStep, OtaErase, OtaReboot
  <1>4. /\ mcu = "app" /\ mcu' \in {"app", "off"} /\ loader' = loader
        /\ run' = run /\ runFlag' = runFlag /\ cut' = cut
        /\ flag' \in {"blank", "set", flag}
    BY DEF OtaClientStep, OtaErase, OtaWrite, OtaReboot, bootVars
  <1> QED
    BY <1>1, <1>3, <1>4, AppKeeps

\* Power may be lost in any state.
LEMMA PowerKeeps ==
  ASSUME IInv, PowerLoss
  PROVE  IInv'
  BY DEF PowerLoss, IInv, FlashTypeOK, NeverStranded, Stage, Kept, Valid, flashVars, NoUpgrade

LEMMA NextIInv == IInv /\ [UpdateNext]_updateVars => IInv'
  <1> SUFFICES ASSUME IInv, [UpdateNext]_updateVars PROVE IInv'
    OBVIOUS
  <1>1. CASE BootStep
    <2>1. CASE PowerUp \/ CheckTimer \/ Check \/ Jump \/ BlockReqTimer  BY <2>1, StartKeeps
    <2>2. CASE CopyErase             BY <2>2, EraseKeeps
    <2>3. CASE CopyWrite             BY <2>3, WriteKeeps
    <2>4. CASE ClearFlag \/ Wipe     BY <2>4, CleanKeeps
    <2> QED  BY <1>1, <2>1, <2>2, <2>3, <2>4 DEF BootStep, Copying
  <1>2. CASE HostStep                BY <1>2, HostKeeps DEF HostStep
  <1>3. CASE Disturbance
    BY <1>3, PowerKeeps, SpoiltKeeps, UartKeeps, HostKeeps, OtaKeeps DEF Disturbance
  <1>4. CASE UNCHANGED updateVars
    BY <1>4 DEF updateVars, flashVars, bootVars, IInv, FlashTypeOK, NeverStranded, Stage, Kept, Valid, Copied
  <1> QED
    BY <1>1, <1>2, <1>3, <1>4 DEF UpdateNext

LEMMA IInvAlways == UpdateSpec => []IInv
  BY InitIInv, NextIInv, PTL DEF UpdateSpec

\* There is always an image to run: the running one is whole, or the new one is
\* whole and flagged (unless the boot loader's host began a new upgrade over an
\* interrupted copy), for any number of pages and any size of a sector.
THEOREM AlwaysAnImage == UpdateSpec => []NeverStranded
  <1>1. IInv => NeverStranded  BY DEF IInv
  <1> QED  BY <1>1, IInvAlways, PTL

\* The boot loader jumps only to whole images, with the same exception.
THEOREM OnlyWholeImagesRun == UpdateSpec => []RunsWholeImage
  <1>1. IInv => RunsWholeImage  BY DEF IInv, Stage, Kept, RunsWholeImage
  <1> QED  BY <1>1, IInvAlways, PTL

-----------------------------------------------------------------------------
(* Types: the upgrade over the UART and the host's download *)

Booleans == uart \in BOOLEAN /\ chk \in BOOLEAN
Ups == [on : BOOLEAN, total : {0, P}, off : 0..(P + 1), retry : 0..BootRetries, timer : BOOLEAN]
Infos == [on : BOOLEAN, addr : {"zero", "new"}, total : 0..(P + 1), off : 0..(P + 1),
          cnt : 0..HostRetries, local : BOOLEAN]

UpTyped == up \in Ups
InfoTyped == info \in Infos
TimerTyped == hciTimer \in {"off", "block", "reboot"}

BootTypes == Booleans /\ at \in 1..P /\ UpTyped
HostTypes == InfoTyped /\ TimerTyped

\* The numbers the counters start from, and the idle upgrade and download.
LEMMA IdleTyped ==
  /\ P \in Nat \ {0} /\ SectorPages \in Nat \ {0}
  /\ BootRetries \in Nat /\ HostRetries \in Nat
  /\ NoUpgrade \in Ups /\ NoInfo \in Infos
BY ImageAssumption, RetriesAssumption, HostAssumption
DEF ImageAssumption, RetriesAssumption, HostAssumption, NoUpgrade, NoInfo, Ups, Infos

\* The boot loader's own steps keep its types, and leave the download alone.
LEMMA BootStepTypes ==
  ASSUME BootTypes, HostTypes, BootStep
  PROVE  BootTypes' /\ HostTypes'
<1>1. HostTypes'
  BY DEF BootStep, hostVars, HostTypes, InfoTyped, Infos, TimerTyped
<1>2. Booleans'
  BY DEF BootStep, Copying, PowerUp, CheckTimer, BlockReqTimer, Check, CopyErase, CopyWrite,
         ClearFlag, Wipe, Jump, bootVars, BootTypes, Booleans
<1>3. at' \in 1..P
  <2>1. at' \in {at, 1} \/ (at' = at + 1 /\ at # P) \/ (at' = at + SectorPages /\ at' <= P)
    <3>1. CASE Wipe
      BY <3>1, IdleTyped DEF Wipe, BootTypes
    <3>2. CASE CopyWrite
      BY <3>2 DEF CopyWrite
    <3> QED BY <3>1, <3>2
        DEF BootStep, Copying, PowerUp, CheckTimer, BlockReqTimer, Check, CopyErase,
            ClearFlag, Jump, bootVars
  <2> QED BY <2>1, IdleTyped DEF BootTypes
<1>4. UpTyped'
  <2>1. up' = up \/ up' = NoUpgrade \/ (up.retry < BootRetries /\ up' = [up EXCEPT !.retry = @ + 1])
    BY DEF BootStep, Copying, PowerUp, CheckTimer, BlockReqTimer, Check, CopyErase, CopyWrite,
           ClearFlag, Wipe, Jump, bootVars, Retry
  <2> QED BY <2>1, IdleTyped DEF BootTypes, UpTyped, Ups
<1> QED BY <1>1, <1>2, <1>3, <1>4 DEF BootTypes

\* A message of the boot loader's host: an upgrade never counts blocks beyond
\* its image.
LEMMA UartTypes ==
  ASSUME BootTypes, HostTypes, UartHost, UNCHANGED hostVars
  PROVE  BootTypes' /\ HostTypes'
<1>1. HostTypes'
  BY DEF hostVars, HostTypes, InfoTyped, Infos, TimerTyped
<1>2. Booleans' /\ at' = at
  BY DEF UartHost, StartRequest, BlockResponse, BlockError, KeyPress, BootTypes, Booleans
<1>3. UpTyped'
  <2>1. ASSUME NEW n \in {0, P}, StartRequest(n) PROVE UpTyped'
    BY <2>1, IdleTyped DEF StartRequest, UpTyped, Ups
  <2>2. ASSUME NEW v, NEW k \in 0..P, NEW len \in 1..2, BlockResponse(v, k, len)
        PROVE  UpTyped'
    <3> DEFINE x == [up EXCEPT !.timer = FALSE]
               y == [x EXCEPT !.off = @ + len]
               z == [y EXCEPT !.retry = 0, !.timer = TRUE]
    <3>1. /\ up' \in {NoUpgrade, x, z}
          /\ up' \notin {NoUpgrade, x} => k = up.off /\ ~(y.off > y.total)
      BY <2>2, Zenon DEF BlockResponse
    <3>2. x \in Ups
      BY DEF BootTypes, UpTyped, Ups
    <3>3. k = up.off /\ ~(y.off > y.total)
          => z \in Ups
      <4>1. SUFFICES ASSUME k = up.off, ~(y.off > y.total)
                     PROVE  z \in Ups
        OBVIOUS
      <4>2. y.off = up.off + len /\ y.total = up.total /\ up.total \in {0, P}
        BY DEF BootTypes, UpTyped, Ups
      <4>3. y.off \in 0..(P + 1)
        BY <4>1, <4>2, IdleTyped DEF BootTypes, UpTyped, Ups
      <4>4. y \in Ups
        BY <4>3 DEF BootTypes, UpTyped, Ups
      <4> HIDE DEF y
      <4>5. 0 \in 0..BootRetries
        BY IdleTyped
      <4> QED BY <4>4, <4>5 DEF Ups
    <3> HIDE DEF x, z
    <3> QED BY <3>1, <3>2, <3>3, IdleTyped DEF UpTyped, Ups
  <2>3. CASE BlockError
    BY <2>3, IdleTyped DEF BlockError, UpTyped, Ups
  <2>4. CASE KeyPress
    BY <2>4 DEF KeyPress, BootTypes, UpTyped, Ups
  <2> QED BY <2>1, <2>2, <2>3, <2>4 DEF UartHost
<1> QED BY <1>1, <1>2, <1>3 DEF BootTypes

\* The host's download: neither the blocks nor the retries are counted beyond
\* their limits, the sizes refused included.
LEMMA DownloadTypes ==
  ASSUME BootTypes, HostTypes, Host \/ HostTimer, UNCHANGED <<uart, bootVars>>
  PROVE  BootTypes' /\ HostTypes'
<1>1. BootTypes'
  BY DEF bootVars, BootTypes, Booleans, UpTyped, Ups
<1>2. TimerTyped'
  BY DEF HostTypes, TimerTyped, Host, HostStart, HostBlock, HostBlockError, HostTimer,
         HostBlockTimer, RebootTimer, HostReset, hostVars
<1>3. InfoTyped'
  <2>1. \A x : EndFailed(x) => info' = NoInfo
    BY DEF EndFailed
  <2>2. ASSUME NEW n \in {1, P, P + 1}, NEW local \in BOOLEAN, HostStart(n, local)
        PROVE  InfoTyped'
    <3> DEFINE y == [info EXCEPT !.addr = "new", !.total = n]
               z == [on |-> TRUE, addr |-> "new", total |-> n, off |-> 0, cnt |-> 0,
                     local |-> local]
    <3>1. info' = y \/ info' = z
      BY <2>2 DEF HostStart
    <3>2. n \in 0..(P + 1) /\ 0 \in 0..(P + 1) /\ 0 \in 0..HostRetries
      BY IdleTyped
    <3>3. y \in Infos
      BY <3>2 DEF HostTypes, InfoTyped, Infos
    <3>4. z \in Infos
      BY <3>2 DEF Infos
    <3> QED BY <3>1, <3>3, <3>4 DEF InfoTyped, Infos
  <2>3. ASSUME NEW v, NEW k \in 0..P, HostBlock(v, k) PROVE InfoTyped'
    <3> DEFINE y == [info EXCEPT !.off = @ + 1]
    <3>1. info' \in {info, NoInfo} \/ (k = info.off /\ info' = [y EXCEPT !.cnt = 0])
      BY <2>1, <2>3, Zenon DEF HostBlock, hostVars
    <3>2. k = info.off => [y EXCEPT !.cnt = 0] \in Infos
      <4>1. SUFFICES ASSUME k = info.off PROVE [y EXCEPT !.cnt = 0] \in Infos
        OBVIOUS
      <4>2. info.off + 1 \in 0..(P + 1) /\ 0 \in 0..HostRetries
        BY <4>1, IdleTyped
      <4>3. y \in Infos
        BY <4>2 DEF HostTypes, InfoTyped, Infos
      <4> HIDE DEF y
      <4> QED BY <4>2, <4>3 DEF Infos
    <3> HIDE DEF y
    <3> QED BY <3>1, <3>2, IdleTyped DEF HostTypes, InfoTyped, Infos
  <2>4. CASE HostBlockError
    BY <2>1, <2>4, IdleTyped DEF HostBlockError, InfoTyped, Infos
  <2>5. CASE HostBlockTimer
    BY <2>1, <2>5, IdleTyped DEF HostBlockTimer, HostTypes, InfoTyped, Infos
  <2>6. CASE RebootTimer
    BY <2>6, IdleTyped DEF RebootTimer, HostReset, HostTypes, InfoTyped, Infos
  <2> QED BY <2>2, <2>3, <2>4, <2>5, <2>6 DEF Host, HostTimer
<1> QED BY <1>1, <1>2, <1>3 DEF HostTypes

\* A loss of power, a spoilt program and the over-the-air client.
LEMMA OtherTypes ==
  ASSUME BootTypes, HostTypes,
         PowerLoss \/ (SpoiltWrite /\ UNCHANGED hostVars) \/ OtaClientStep \/ UNCHANGED updateVars
  PROVE  BootTypes' /\ HostTypes'
<1>1. /\ uart' = uart /\ chk' \in {chk, FALSE} /\ at' = at /\ up' \in {up, NoUpgrade}
      /\ info' \in {info, NoInfo} /\ hciTimer' \in {hciTimer, "off"}
  BY DEF PowerLoss, SpoiltWrite, OtaClientStep, OtaErase, OtaWrite, OtaReboot, HostReset,
         updateVars, bootVars, hostVars
<1> QED BY <1>1, IdleTyped DEF BootTypes, HostTypes, Booleans, UpTyped, Ups, InfoTyped, Infos, TimerTyped

\* Flash areas, upgradeInfo and ota_info are well formed: no transfer, over the
\* UART or from the host, counts blocks or retries beyond its limits.
THEOREM UpdateTypeCorrect == UpdateSpec => []UpdateTypeOK
<1>1. UpdateInit => BootTypes /\ HostTypes
  <2>1. UpdateInit => Booleans
    BY DEF UpdateInit, BootInit, Booleans
  <2>2. UpdateInit => at \in 1..P
    BY IdleTyped DEF UpdateInit, BootInit
  <2>3. UpdateInit => UpTyped /\ HostTypes
    BY IdleTyped DEF UpdateInit, BootInit, HostInit, HostTypes, UpTyped, InfoTyped, TimerTyped
  <2> QED BY <2>1, <2>2, <2>3 DEF BootTypes
<1>2. BootTypes /\ HostTypes /\ [UpdateNext]_updateVars => BootTypes' /\ HostTypes'
  BY BootStepTypes, UartTypes, DownloadTypes, OtherTypes DEF UpdateNext, HostStep, Disturbance
<1>3. IInv /\ BootTypes /\ HostTypes => UpdateTypeOK
  BY DEF IInv, BootTypes, HostTypes, Booleans, UpTyped, Ups, InfoTyped, Infos, TimerTyped, UpdateTypeOK
<1> QED BY <1>1, <1>2, <1>3, IInvAlways, PTL DEF UpdateSpec

-----------------------------------------------------------------------------
(* Sector 0 and the host's download *)

\* A download under way has an address: that of the new image's area.
Addressed == info.on => info.addr = "new"

\* The host and the download's timers keep the address until the download ends,
\* and reach sector 0 only without one.
LEMMA HostAddresses ==
  ASSUME info \in Infos, Addressed, Host \/ HostTimer
  PROVE  Addressed' /\ (loader' # loader => ~info.on)
<1> DEFINE Spared == loader' # loader => ~info.on
<1>1. Addressed' \/ info' # NoInfo
  BY DEF NoInfo, Addressed
<1>2. ASSUME NEW x, x.addr = info.addr, EndFailed(x) PROVE Addressed' /\ Spared
  BY <1>1, <1>2 DEF EndFailed, Addressed
<1>3. ASSUME NEW v, NEW k, BlockStored(v, k) PROVE Spared
  BY <1>3 DEF BlockStored, Addressed
<1>4. ASSUME NEW n \in Int, NEW l \in BOOLEAN, HostStart(n, l) PROVE Addressed' /\ Spared
  <2>1. loader' = loader
    BY <1>4 DEF HostStart
  <2>2. \/ info' = [info EXCEPT !.addr = "new", !.total = n]
        \/ info' = [on |-> TRUE, addr |-> "new", total |-> n, off |-> 0, cnt |-> 0, local |-> l]
    BY <1>4, Zenon DEF HostStart
  <2>3. info'.addr = "new"
    <3> DEFINE y == [info EXCEPT !.addr = "new"]
    <3>1. y \in Infos /\ y.addr = "new"
      BY DEF Infos
    <3>2. CASE info' = [y EXCEPT !.total = n]
      <4> HIDE DEF y
      <4> QED BY <3>1, <3>2 DEF Infos
    <3>3. CASE info' = [on |-> TRUE, addr |-> "new", total |-> n, off |-> 0, cnt |-> 0, local |-> l]
      BY <3>3
    <3> QED BY <2>2, <3>2, <3>3
  <2> QED BY <2>1, <2>3 DEF Addressed
<1>5. ASSUME NEW v, NEW k, HostBlock(v, k) PROVE Addressed' /\ Spared
  <2> DEFINE x == [info EXCEPT !.off = @ + 1]
  <2>1. x.addr = info.addr /\ [x EXCEPT !.cnt = 0].addr = info.addr /\ [x EXCEPT !.cnt = 0].on = info.on
    BY DEF Infos
  <2>2. \/ UNCHANGED <<flashVars, hostVars>>
        \/ EndFailed(info) \/ EndFailed(x)
        \/ BlockStored(v, k) /\ info' = [x EXCEPT !.cnt = 0]
        \/ BlockStored(v, k) /\ info' = NoInfo
    BY <1>5, Zenon DEF HostBlock
  <2> HIDE DEF x
  <2>3. CASE UNCHANGED <<flashVars, hostVars>>
    BY <2>3 DEF flashVars, hostVars, Addressed
  <2>4. CASE EndFailed(info) \/ EndFailed(x)
    BY <1>2, <2>1, <2>4
  <2>5. CASE BlockStored(v, k) /\ info' = [x EXCEPT !.cnt = 0]
    BY <1>3, <2>1, <2>5 DEF Addressed
  <2>6. CASE BlockStored(v, k) /\ info' = NoInfo
    BY <1>1, <1>3, <2>6
  <2> QED BY <2>2, <2>3, <2>4, <2>5, <2>6
<1>6. CASE HostBlockError
  BY <1>2, <1>6 DEF HostBlockError
<1>7. CASE HostBlockTimer
  <2>1. CASE info' = [info EXCEPT !.cnt = @ + 1] /\ UNCHANGED loader
    BY <2>1 DEF Infos, Addressed
  <2> QED BY <1>2, <1>7, <2>1 DEF HostBlockTimer
<1>8. CASE RebootTimer
  BY <1>1, <1>8 DEF RebootTimer, HostReset, Addressed
<1>9. {1, P, P + 1} \subseteq Int
  BY IdleTyped
<1> QED BY <1>4, <1>5, <1>6, <1>7, <1>8, <1>9 DEF Host, HostTimer

\* The host that damages the boot loader has no download under way: whatever it
\* sends, and whenever the power fails, a download that is under way does not
\* touch sector 0 (the address of ota_info, zbhciCmdProcess.c).
THEOREM LoaderLostOnlyToStrayBlocks == UpdateSpec => LoaderLostToStrayBlock
<1> DEFINE Spared == loader' # loader => ~info.on
<1>1. UpdateInit => Addressed
  BY DEF UpdateInit, HostInit, NoInfo, Addressed
<1>2. UpdateTypeOK /\ Addressed /\ [UpdateNext]_updateVars => Addressed' /\ [Spared]_updateVars
  <2> SUFFICES ASSUME UpdateTypeOK, Addressed, [UpdateNext]_updateVars PROVE Addressed' /\ Spared
    OBVIOUS
  <2>1. info \in Infos
    BY DEF UpdateTypeOK, Infos
  <2>2. CASE HostStep \/ (Host /\ UNCHANGED <<uart, bootVars>>)
    BY <2>1, <2>2, HostAddresses DEF HostStep
  <2>3. CASE BootStep \/ (SpoiltWrite /\ UNCHANGED hostVars) \/ (UartHost /\ UNCHANGED hostVars)
    <3>1. UNCHANGED <<loader, hostVars>>
      BY <2>3 DEF BootStep, PowerUp, CheckTimer, Copying, Check, CopyErase, CopyWrite, ClearFlag, Wipe,
         Jump, BlockReqTimer, SpoiltWrite, UartHost, StartRequest, BlockResponse, BlockError, KeyPress,
         flashVars
    <3> QED BY <3>1 DEF hostVars, Addressed
  <2>4. CASE PowerLoss \/ OtaClientStep
    <3>1. loader' = loader /\ info' \in {info, NoInfo}
      BY <2>4 DEF PowerLoss, OtaClientStep, OtaErase, OtaWrite, OtaReboot, HostReset, flashVars, hostVars
    <3> QED BY <3>1 DEF NoInfo, Addressed
  <2>5. CASE UNCHANGED updateVars
    BY <2>5 DEF updateVars, flashVars, hostVars, Addressed
  <2> QED BY <2>2, <2>3, <2>4, <2>5 DEF UpdateNext, Disturbance
<1> QED BY <1>1, <1>2, UpdateTypeCorrect, PTL DEF UpdateSpec, LoaderLostToStrayBlock
=============================================================================
