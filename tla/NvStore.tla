------------------------------ MODULE NvStore ------------------------------
(***************************************************************************)
(* The flash item store of proj/drivers/drv_nv.c, for one NV module.       *)
(*                                                                         *)
(* A module owns two sectors.  A sector is a header, an array of index     *)
(* entries that is only ever appended to, and the item contents the        *)
(* entries point to.  Writing an item appends an entry and then marks the  *)
(* item's previous entry invalid; when the sector is full the live items   *)
(* are copied to the other sector, which is then given a header.           *)
(*                                                                         *)
(* One action below is at most one flash operation, together with the      *)
(* reads that precede it, so that power may be lost between any two flash  *)
(* operations.  Faults that may be enabled:                                *)
(*   "crash"   power loss: the running request disappears; an index entry  *)
(*             or a sector header being programmed may be left torn        *)
(*   "refuse"  low voltage: drv_flash.c refuses an erase or a program and  *)
(*             leaves the flash unchanged (VOLTAGE_DETECT_ENABLE)          *)
(*   "noheap"  ev_buf_allocate finds no buffer for the duplicate table     *)
(*   "early"   crashes and refusals also strike before the module has got  *)
(*             its first sector header                                     *)
(* Only items stored with single = 1 are modelled, as every call in the    *)
(* repository's sources does.  The header flags NV_SECTOR_VALID and        *)
(* NV_SECTOR_VALID_READY_CHECKCRC of older firmware do not occur.          *)
(***************************************************************************)
EXTENDS Integers, Sequences, FiniteSets, Functions

CONSTANTS Item,            \* item identifiers of the module
          Value,           \* payloads
          Absent,          \* no such item
          ItemSize,        \* [Item -> Nat]: ITEM_TOTAL_LEN of each item, in bytes
          IdxNum,          \* MODULE_IDX_NUM: index entries in a sector
          ContextSize,     \* bytes for item contents in a sector
          CrcCoversState,  \* TRUE where nv_info_idx_t has the resv field (B91, B92)
          Removable,       \* items the callers also remove
          Faults           \* subset of {"crash", "refuse", "noheap", "early"}

ASSUME NvAssumption ==
  /\ Absent \notin Item \cup Value
  /\ ItemSize \in [Item -> Nat \ {0}]
  /\ IdxNum \in Nat \ {0}
  /\ ContextSize \in Nat \ {0}
  /\ CrcCoversState \in BOOLEAN
  /\ Removable \subseteq Item
  /\ Faults \subseteq {"crash", "refuse", "noheap", "early"}

VARIABLES flash,   \* the two sectors
          op       \* the request being executed, and the last status returned

vars == <<flash, op>>

Sect == {0, 1}
Other(s) == 1 - s

\* an index entry with what it points to: the payload, the item header and
\* the usedState; "TORN" is any content that is no legal flag or checksum
Entry == [item : Item, val : Value \cup {Absent}, hdr : {"BLANK", "OK", "TORN"},
          state : {"OPERATION", "VALID_SINGLE", "INVALID", "TORN"}]

NewEntry(i) == [item |-> i, val |-> Absent, hdr |-> "BLANK", state |-> "OPERATION"]

Sector == [flag : {"IDLE", "VALID", "INVALID", "TORN"}, seq : 0..3, idx : Seq(Entry)]

BlankSector == [flag |-> "IDLE", seq |-> 0, idx |-> <<>>]

Rest(r) == [pc |-> "idle", item |-> Absent, val |-> Absent, force |-> FALSE,
            sect |-> 0, seq |-> 0, upd |-> FALSE, pos |-> 0, scan |-> 0,
            del |-> 0, res |-> r]

Idle == Rest("none")

Init ==
  /\ flash = [s \in Sect |-> BlankSector]
  /\ op = Idle

-----------------------------------------------------------------------------
(* Reading the flash *)

ValidSect == {s \in Sect : flash[s].flag = "VALID"}
Formatted == ValidSect # {}

\* with two valid headers the later of two consecutive numbers modulo 4 wins
NewerSeq(a, b) ==
  LET max == IF a >= b THEN a ELSE b
      min == IF a >= b THEN b ELSE a
  IN IF max - min = 1 THEN max ELSE min

CurrentSeq ==
  IF ValidSect = Sect THEN NewerSeq(flash[0].seq, flash[1].seq)
  ELSE IF 0 \in ValidSect THEN flash[0].seq
  ELSE flash[1].seq

\* nv_sector_read returns NV_SUCC and leaves *sectInfo uninitialised when no
\* header is valid: any sequence number may be read from it
SectorRead == IF Formatted THEN {CurrentSeq} ELSE 0..3

\* the newest valid entry of item i in sector s, 0 if there is none
IndexRead(s, i) ==
  LET hits == {k \in 1..Len(flash[s].idx) :
                 flash[s].idx[k].state = "VALID_SINGLE" /\ flash[s].idx[k].item = i}
  IN IF hits = {} THEN 0 ELSE CHOOSE k \in hits : \A j \in hits : j <= k

ReadFrom(s, i) ==
  LET k == IndexRead(s, i) IN IF k = 0 THEN Absent ELSE flash[s].idx[k].val

\* what nv_flashReadNew returns for item i
View(i) == IF Formatted THEN ReadFrom(CurrentSeq % 2, i) ELSE Absent

\* contents are laid out one after another, each aligned to 4 bytes
Aligned(n) == ((n + 3) \div 4) * 4

Used(s, n) == SumFunctionOnSet(
  [k \in 1..n |-> Aligned(ItemSize[flash[s].idx[k].item])], 1..n)

\* an item of this size no longer fits after entry n of sector s
NoRoom(s, n, size) == Used(s, n) + size > ContextSize

Target == IF op.upd THEN Other(op.sect) ELSE op.sect

-----------------------------------------------------------------------------
(* Finishing a request *)

\* bug: the retry does not look at whether it is the retry
BugRetryAgain(r) ==
  op' = IF r = "NV_ITEM_CHECK_ERROR"
          THEN [op EXCEPT !.pc = "sector", !.force = TRUE]
          ELSE Rest(r)

\* nv_flashWriteNew: an index check error is retried once in a fresh sector
Return(r) ==
  op' = IF r = "NV_ITEM_CHECK_ERROR" /\ ~op.force
          THEN [op EXCEPT !.pc = "sector", !.force = TRUE]
          ELSE Rest(r)

Goto(p) == op' = [op EXCEPT !.pc = p]

CanFail(f) == f \in Faults /\ (Formatted \/ "early" \in Faults)

\* a flash operation whose outcome the code does not look at
Unchecked(f) == flash' = f \/ (CanFail("refuse") /\ flash' = flash)

\* a program that flash_writeWithCheck finds not to have taken
Refused(p) ==
  /\ op.pc = p
  /\ CanFail("refuse")
  /\ UNCHANGED flash
  /\ Return(IF p = "index" THEN "NV_ITEM_CHECK_ERROR" ELSE "NV_CHECK_SUM_ERROR")

SetState(s, k, st) == [flash EXCEPT ![s].idx[k].state = st]
SetFlag(s, fl) == [flash EXCEPT ![s].flag = fl]

-----------------------------------------------------------------------------
(* Writing an item: nv_flashWriteNew, nv_flashWriteNewHandler *)

BeginWrite(i, v) ==
  /\ op.pc = "idle"
  /\ ItemSize[i] <= ContextSize
  /\ op' = [Idle EXCEPT !.pc = "sector", !.item = i, !.val = v]
  /\ UNCHANGED flash

\* nv_sector_read for writing also invalidates the older sector
SectorReadForWrite ==
  /\ op.pc = "sector"
  /\ \E q \in SectorRead :
       /\ op' = [op EXCEPT !.pc = "locate", !.seq = q, !.sect = q % 2]
       /\ IF flash[Other(q % 2)].flag = "VALID"
            THEN Unchecked(SetFlag(Other(q % 2), "INVALID"))
            ELSE UNCHANGED flash

\* bug: the last index entry is never used
BugNeedsUpdate(s, i) == Len(flash[s].idx) >= IdxNum - 1

\* the sector cannot take item i after its last entry; the end of the last
\* item is taken before it is aligned
NeedsUpdate(s, i) ==
  LET n == Len(flash[s].idx)
      last == flash[s].idx[n]
  IN /\ n > 0
     /\ \/ n = IdxNum
        \/ NoRoom(s, n - 1, ItemSize[last.item] + ItemSize[i])
        \/ last.state = "TORN"

Locate ==
  /\ op.pc = "locate"
  /\ LET u == op.force \/ NeedsUpdate(op.sect, op.item)
     IN op' = [op EXCEPT !.pc = IF u THEN "erase" ELSE "index", !.upd = u,
                         !.pos = IF u THEN 0 ELSE Len(flash[op.sect].idx)]
  /\ UNCHANGED flash

Erase ==
  /\ op.pc = "erase"
  /\ Unchecked([flash EXCEPT ![Other(op.sect)] = BlankSector])
  /\ \/ op' = [op EXCEPT !.pc = "dedup", !.scan = Len(flash[op.sect].idx)]
     \/ "noheap" \in Faults /\ op' = [op EXCEPT !.pc = "copy", !.scan = 1]

\* bug: duplicates stay
BugNoDedup ==
  /\ op.pc = "dedup"
  /\ op.scan > 0
  /\ UNCHANGED flash
  /\ op' = [op EXCEPT !.scan = @ - 1]

\* nv_exceptionDataHandler: walks down the index of the old sector and
\* invalidates every valid entry whose item has a newer valid entry
Dedup ==
  /\ op.pc = "dedup"
  /\ op.scan > 0
  /\ LET e == flash[op.sect].idx[op.scan]
     IN IF e.state = "VALID_SINGLE" /\ IndexRead(op.sect, e.item) > op.scan
          THEN Unchecked(SetState(op.sect, op.scan, "INVALID"))
          ELSE UNCHANGED flash
  /\ op' = [op EXCEPT !.scan = @ - 1]

DedupDone ==
  /\ op.pc = "dedup"
  /\ op.scan = 0
  /\ op' = [op EXCEPT !.pc = "copy", !.scan = 1]
  /\ UNCHANGED flash

\* nv_sect_info_check fails, or the walk along the index chain has ended
CopyEnded ==
  LET idx == flash[op.sect].idx
  IN \/ flash[op.sect].flag # "VALID"
     \/ op.scan \notin {k \in 1..Len(idx) : idx[k].state # "TORN"}

\* copies one live entry; the target has no header yet, so that the several
\* programs of one copy need no steps of their own
Copy ==
  /\ op.pc = "copy"
  /\ ~CopyEnded
  /\ LET e == flash[op.sect].idx[op.scan]
         t == Other(op.sect)
         put(f) == [flash EXCEPT ![t].idx = Append(@, f)]
     IN IF e.state = "VALID_SINGLE" /\ e.item # op.item
          THEN IF Len(flash[t].idx) = op.pos
            THEN \/ /\ flash' = put(e)
                    /\ op' = [op EXCEPT !.scan = @ + 1, !.pos = @ + 1]
                 \/ /\ CanFail("refuse")
                    /\ Return("NV_ITEM_CHECK_ERROR")
                    /\ UNCHANGED flash
                 \/ /\ CanFail("refuse")
                    /\ Return("NV_CHECK_SUM_ERROR")
                    /\ flash' = put(NewEntry(e.item))
            ELSE UNCHANGED flash /\ Return("NV_ITEM_CHECK_ERROR")
          ELSE op' = [op EXCEPT !.scan = @ + 1] /\ UNCHANGED flash

CopyDone ==
  /\ op.pc = "copy"
  /\ CopyEnded
  /\ IF op.pos = IdxNum \/ NoRoom(Target, op.pos, ItemSize[op.item])
       THEN Return("NV_NOT_ENOUGH_SAPCE")
       ELSE Goto("index")
  /\ UNCHANGED flash

\* nv_write_item checks the entry before the one it is about to append
AppendableAfter(e) ==
  /\ e.state # "TORN"
  /\ e.hdr # "TORN"
  /\ e.hdr = "OK" /\ CrcCoversState => e.state = "VALID_SINGLE"

\* the search for the entry to supersede, and the program of the index entry
WriteIndex ==
  /\ op.pc = "index"
  /\ LET idx == flash[Target].idx
     IN IF \/ Len(idx) # op.pos
           \/ op.pos > 0 /\ ~AppendableAfter(idx[op.pos])
           \/ NoRoom(Target, op.pos, ItemSize[op.item])
          THEN UNCHANGED flash /\ Return("NV_ITEM_CHECK_ERROR")
          ELSE /\ flash' = [flash EXCEPT ![Target].idx = Append(@, NewEntry(op.item))]
               /\ op' = [op EXCEPT !.pc = "payload", !.pos = @ + 1,
                                   !.del = IndexRead(Target, op.item)]

WritePayload ==
  /\ op.pc = "payload"
  /\ flash' = [flash EXCEPT ![Target].idx[op.pos].val = op.val]
  /\ Goto("itemhdr")

WriteItemHdr ==
  /\ op.pc = "itemhdr"
  /\ flash' = [flash EXCEPT ![Target].idx[op.pos].hdr = "OK"]
  /\ Goto("state")

\* bug: the old header goes before the new one is there
BugOldHdrFirst ==
  IF op.upd THEN Goto("oldhdr")
  ELSE IF op.pos = 1 THEN Goto("firsthdr")
  ELSE Return("NV_SUCC")

\* the step after the item itself is complete
AfterItem ==
  IF op.upd THEN Goto("newhdr")
  ELSE IF op.pos = 1 THEN Goto("firsthdr")
  ELSE Return("NV_SUCC")

\* bug: the entry the new one supersedes stays valid
BugKeepOld ==
  /\ op.pc = "state"
  /\ flash' = SetState(Target, op.pos, "VALID_SINGLE")
  /\ AfterItem

WriteState ==
  /\ op.pc = "state"
  /\ flash' = SetState(Target, op.pos, "VALID_SINGLE")
  /\ IF op.del > 0 THEN Goto("delete") ELSE AfterItem

DeleteOld ==
  /\ op.pc = "delete"
  /\ flash' = SetState(Target, op.del, "INVALID")
  /\ AfterItem

\* the very first item of a module is followed by its sector header
WriteFirstHdr ==
  /\ op.pc = "firsthdr"
  /\ Unchecked(IF flash[op.sect].flag = "IDLE"
                 THEN [flash EXCEPT ![op.sect].flag = "VALID", ![op.sect].seq = op.sect]
                 ELSE flash)
  /\ Return("NV_SUCC")

\* bug: the sequence number is not masked to two bits
BugSeqUnmasked ==
  /\ op.pc = "newhdr"
  /\ IF flash[Target].flag = "IDLE"
       THEN /\ flash' = [flash EXCEPT ![Target].flag = "VALID",
                                      ![Target].seq = op.seq + 1]
            /\ Goto("oldhdr")
       ELSE UNCHANGED flash /\ Return("NV_CHECK_SUM_ERROR")

WriteNewHdr ==
  /\ op.pc = "newhdr"
  /\ IF flash[Target].flag = "IDLE"
       THEN /\ flash' = [flash EXCEPT ![Target].flag = "VALID",
                                      ![Target].seq = (op.seq + 1) % 4]
            /\ Goto("oldhdr")
       ELSE UNCHANGED flash /\ Return("NV_CHECK_SUM_ERROR")

InvalidateOldHdr ==
  /\ op.pc = "oldhdr"
  /\ Unchecked(SetFlag(op.sect, "INVALID"))
  /\ Return("NV_SUCC")

-----------------------------------------------------------------------------
(* Removing an item: nv_flashSingleItemRemove *)

BeginRemove(i) ==
  /\ op.pc = "idle"
  /\ op' = [Idle EXCEPT !.pc = "remove", !.item = i]
  /\ UNCHANGED flash

Remove ==
  /\ op.pc = "remove"
  /\ \E q \in SectorRead :
       LET k == IndexRead(q % 2, op.item)
       IN IF k = 0
            THEN UNCHANGED flash /\ Return("NV_ITEM_NOT_FOUND")
            ELSE Unchecked(SetState(q % 2, k, "INVALID")) /\ Return("NV_SUCC")

-----------------------------------------------------------------------------
(* Faults *)

RefusedWrite ==
  \E p \in {"index", "payload", "itemhdr", "state", "delete", "newhdr"} : Refused(p)

Torn ==
  \/ /\ op.pc = "index"
     /\ Len(flash[Target].idx) = op.pos
     /\ flash' = [flash EXCEPT ![Target].idx = Append(@,
          [NewEntry(op.item) EXCEPT !.state = "TORN"])]
  \/ /\ op.pc = "itemhdr"
     /\ flash' = [flash EXCEPT ![Target].idx[op.pos].hdr = "TORN"]
  \/ /\ op.pc \in {"newhdr", "firsthdr"}
     /\ flash[Target].flag = "IDLE"
     /\ flash' = SetFlag(Target, "TORN")

Crash ==
  /\ op.pc # "idle"
  /\ CanFail("crash")
  /\ UNCHANGED flash \/ Torn
  /\ op' = Rest("reset")

-----------------------------------------------------------------------------

Step ==
  \/ SectorReadForWrite \/ Locate \/ Erase \/ Dedup \/ DedupDone
  \/ Copy \/ CopyDone \/ WriteIndex \/ WritePayload \/ WriteItemHdr
  \/ WriteState \/ DeleteOld \/ WriteFirstHdr \/ WriteNewHdr
  \/ InvalidateOldHdr \/ Remove \/ RefusedWrite

Next ==
  \/ \E i \in Item, v \in Value : BeginWrite(i, v)
  \/ \E i \in Removable : BeginRemove(i)
  \/ Step
  \/ Crash

Spec == Init /\ [][Next]_vars

\* the main loop keeps executing the request it is in
FairSpec == Spec /\ WF_vars(Step)

-----------------------------------------------------------------------------
(* Correctness *)

Result == {"NV_SUCC", "NV_ITEM_NOT_FOUND", "NV_ITEM_CHECK_ERROR",
           "NV_CHECK_SUM_ERROR", "NV_NOT_ENOUGH_SAPCE"}

Running == [pc : {"sector", "locate", "erase", "dedup", "copy", "index", "payload",
                  "itemhdr", "state", "delete", "firsthdr", "newhdr", "oldhdr", "remove"},
            item : Item, val : Value \cup {Absent},
            force : BOOLEAN, sect : Sect, seq : 0..3, upd : BOOLEAN,
            pos : Nat, scan : Nat, del : Nat, res : {"none"}]

Resting == {Rest(r) : r \in Result \cup {"none", "reset"}}

\* Headers, index entries and the request in progress are well formed.
TypeOK == flash \in [Sect -> Sector] /\ op \in Running \cup Resting

\* The low bit of a header's number is the sector that carries it, and from its
\* start to its end a write works on the sector in use: what it erases, fills
\* and gives a header to is the other one, and the old header goes last.
HeaderInv ==
  /\ \A s \in Sect : flash[s].flag = "VALID" => flash[s].seq % 2 = s
  /\ op.pc \notin {"idle", "sector", "remove"} =>
       /\ op.sect = op.seq % 2
       /\ op.pc \in {"erase", "dedup", "copy", "newhdr", "oldhdr"} => op.upd
       /\ op.pc = "firsthdr" => ~op.upd
       /\ op.pc # "oldhdr" =>
            (Formatted => flash[op.sect].flag = "VALID" /\ CurrentSeq = op.seq)
       /\ op.pc = "oldhdr" =>
            /\ flash[Other(op.sect)].flag = "VALID"
            /\ flash[Other(op.sect)].seq = (op.seq + 1) % 4
            /\ flash[op.sect].flag = "VALID" => flash[op.sect].seq = op.seq

\* What the callers rely on: the item store is a map from items to values in
\* which a request is atomic across power loss and refused flash operations,
\* whether it is written in place, retried or moved to the other sector.
Map == INSTANCE NvMap WITH
  store <- [i \in Item |-> View(i)],
  pend  <- IF op.pc = "idle" THEN [item |-> Absent, val |-> Absent]
           ELSE [item |-> op.item, val |-> op.val],
  res   <- op.res

MapSpec == Map!Spec

\* A module that has a sector with a valid header never loses it: the header of
\* the sector in use is invalidated, and the sector erased, only when the other
\* one has taken over, and it is taken over by the next number modulo 4.
SectorTakeover ==
  [][Formatted => /\ Formatted'
                  /\ CurrentSeq' \in {CurrentSeq, (CurrentSeq + 1) % 4}]_vars

LiveIn(s) == {i \in Item : IndexRead(s, i) > 0}

\* Space left by overwritten, removed and half-written items is reclaimed: a
\* write is refused only if the live items and the new one fill a fresh sector.
RefusalJustified ==
  [][op.pc = "copy" /\ op'.res = "NV_NOT_ENOUGH_SAPCE" =>
       LET others == LiveIn(CurrentSeq % 2) \ {op.item}
       IN \/ Cardinality(others) >= IdxNum
          \/ SumFunctionOnSet([i \in others |-> Aligned(ItemSize[i])], others)
               + ItemSize[op.item] > ContextSize]_vars

\* Without faults a sector is erased and refilled only when it is full, or in the
\* one retry that an index check error calls for: flash is not worn for nothing.
ChangedWhenFull ==
  [][op.pc = "locate" /\ op'.pc = "erase" /\ ~op.force =>
       LET n == Len(flash[op.sect].idx)
       IN n = IdxNum \/ NoRoom(op.sect, n, ItemSize[op.item])]_vars

\* Every request returns: the retry in a fresh sector is made at most once.
RequestReturns == (op.pc # "idle") ~> (op.pc = "idle")

\* A request that returned NV_SUCC is what any later read of the item yields.
SuccessIsDurable ==
  [][\A i \in Item, v \in Value \cup {Absent} :
       (op.item = i /\ op.val = v /\ op'.res = "NV_SUCC") =>
          \A q \in 0..3 : q \in SectorRead' => ReadFrom(q % 2, i)' = v]_vars
=============================================================================
