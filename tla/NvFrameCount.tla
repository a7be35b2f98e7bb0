---------------------------- MODULE NvFrameCount ----------------------------
(***************************************************************************)
(* The outgoing NWK frame counter in flash: the last part of               *)
(* proj/drivers/drv_nv.c.                                                  *)
(*                                                                         *)
(* The module NV_MODULE_NWK_FRAME_COUNT has two sectors.  A sector is a    *)
(* header and an array of counts, appended to at every save; the last one  *)
(* counts.  A full sector is left for the other one, which first gets the  *)
(* last count, then the new one, then its header.  At start-up the last    *)
(* count is compared with the one before it: a word that power loss left   *)
(* half-programmed shows as an implausible step, and the code then backs   *)
(* off to the previous count plus a margin, in the other sector.           *)
(*                                                                         *)
(* One action is at most one flash operation and the reads before it.      *)
(* Faults: "crash", "refuse" and "early" as in NvStore.  The counter in    *)
(* memory and its use belong to the stack library, of which only the       *)
(* calls it makes are known: it loads the counter once at start-up and     *)
(* saves it at least every MaxGap counts.                                  *)
(*                                                                         *)
(* Counts are in units of UPDATE_FRAMECOUNT_THRES.                         *)
(***************************************************************************)
EXTENDS Integers, Sequences, FiniteSets

CONSTANTS CntNum,    \* FRAMECOUNT_NUM_PER_SECT: counts in a sector
          Thres,     \* UPDATE_FRAMECOUNT_THRES
          MaxGap,    \* the most the counter advances between two saves
          TornMore,  \* how far above MaxCount a half-programmed word may read
          Off,       \* the counter has not been loaded
          NoSect,    \* the 0xff that nv_nwkFrameCountSaveToFlash puts in *errSect
          FaultSets, \* what may go wrong: subsets of {"crash", "refuse", "early"}
          MaxCount   \* bound on the counter for each of them

Sect == {0, 1}
Other(s) == 1 - s

FrameCountAssumption ==
  /\ CntNum \in Nat \ {0, 1}
  /\ Thres \in Nat \ {0} /\ MaxGap \in 1..(2 * Thres)
  /\ TornMore \in Nat
  /\ Off \notin Nat /\ NoSect \notin Sect
  /\ FaultSets \subseteq SUBSET {"crash", "refuse", "early"}
  /\ MaxCount \in [FaultSets -> Nat]

VARIABLES flash,  \* the two sectors
          ram,    \* the counter in memory
          op,     \* the save being executed
          floor,  \* history: the last count that was saved without an error
          faults  \* the member of FaultSets this behaviour is about

vars == <<flash, ram, op, floor, faults>>

Sector == [flag : {"IDLE", "VALID", "INVALID", "TORN"}, seq : 0..3, cnt : Seq(Nat)]

\* an erased header reads as number 3
BlankSector == [flag |-> "IDLE", seq |-> 3, cnt |-> <<>>]

Idle == [pc |-> "idle", cnt |-> 0, force |-> FALSE, err |-> NoSect, sect |-> 0,
         old |-> 0, seq |-> 0, upd |-> FALSE, last |-> 0]

Init ==
  /\ flash = [s \in Sect |-> BlankSector]
  /\ ram = Off
  /\ op = Idle
  /\ floor = 0
  /\ faults \in FaultSets

-----------------------------------------------------------------------------
(* Reading the flash *)

ValidSect == {s \in Sect : flash[s].flag = "VALID"}
Formatted == ValidSect # {}

NewerSeq(a, b) ==
  LET max == IF a >= b THEN a ELSE b
      min == IF a >= b THEN b ELSE a
  IN IF max - min = 1 THEN max ELSE min

CurrentSeq ==
  IF ValidSect = Sect THEN NewerSeq(flash[0].seq, flash[1].seq)
  ELSE IF 0 \in ValidSect THEN flash[0].seq
  ELSE flash[1].seq

\* the number in the header that nv_sector_read hands out, which is the header
\* of the sector that the current number belongs to; uninitialised when no
\* header is valid
SectorRead == IF Formatted THEN {flash[CurrentSeq % 2].seq} ELSE 0..3

Final(c) == c[Len(c)]

\* the last of three counts or more does not follow from the one before it
Implausible(c) ==
  /\ Len(c) > 2
  /\ \/ c[Len(c)] < c[Len(c) - 1]
     \/ c[Len(c)] - c[Len(c) - 1] > 2 * Thres

BackOff(c) == c[Len(c) - 1] + Thres

\* what nv_nwkFrameCountFromFlash yields from the counts c; 0 if there are none
Loaded(c) == IF c = <<>> THEN 0 ELSE IF Implausible(c) THEN BackOff(c) ELSE Final(c)

-----------------------------------------------------------------------------
(* The counter in memory *)

\* nv_nwkFrameCountFromFlash at start-up
Load ==
  /\ op.pc = "idle" /\ ram = Off
  /\ \E q \in SectorRead :
       LET c == flash[q % 2].cnt
       IN /\ ram' = Loaded(c)
          /\ op' = IF Implausible(c)
                     THEN [Idle EXCEPT !.pc = "sector", !.cnt = BackOff(c),
                                       !.force = TRUE, !.err = q % 2]
                     ELSE Idle
  /\ UNCHANGED <<flash, floor, faults>>

\* frames are sent
Count ==
  /\ op.pc = "idle" /\ ram # Off
  /\ ram < MaxCount[faults] /\ ram < floor + MaxGap
  /\ ram' = ram + 1
  /\ UNCHANGED <<flash, op, floor, faults>>

\* nv_nwkFrameCountSaveToFlash
Save ==
  /\ op.pc = "idle" /\ ram # Off
  /\ op' = [Idle EXCEPT !.pc = "sector", !.cnt = ram]
  /\ UNCHANGED <<flash, ram, floor, faults>>

-----------------------------------------------------------------------------
(* nv_nwkFrameCountSaveToFlashHandler *)

Goto(p) == op' = [op EXCEPT !.pc = p] /\ UNCHANGED floor

Done == op' = Idle /\ floor' = op.cnt

\* bug: the retry is retried
BugFail ==
  /\ op' = [Idle EXCEPT !.pc = "sector", !.cnt = op.cnt, !.force = TRUE]
  /\ UNCHANGED floor

\* NV_CHECK_SUM_ERROR: a save is retried once, by force
Fail ==
  /\ op' = IF op.force THEN Idle
           ELSE [Idle EXCEPT !.pc = "sector", !.cnt = op.cnt, !.force = TRUE]
  /\ UNCHANGED floor

CanFail(f) == f \in faults /\ (Formatted \/ "early" \in faults)

\* a flash operation whose outcome the code does not look at
Unchecked(f) == flash' = f \/ (CanFail("refuse") /\ flash' = flash)

SetFlag(s, fl) == [flash EXCEPT ![s].flag = fl]

\* bug: a forced change erases the very sector it is to replace
BugForcedTo == IF op.err = NoSect THEN 0 ELSE op.err

\* a forced change goes to the sector after *errSect; after 0xff that is 0
ForcedTo == IF op.err = NoSect THEN 0 ELSE Other(op.err)

\* nv_sector_read for writing also invalidates the older header
SectorReadForWrite ==
  /\ op.pc = "sector"
  /\ \E q \in SectorRead :
       op' = IF op.force
               THEN [op EXCEPT !.pc = "forced", !.sect = ForcedTo, !.seq = (q + 1) % 4]
               ELSE [op EXCEPT !.pc = "search", !.sect = q % 2, !.seq = q]
  /\ IF Formatted /\ flash[Other(CurrentSeq % 2)].flag = "VALID"
       THEN Unchecked(SetFlag(Other(CurrentSeq % 2), "INVALID"))
       ELSE UNCHANGED flash
  /\ UNCHANGED <<ram, floor, faults>>

EraseForced ==
  /\ op.pc = "forced"
  /\ Unchecked([flash EXCEPT ![op.sect] = BlankSector])
  /\ Goto("search")
  /\ UNCHANGED <<ram, faults>>

\* bug: a full sector is not noticed
BugSearch ==
  /\ op.pc = "search"
  /\ op' = [op EXCEPT !.pc = "count", !.old = op.sect]
  /\ UNCHANGED <<flash, ram, floor, faults>>

\* a full sector is left, the number goes up
Search ==
  /\ op.pc = "search"
  /\ LET c == flash[op.sect].cnt
     IN op' = IF Len(c) = CntNum
                THEN [op EXCEPT !.pc = "erase", !.upd = TRUE, !.last = Final(c),
                                !.old = op.sect, !.sect = Other(op.sect),
                                !.seq = (@ + 1) % 4]
                ELSE [op EXCEPT !.pc = "count", !.old = op.sect]
  /\ UNCHANGED <<flash, ram, floor, faults>>

Erase ==
  /\ op.pc = "erase"
  /\ Unchecked([flash EXCEPT ![op.sect] = BlankSector])
  /\ Goto("carry")
  /\ UNCHANGED <<ram, faults>>

\* the last count of the full sector becomes the first of the new one
Carry ==
  /\ op.pc = "carry"
  /\ IF flash[op.sect].cnt = <<>>
       THEN flash' = [flash EXCEPT ![op.sect].cnt = <<op.last>>] /\ Goto("count")
       ELSE UNCHANGED flash /\ Fail
  /\ UNCHANGED <<ram, faults>>

\* only a new sector, or the first count of a sector, needs a header
AfterCount == IF op.upd \/ flash[op.sect].cnt = <<>> THEN Goto("hdr") ELSE Done

WriteCount ==
  /\ op.pc = "count"
  /\ flash' = [flash EXCEPT ![op.sect].cnt = Append(@, op.cnt)]
  /\ AfterCount
  /\ UNCHANGED <<ram, faults>>

\* bug: the new header carries the number of the old one
BugWriteHdr ==
  /\ op.pc = "hdr"
  /\ IF flash[op.sect].flag = "IDLE"
       THEN /\ flash' = [flash EXCEPT ![op.sect].flag = "VALID",
                          ![op.sect].seq = IF op.upd THEN (op.seq + 3) % 4 ELSE op.seq]
            /\ IF op.upd \/ op.force THEN Goto("oldhdr") ELSE Done
       ELSE UNCHANGED flash /\ Fail
  /\ UNCHANGED <<ram, faults>>

WriteHdr ==
  /\ op.pc = "hdr"
  /\ IF flash[op.sect].flag = "IDLE"
       THEN /\ flash' = [flash EXCEPT ![op.sect].flag = "VALID", ![op.sect].seq = op.seq]
            /\ IF op.upd \/ op.force THEN Goto("oldhdr") ELSE Done
       ELSE UNCHANGED flash /\ Fail
  /\ UNCHANGED <<ram, faults>>

\* after a forced retry *errSect is 0xff, and the byte goes to an address
\* outside the module
InvalidateOldHdr ==
  /\ op.pc = "oldhdr"
  /\ flash' = IF ~op.force THEN SetFlag(op.old, "INVALID")
              ELSE IF op.err # NoSect THEN SetFlag(op.err, "INVALID")
              ELSE flash
  /\ Done
  /\ UNCHANGED <<ram, faults>>

-----------------------------------------------------------------------------
(* Faults *)

\* a checked program that does not take
RefusedWrite ==
  /\ CanFail("refuse")
  /\ op.pc \in {"carry", "count", "hdr", "oldhdr"}
  /\ Fail
  /\ UNCHANGED <<flash, ram, faults>>

MaxTorn == MaxCount[faults] + TornMore

\* a word is programmed from ones to zeros: half-way it reads as a larger one
Torn ==
  \/ /\ op.pc = "carry" /\ flash[op.sect].cnt = <<>>
     /\ \E t \in (op.last + 1)..MaxTorn : flash' = [flash EXCEPT ![op.sect].cnt = <<t>>]
  \/ /\ op.pc = "count"
     /\ \E t \in (op.cnt + 1)..MaxTorn :
          flash' = [flash EXCEPT ![op.sect].cnt = Append(@, t)]
  \/ /\ op.pc = "hdr" /\ flash[op.sect].flag = "IDLE"
     /\ flash' = SetFlag(op.sect, "TORN")

\* power loss, at any time
Crash ==
  /\ ram # Off
  /\ CanFail("crash")
  /\ UNCHANGED flash \/ Torn
  /\ op' = Idle
  /\ ram' = Off
  /\ UNCHANGED <<floor, faults>>

-----------------------------------------------------------------------------
Step ==
  \/ SectorReadForWrite \/ EraseForced \/ Search \/ Erase \/ Carry
  \/ WriteCount \/ WriteHdr \/ InvalidateOldHdr \/ RefusedWrite

Next == Load \/ Count \/ Save \/ Step \/ Crash

Spec == Init /\ [][Next]_vars

\* the main loop runs a save to its end
FairSpec == Spec /\ WF_vars(Step)
-----------------------------------------------------------------------------
(* Correctness *)

Pc == {"idle", "sector", "forced", "search", "erase", "carry", "count", "hdr", "oldhdr"}

\* Headers, counts and the save in progress are well formed.
TypeOK ==
  /\ flash \in [Sect -> Sector]
  /\ \A s \in Sect : Len(flash[s].cnt) <= CntNum
  /\ ram \in Nat \cup {Off}
  /\ op \in [pc : Pc, cnt : Nat, force : BOOLEAN, err : Sect \cup {NoSect}, sect : Sect,
             old : Sect, seq : 0..3, upd : BOOLEAN, last : Nat]
  /\ floor \in Nat

\* a restart would load a count that is not below any saved before it
Kept == \A q \in SectorRead : Loaded(flash[q % 2].cnt) >= floor

\* At every moment, a restart would load a count that is not below any count
\* that was saved without an error before it: the counter outlives power loss
\* between any two flash operations, half-programmed words and sector changes.
CountKept == "refuse" \notin faults => Kept

\* The same where flash operations are refused, at least when no save is going
\* on: the forced retry of a failed save keeps what was saved before it.
RetryKeepsCount == op.pc = "idle" => Kept

TakesOver ==
  Formatted /\ "refuse" \notin faults =>
    Formatted' /\ CurrentSeq' \in {CurrentSeq, (CurrentSeq + 1) % 4}

\* Once there is a sector with a valid header there always is one, and the
\* numbers follow each other modulo 4, as long as no operation is refused.
SectorTakeover == [][TakesOver]_vars

\* Every save returns: a failed one is retried once and no more.
SaveReturns == (op.pc # "idle") ~> (op.pc = "idle")

=============================================================================
