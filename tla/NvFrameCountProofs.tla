------------------------- MODULE NvFrameCountProofs -------------------------
(***************************************************************************)
(* Proofs about NvFrameCount, for any number of counts in a sector, any    *)
(* threshold and any bounds on the counter.                                *)
(*                                                                         *)
(* The inductive invariant says what the flash holds at each step of a     *)
(* save.  Between saves the counter in memory follows the last count that  *)
(* is in use, at most two thresholds ahead.  A save goes on in the sector  *)
(* in use while it has room.  Else it leaves for the other sector, into    *)
(* which the last count is carried before the new one is written, and the  *)
(* header, which makes the sector the one in use, comes last.  A count     *)
(* that a power loss left with bits still set is implausible: it is backed *)
(* off when it is loaded, and the save that replaces it goes to the other  *)
(* sector too.                                                             *)
(*                                                                         *)
(* The invariant, and with it CountSurvives and CountTakesOver, needs that *)
(* no flash operation is refused: the retry of a refused one erases sector *)
(* 0 whichever sector is in use, and the counter is lost (RetryKeepsCount, *)
(* which a run refutes).  It also needs that power is lost only once there *)
(* is a header: before that nv_sector_read returns what is not             *)
(* initialised.  The types need neither.                                   *)
(***************************************************************************)
EXTENDS NvFrameCount, SequenceTheorems, TLAPS

-----------------------------------------------------------------------------
(* The frame counter *)

\* the sector in use
UsedSect == CurrentSeq % 2

\* its counts
Counts == flash[UsedSect].cnt

\* the other sector
Spare == flash[Other(UsedSect)]

\* no operation is refused, and power is lost only after the first header
Calm == "refuse" \notin faults /\ "early" \notin faults

\* the parity of a number names its sector, and a header comes after a count
CountHeaders ==
  \A s \in Sect : flash[s].flag = "VALID" => flash[s].seq % 2 = s /\ flash[s].cnt # <<>>

\* before the first header there is at most the count of the save that writes it
CountFresh ==
  ~Formatted =>
    /\ \A s \in Sect : flash[s].flag = "IDLE"
    /\ floor = 0 /\ ~op.force /\ ~op.upd
    /\ op.pc \in {"idle", "sector", "search", "count", "hdr"}
    /\ op.pc # "hdr" => \A s \in Sect : flash[s].cnt = <<>>
    /\ op.pc = "hdr" => flash[op.sect].cnt = <<op.cnt>>
    /\ op.pc \in {"search", "count", "hdr"} => op.seq % 2 = op.sect
    /\ ram # Off => ram <= MaxGap

\* the last count is plausible, and so is the counter as the next
Follows ==
  /\ ~Implausible(Counts)
  /\ Final(Counts) <= ram /\ ram <= Final(Counts) + 2 * Thres

\* a save is of what is in memory
SaveHolds == op.pc # "idle" => ram # Off /\ op.cnt = ram

\* between saves the counter follows what is written
AtRest == op.pc = "idle" /\ ram # Off => Follows

\* steps at which a save has left the full sector
Leaving == op.pc \in {"erase", "carry", "hdr"} \/ (op.pc = "count" /\ op.upd)

\* a save goes on in the sector in use, or moves to the other when it is full
PlainSave ==
  op.pc # "idle" /\ ~op.force =>
    /\ op.pc # "oldhdr" => Follows
    /\ op.pc # "forced"
    /\ op.pc \in {"search", "erase", "carry", "count", "hdr"} => ValidSect = {UsedSect}
    /\ op.pc \in {"sector", "search"} => ~op.upd
    /\ op.pc = "search" => op.sect = UsedSect /\ op.seq = CurrentSeq
    /\ op.pc = "count" /\ ~op.upd => op.sect = UsedSect
    /\ Leaving =>
         /\ op.upd /\ op.sect = Other(UsedSect) /\ op.old = UsedSect
         /\ op.seq = (CurrentSeq + 1) % 4 /\ op.last = Final(Counts)
         /\ op.pc # "erase" => Spare.flag = "IDLE"
         /\ op.pc = "carry" => Spare.cnt = <<>>
         /\ op.pc = "count" => Spare.cnt = <<op.last>>
         /\ op.pc = "hdr" => Spare.cnt = <<op.last, op.cnt>>
    /\ op.pc = "oldhdr" => op.old = Other(UsedSect) /\ Len(Counts) = 2 /\ Final(Counts) = op.cnt

\* the save that replaces an implausible count goes to the other sector
ForcedSave ==
  op.pc # "idle" /\ op.force =>
    /\ ~op.upd
    /\ op.pc \in {"sector", "forced", "search", "count", "hdr", "oldhdr"}
    /\ op.pc # "oldhdr" => Implausible(Counts) /\ op.cnt = BackOff(Counts) /\ op.err = UsedSect
    /\ op.pc \in {"forced", "search", "count", "hdr"} =>
         ValidSect = {UsedSect} /\ op.sect = Other(UsedSect) /\ op.seq = (CurrentSeq + 1) % 4
    /\ op.pc \in {"search", "count", "hdr"} => Spare.flag = "IDLE"
    /\ op.pc \in {"search", "count"} => Spare.cnt = <<>>
    /\ op.pc = "hdr" => Spare.cnt = <<op.cnt>>
    /\ op.pc = "oldhdr" => op.err = Other(UsedSect) /\ Len(Counts) = 1 /\ Final(Counts) = op.cnt

\* what holds once there is a header
SaveOK == AtRest /\ PlainSave /\ ForcedSave

\* the invariant of a store from which nothing is lost
CountInv == CountHeaders /\ CountFresh /\ SaveHolds /\ Kept /\ (Formatted => SaveOK)

\* a count is written where there is room for it, also when operations are refused
RoomLeft == op.pc = "count" => Len(flash[op.sect].cnt) < CntNum

\* what holds whatever fails
CountTyped == FrameCountAssumption /\ faults \in FaultSets /\ TypeOK /\ RoomLeft

-----------------------------------------------------------------------------
\* the variables of a save
OpType == [pc : Pc, cnt : Nat, force : BOOLEAN, err : Sect \cup {NoSect}, sect : Sect,
           old : Sect, seq : 0..3, upd : BOOLEAN, last : Nat]

\* What the steps of a save do to its variables keeps their types.
LEMMA SaveFields ==
  ASSUME NEW o \in OpType
  PROVE  /\ \A p \in Pc : [o EXCEPT !.pc = p] \in OpType
         /\ \A p \in Pc, s \in Sect, q \in 0..3 :
              [o EXCEPT !.pc = p, !.sect = s, !.seq = q] \in OpType
         /\ \A p \in Pc, s \in Sect : [o EXCEPT !.pc = p, !.old = s] \in OpType
         /\ \A p \in Pc, s, t \in Sect, q \in 0..3, n \in Nat :
              [o EXCEPT !.pc = p, !.upd = TRUE, !.last = n, !.old = s, !.sect = t, !.seq = q]
                \in OpType
         /\ \A p \in Pc, n \in Nat : [o EXCEPT !.pc = p, !.cnt = n] \in OpType
         /\ \A p \in Pc, n \in Nat : [o EXCEPT !.pc = p, !.cnt = n, !.force = TRUE] \in OpType
         /\ \A p \in Pc, n \in Nat, s \in Sect :
              [o EXCEPT !.pc = p, !.cnt = n, !.force = TRUE, !.err = s] \in OpType
BY DEF OpType

\* The idle save is well formed, and the constants are what they must be.
LEMMA SaveBegins ==
  ASSUME FrameCountAssumption
  PROVE  Idle \in OpType /\ Off \notin Nat /\ Thres \in Nat \ {0} /\ MaxGap \in Nat
         /\ MaxGap <= 2 * Thres /\ CntNum \in Nat /\ CntNum > 1 /\ NoSect \notin Sect
         /\ \A f \in FaultSets : MaxCount[f] + TornMore \in Nat
BY DEF FrameCountAssumption, Idle, OpType, Sect, Pc

\* The counts of a sector.
LEMMA CountSeq ==
  ASSUME FrameCountAssumption, NEW c \in Seq(Nat)
  PROVE  /\ Len(c) \in Nat
         /\ Loaded(c) \in Nat
         /\ c # <<>> => Len(c) >= 1 /\ Final(c) \in Nat
         /\ c = <<>> => Len(c) = 0 /\ ~Implausible(c)
         /\ Implausible(c) => c # <<>> /\ BackOff(c) \in Nat
         /\ \A n \in Nat : /\ Append(c, n) \in Seq(Nat) /\ Len(Append(c, n)) = Len(c) + 1
                           /\ Append(c, n) # <<>> /\ Final(Append(c, n)) = n
                           /\ Append(c, n)[Len(c) + 1] = n
                           /\ Len(c) > 0 => Append(c, n)[Len(c)] = Final(c)
<1>1. Len(c) \in Nat /\ \A k \in 1..Len(c) : c[k] \in Nat
  BY LenProperties, ElementOfSeq
<1>2. c = <<>> <=> Len(c) = 0
  BY EmptySeq
<1>3. \A n \in Nat : /\ Append(c, n) \in Seq(Nat) /\ Len(Append(c, n)) = Len(c) + 1
                     /\ \A k \in 1..Len(c) : Append(c, n)[k] = c[k]
                     /\ Append(c, n)[Len(c) + 1] = n
  BY AppendProperties
<1>4. c # <<>> => Len(c) >= 1 /\ Final(c) \in Nat
  BY <1>1, <1>2 DEF Final
<1>5. Len(c) > 2 => Len(c) - 1 \in 1..Len(c) /\ c[Len(c) - 1] \in Nat
  BY <1>1
<1>6. Implausible(c) => c # <<>> /\ BackOff(c) \in Nat
  BY <1>1, <1>2, <1>5, SaveBegins DEF Implausible, BackOff
<1>7. Loaded(c) \in Nat
  BY <1>4, <1>6 DEF Loaded
<1>8. \A n \in Nat : /\ Append(c, n) # <<>> /\ Final(Append(c, n)) = n
                     /\ Len(c) > 0 => Append(c, n)[Len(c)] = Final(c)
  BY <1>1, <1>3, EmptySeq DEF Final
<1>9. c = <<>> => Len(c) = 0 /\ ~Implausible(c)
  BY <1>2 DEF Implausible
<1> QED BY <1>1, <1>3, <1>4, <1>6, <1>7, <1>8, <1>9

\* Changes of one sector of the flash.
LEMMA SectorChanges ==
  ASSUME flash \in [Sect -> Sector], NEW s \in Sect
  PROVE  /\ BlankSector \in Sector
         /\ [flash EXCEPT ![s] = BlankSector] \in [Sect -> Sector]
         /\ \A c \in Seq(Nat) : [flash EXCEPT ![s].cnt = c] \in [Sect -> Sector]
         /\ \A fl \in {"IDLE", "VALID", "INVALID", "TORN"} : SetFlag(s, fl) \in [Sect -> Sector]
         /\ \A q \in 0..3 : [flash EXCEPT ![s].flag = "VALID", ![s].seq = q] \in [Sect -> Sector]
         /\ flash[s] \in Sector /\ flash[s].cnt \in Seq(Nat) /\ flash[s].seq \in 0..3
         /\ Other(s) \in Sect /\ Other(s) # s /\ Other(Other(s)) = s
         /\ \A t \in Sect : t = s \/ t = Other(s)
<1>1. BlankSector \in Sector
  BY EmptySeq DEF BlankSector, Sector
<1>2. flash[s] \in Sector
  OBVIOUS
<1>3. \A x \in Sector : [flash EXCEPT ![s] = x] \in [Sect -> Sector]
  OBVIOUS
<1>4. \A x \in Sector : /\ x.cnt \in Seq(Nat) /\ x.seq \in 0..3
                        /\ \A c \in Seq(Nat) : [x EXCEPT !.cnt = c] \in Sector
                        /\ \A fl \in {"IDLE", "VALID", "INVALID", "TORN"} :
                             [x EXCEPT !.flag = fl] \in Sector
                        /\ \A q \in 0..3 : [x EXCEPT !.flag = "VALID", !.seq = q] \in Sector
  BY DEF Sector
<1>5. \A c \in Seq(Nat) : [flash EXCEPT ![s].cnt = c] \in [Sect -> Sector]
  BY <1>2, <1>3, <1>4
<1>6. \A fl \in {"IDLE", "VALID", "INVALID", "TORN"} : SetFlag(s, fl) \in [Sect -> Sector]
  BY <1>2, <1>3, <1>4 DEF SetFlag
<1>7. \A q \in 0..3 : [flash EXCEPT ![s].flag = "VALID", ![s].seq = q] \in [Sect -> Sector]
  BY <1>2, <1>3, <1>4
<1>8. Other(s) \in Sect /\ Other(s) # s /\ Other(Other(s)) = s /\ \A t \in Sect : t = s \/ t = Other(s)
  BY DEF Other, Sect
<1> QED BY <1>1, <1>2, <1>3, <1>4, <1>5, <1>6, <1>7, <1>8

\* What they leave in the sectors.
LEMMA SectorEffects ==
  ASSUME flash \in [Sect -> Sector], NEW s \in Sect
  PROVE  /\ flash' = [flash EXCEPT ![s] = BlankSector] =>
              /\ flash'[s].flag = "IDLE" /\ flash'[s].cnt = <<>> /\ flash'[s].seq = 3
              /\ flash'[Other(s)] = flash[Other(s)]
         /\ \A c : flash' = [flash EXCEPT ![s].cnt = c] =>
              /\ flash'[s].flag = flash[s].flag /\ flash'[s].cnt = c
              /\ flash'[s].seq = flash[s].seq /\ flash'[Other(s)] = flash[Other(s)]
         /\ \A fl : flash' = SetFlag(s, fl) =>
              /\ flash'[s].flag = fl /\ flash'[s].cnt = flash[s].cnt
              /\ flash'[s].seq = flash[s].seq /\ flash'[Other(s)] = flash[Other(s)]
         /\ \A q : flash' = [flash EXCEPT ![s].flag = "VALID", ![s].seq = q] =>
              /\ flash'[s].flag = "VALID" /\ flash'[s].cnt = flash[s].cnt
              /\ flash'[s].seq = q /\ flash'[Other(s)] = flash[Other(s)]
BY DEF Sector, BlankSector, SetFlag, Sect, Other

\* The current number is one of 0..3, and so is what nv_sector_read hands out.
LEMMA NumberType ==
  TypeOK => CurrentSeq \in 0..3 /\ SectorRead \subseteq 0..3 /\ \A q \in 0..3 : q % 2 \in Sect
<1> SUFFICES ASSUME TypeOK PROVE CurrentSeq \in 0..3 /\ SectorRead \subseteq 0..3
                                 /\ \A q \in 0..3 : q % 2 \in Sect
  OBVIOUS
<1>1. \A s \in Sect : flash[s].seq \in 0..3
  BY DEF TypeOK, Sector
<1>2. \A a, b \in 0..3 : NewerSeq(a, b) \in {a, b}
  BY DEF NewerSeq
<1>3. CurrentSeq \in 0..3
  BY <1>1, <1>2 DEF CurrentSeq, Sect
<1>4. \A q \in 0..3 : q % 2 \in Sect
  BY DEF Sect
<1> QED BY <1>1, <1>3, <1>4 DEF SectorRead

\* The types of the single variables of a save.
LEMMA TypedParts ==
  ASSUME TypeOK
  PROVE  op \in OpType /\ op.pc \in Pc /\ op.cnt \in Nat /\ op.sect \in Sect /\ op.old \in Sect
         /\ op.seq \in 0..3 /\ op.last \in Nat /\ op.err \in Sect \cup {NoSect}
BY DEF TypeOK, OpType

\* Every step keeps the types, whatever is refused, and the room for a count.
LEMMA CountTypeStep ==
  ASSUME CountTyped, Next
  PROVE  TypeOK' /\ RoomLeft' /\ faults' = faults
<1>1. /\ flash \in [Sect -> Sector] /\ \A s \in Sect : Len(flash[s].cnt) <= CntNum
      /\ ram \in Nat \cup {Off} /\ floor \in Nat /\ FrameCountAssumption /\ faults \in FaultSets
      /\ RoomLeft /\ TypeOK
  BY DEF CountTyped, TypeOK
<1>2. /\ op \in OpType /\ op.pc \in Pc /\ op.cnt \in Nat /\ op.sect \in Sect /\ op.old \in Sect
      /\ op.seq \in 0..3 /\ op.last \in Nat /\ op.err \in Sect \cup {NoSect}
  BY <1>1, TypedParts
<1>3. /\ Idle \in OpType /\ Idle.pc = "idle" /\ op.force \in BOOLEAN /\ op.upd \in BOOLEAN
  BY <1>1, <1>2, SaveBegins DEF Idle, OpType
<1>4. /\ CntNum \in Nat /\ CntNum > 1 /\ MaxCount[faults] + TornMore \in Nat /\ Off \notin Nat
  BY <1>1, SaveBegins
<1>5. {"idle", "sector", "forced", "search", "erase", "carry", "count", "hdr", "oldhdr"} = Pc
  BY DEF Pc
<1>6. \A s \in Sect : flash[s].cnt \in Seq(Nat) /\ Len(flash[s].cnt) \in Nat /\ Other(s) \in Sect
  BY <1>1, SectorChanges, CountSeq
<1>7. SectorRead \subseteq 0..3 /\ \A q \in SectorRead : q % 2 \in Sect
  BY <1>1, NumberType
<1> DEFINE FlashOK == flash' \in [Sect -> Sector] /\ \A s \in Sect : Len(flash'[s].cnt) <= CntNum
           Before == op' \in OpType /\ op'.pc # "count"
<1>t. ASSUME FlashOK, op' \in OpType, ram' \in Nat \cup {Off}, floor' \in Nat, faults' = faults,
             op'.pc = "count" => Len(flash'[op'.sect].cnt) < CntNum
      PROVE  TypeOK' /\ RoomLeft' /\ faults' = faults
  BY <1>t DEF TypeOK, OpType, RoomLeft
<1>u. UNCHANGED flash => FlashOK
  BY <1>1
<1>e. \A s \in Sect : flash' = [flash EXCEPT ![s] = BlankSector] => FlashOK
  <2> SUFFICES ASSUME NEW s \in Sect, flash' = [flash EXCEPT ![s] = BlankSector] PROVE FlashOK
    OBVIOUS
  <2>1. flash' \in [Sect -> Sector]
    BY <1>1, SectorChanges
  <2>2. flash'[s].cnt = <<>> /\ flash'[Other(s)] = flash[Other(s)]
    BY <1>1, SectorEffects
  <2>3. Len(<<>>) = 0
    BY EmptySeq
  <2>4. \A t \in Sect : t = s \/ t = Other(s)
    BY <1>1, SectorChanges
  <2> QED BY <1>1, <1>4, <2>1, <2>2, <2>3, <2>4
<1>c. \A s \in Sect, c \in Seq(Nat) :
        flash' = [flash EXCEPT ![s].cnt = c] /\ Len(c) <= CntNum => FlashOK /\ flash'[s].cnt = c
  <2> SUFFICES ASSUME NEW s \in Sect, NEW c \in Seq(Nat),
                      flash' = [flash EXCEPT ![s].cnt = c], Len(c) <= CntNum
               PROVE FlashOK /\ flash'[s].cnt = c
    OBVIOUS
  <2>1. flash' \in [Sect -> Sector]
    BY <1>1, SectorChanges
  <2>2. flash'[s].cnt = c /\ flash'[Other(s)] = flash[Other(s)]
    BY <1>1, SectorEffects
  <2>4. \A t \in Sect : t = s \/ t = Other(s)
    BY <1>1, SectorChanges
  <2> QED BY <1>1, <2>1, <2>2, <2>4
<1>g. \A s \in Sect, fl \in {"IDLE", "VALID", "INVALID", "TORN"} : flash' = SetFlag(s, fl) => FlashOK
  <2> SUFFICES ASSUME NEW s \in Sect, NEW fl \in {"IDLE", "VALID", "INVALID", "TORN"},
                      flash' = SetFlag(s, fl)
               PROVE FlashOK
    OBVIOUS
  <2>1. flash' \in [Sect -> Sector]
    BY <1>1, SectorChanges
  <2>2. flash'[s].cnt = flash[s].cnt /\ flash'[Other(s)] = flash[Other(s)]
    BY <1>1, SectorEffects
  <2>4. \A t \in Sect : t = s \/ t = Other(s)
    BY <1>1, SectorChanges
  <2> QED BY <1>1, <2>1, <2>2, <2>4
<1>h. \A s \in Sect, q \in 0..3 :
        flash' = [flash EXCEPT ![s].flag = "VALID", ![s].seq = q] => FlashOK
  <2> SUFFICES ASSUME NEW s \in Sect, NEW q \in 0..3,
                      flash' = [flash EXCEPT ![s].flag = "VALID", ![s].seq = q]
               PROVE FlashOK
    OBVIOUS
  <2>1. flash' \in [Sect -> Sector]
    BY <1>1, SectorChanges
  <2>2. flash'[s].cnt = flash[s].cnt /\ flash'[Other(s)] = flash[Other(s)]
    BY <1>1, SectorEffects
  <2>4. \A t \in Sect : t = s \/ t = Other(s)
    BY <1>1, SectorChanges
  <2> QED BY <1>1, <2>1, <2>2, <2>4
<1> HIDE DEF FlashOK
<1>i. op' = Idle => Before
  BY <1>3
<1>j. \A p \in Pc \ {"count"} : Goto(p) => Before /\ floor' \in Nat
  <2> SUFFICES ASSUME NEW p \in Pc \ {"count"}, Goto(p) PROVE Before /\ floor' \in Nat
    OBVIOUS
  <2>1. op' = [op EXCEPT !.pc = p] /\ floor' = floor
    BY DEF Goto
  <2>2. op' \in OpType
    BY <1>2, <2>1, SaveFields
  <2> QED BY <1>1, <1>2, <2>1, <2>2 DEF OpType
<1>k. Done => Before /\ floor' \in Nat
  BY <1>2, <1>i DEF Done
<1>l. Fail => Before /\ floor' \in Nat
  <2> SUFFICES ASSUME Fail PROVE Before /\ floor' \in Nat
    OBVIOUS
  <2>1. \A n \in Nat : [Idle EXCEPT !.pc = "sector", !.cnt = n, !.force = TRUE] \in OpType
    BY <1>3, <1>5, SaveFields
  <2>2. op' \in OpType
    BY <1>2, <1>3, <2>1 DEF Fail
  <2>3. op'.pc # "count"
    BY <1>3 DEF Fail, Idle
  <2> QED BY <1>1, <2>2, <2>3 DEF Fail
<1>m. ASSUME FlashOK, Before, floor' \in Nat, ram' \in Nat \cup {Off}, faults' = faults
      PROVE  TypeOK' /\ RoomLeft' /\ faults' = faults
  BY <1>m, <1>t
<1>n. ASSUME FlashOK, Before, floor' \in Nat, UNCHANGED <<ram, faults>>
      PROVE  TypeOK' /\ RoomLeft' /\ faults' = faults
  BY <1>1, <1>n, <1>m
<1>7a. CASE Load
  <2>1. PICK q \in SectorRead :
          LET c == flash[q % 2].cnt
          IN /\ ram' = Loaded(c)
             /\ op' = IF Implausible(c)
                        THEN [Idle EXCEPT !.pc = "sector", !.cnt = BackOff(c),
                                          !.force = TRUE, !.err = q % 2]
                        ELSE Idle
    BY <1>7a DEF Load
  <2> DEFINE c == flash[q % 2].cnt
  <2>2. q % 2 \in Sect /\ c \in Seq(Nat)
    BY <1>6, <1>7
  <2>3. ram' \in Nat /\ (Implausible(c) => BackOff(c) \in Nat)
    BY <1>1, <2>1, <2>2, CountSeq
  <2>4. op' \in OpType
    BY <1>3, <1>5, <2>1, <2>2, <2>3, SaveFields
  <2>5. op'.pc # "count"
    BY <1>3, <2>1 DEF Idle
  <2>6. flash' = flash /\ floor' = floor /\ faults' = faults
    BY <1>7a DEF Load
  <2> QED BY <1>1, <2>3, <2>4, <2>5, <2>6, <1>u, <1>m
<1>8. CASE Count
  <2>1. ram \in Nat /\ op.pc = "idle"
    BY <1>1, <1>8 DEF Count
  <2> QED BY <1>1, <1>2, <1>8, <2>1, <1>u, <1>m DEF Count
<1>9. CASE Save
  <2>1. ram \in Nat
    BY <1>1, <1>9 DEF Save
  <2>2. op' \in OpType
    BY <1>3, <1>5, <1>9, <2>1, SaveFields DEF Save
  <2>3. op'.pc # "count"
    BY <1>9 DEF Save, Idle
  <2> QED BY <1>1, <1>9, <2>2, <2>3, <1>u, <1>n DEF Save
<1>10. CASE SectorReadForWrite
  <2>1. PICK q \in SectorRead :
       op' = IF op.force
               THEN [op EXCEPT !.pc = "forced", !.sect = ForcedTo, !.seq = (q + 1) % 4]
               ELSE [op EXCEPT !.pc = "search", !.sect = q % 2, !.seq = q]
    BY <1>10 DEF SectorReadForWrite
  <2>2. q \in 0..3 /\ q % 2 \in Sect /\ (q + 1) % 4 \in 0..3
    BY <1>7
  <2>3. ForcedTo \in Sect
    BY <1>2, <1>6 DEF ForcedTo, Sect
  <2>4. op' \in OpType
    BY <1>2, <1>5, <2>1, <2>2, <2>3, SaveFields
  <2>5. op'.pc # "count"
    BY <1>2, <2>1 DEF OpType
  <2>6. FlashOK
    <3>1. CurrentSeq \in 0..3 /\ CurrentSeq % 2 \in Sect
      BY <1>1, NumberType
    <3>2. Other(CurrentSeq % 2) \in Sect
      BY <1>6, <3>1
    <3>3. flash' = SetFlag(Other(CurrentSeq % 2), "INVALID") \/ flash' = flash
      BY <1>10 DEF SectorReadForWrite, Unchecked
    <3> QED BY <1>u, <1>g, <3>2, <3>3
  <2>7. floor' = floor /\ UNCHANGED <<ram, faults>>
    BY <1>10 DEF SectorReadForWrite
  <2> QED BY <1>1, <2>4, <2>5, <2>6, <2>7, <1>n
<1>11. CASE EraseForced
  <2>1. FlashOK
    BY <1>2, <1>11, <1>u, <1>e DEF EraseForced, Unchecked
  <2> QED BY <1>5, <1>11, <2>1, <1>j, <1>n DEF EraseForced
<1>12. CASE Search
  <2> DEFINE c == flash[op.sect].cnt
  <2>1. c \in Seq(Nat) /\ Len(c) \in Nat /\ Len(c) <= CntNum
    BY <1>1, <1>2, <1>6
  <2>2. flash' = flash /\ floor' = floor /\ UNCHANGED <<ram, faults>>
    BY <1>12 DEF Search
  <2>3. CASE Len(c) = CntNum
    <3>1. op' = [op EXCEPT !.pc = "erase", !.upd = TRUE, !.last = Final(c), !.old = op.sect,
                           !.sect = Other(op.sect), !.seq = (op.seq + 1) % 4]
      BY <1>2, <1>12, <2>3 DEF Search, OpType
    <3>2. Final(c) \in Nat /\ (op.seq + 1) % 4 \in 0..3 /\ Other(op.sect) \in Sect
      <4>1. c # <<>>
        BY <1>4, <2>3, EmptySeq
      <4> QED BY <1>1, <1>2, <1>6, <2>1, <4>1, CountSeq
    <3>3. op' \in OpType
      BY <1>2, <1>5, <3>1, <3>2, SaveFields
    <3>4. op'.pc # "count"
      BY <1>2, <3>1 DEF OpType
    <3> QED BY <1>1, <2>2, <3>3, <3>4, <1>u, <1>n
  <2>4. CASE Len(c) # CntNum
    <3>1. op' = [op EXCEPT !.pc = "count", !.old = op.sect]
      BY <1>12, <2>4 DEF Search
    <3>2. op' \in OpType
      BY <1>2, <1>5, <3>1, SaveFields
    <3>3. op'.sect = op.sect
      BY <1>2, <3>1 DEF OpType
    <3> QED BY <1>1, <1>4, <2>1, <2>2, <2>4, <3>2, <3>3, <1>u, <1>t
  <2> QED BY <2>3, <2>4
<1>13. CASE Erase
  <2>1. FlashOK
    BY <1>2, <1>13, <1>u, <1>e DEF Erase, Unchecked
  <2> QED BY <1>5, <1>13, <2>1, <1>j, <1>n DEF Erase
<1>14. CASE Carry
  <2>1. CASE flash[op.sect].cnt = <<>>
    <3>1. flash' = [flash EXCEPT ![op.sect].cnt = <<op.last>>] /\ Goto("count")
      BY <1>14, <2>1 DEF Carry
    <3>2. <<op.last>> \in Seq(Nat) /\ Len(<<op.last>>) = 1 /\ Len(<<op.last>>) <= CntNum
      BY <1>2, <1>4
    <3>3. FlashOK /\ flash'[op.sect].cnt = <<op.last>>
      <4>1. op.sect \in Sect
        BY <1>2
      <4> QED BY <4>1, <1>c, <3>1, <3>2
    <3>4. op' \in OpType /\ op'.sect = op.sect /\ floor' = floor
      <4>1. op' = [op EXCEPT !.pc = "count"] /\ floor' = floor
        BY <3>1 DEF Goto
      <4>2. op' \in OpType
        BY <1>2, <1>5, <4>1, SaveFields
      <4> QED BY <1>2, <4>1, <4>2 DEF OpType
    <3>5. UNCHANGED <<ram, faults>>
      BY <1>14 DEF Carry
    <3> QED BY <1>1, <1>4, <3>2, <3>3, <3>4, <3>5, <1>t
  <2>2. CASE flash[op.sect].cnt # <<>>
    BY <1>14, <2>2, <1>u, <1>l, <1>n DEF Carry
  <2> QED BY <2>1, <2>2
<1>15. CASE WriteCount
  <2> DEFINE c == flash[op.sect].cnt
  <2>1. flash' = [flash EXCEPT ![op.sect].cnt = Append(c, op.cnt)]
    BY <1>1, <1>2, <1>15 DEF WriteCount, Sector
  <2>2. Append(c, op.cnt) \in Seq(Nat) /\ Len(Append(c, op.cnt)) = Len(c) + 1
    BY <1>1, <1>2, <1>6, CountSeq
  <2>3. Len(c) < CntNum /\ Len(c) \in Nat
    BY <1>1, <1>2, <1>6, <1>15 DEF WriteCount, RoomLeft
  <2>4. FlashOK
    <3>1. Len(Append(c, op.cnt)) <= CntNum
      BY <1>4, <2>2, <2>3
    <3>2. op.sect \in Sect
      BY <1>2
    <3> HIDE DEF c
    <3> QED BY <1>c, <2>1, <2>2, <3>1, <3>2
  <2>5. AfterCount
    BY <1>15 DEF WriteCount
  <2>6. Before /\ floor' \in Nat
    BY <1>5, <2>5, <1>j, <1>k DEF AfterCount
  <2> QED BY <1>15, <2>4, <2>6, <1>n DEF WriteCount
<1>16. CASE WriteHdr
  <2>1. FlashOK
    BY <1>2, <1>16, <1>u, <1>h DEF WriteHdr
  <2>2. Before /\ floor' \in Nat
    BY <1>5, <1>16, <1>j, <1>k, <1>l DEF WriteHdr
  <2> QED BY <1>16, <2>1, <2>2, <1>n DEF WriteHdr
<1>17. CASE InvalidateOldHdr
  <2>1. FlashOK
    BY <1>2, <1>17, <1>u, <1>g DEF InvalidateOldHdr
  <2> QED BY <1>17, <2>1, <1>k, <1>n DEF InvalidateOldHdr
<1>18. CASE RefusedWrite
  BY <1>18, <1>u, <1>l, <1>n DEF RefusedWrite
<1>19. CASE Crash
  <2>1. FlashOK
    <3>1. CASE UNCHANGED flash
      BY <3>1, <1>u
    <3>2. CASE Torn
      <4>1. \A t, n \in Nat : t \in (n + 1)..(MaxCount[faults] + TornMore) => t \in Nat
        BY <1>4
      <4>2. CASE op.pc = "carry" /\ \E t \in (op.last + 1)..MaxTorn : flash' = [flash EXCEPT ![op.sect].cnt = <<t>>]
        <5>1. PICK t \in (op.last + 1)..MaxTorn : flash' = [flash EXCEPT ![op.sect].cnt = <<t>>]
          BY <4>2
        <5>2. t \in Nat
          BY <1>2, <1>4 DEF MaxTorn
        <5>3. <<t>> \in Seq(Nat) /\ Len(<<t>>) <= CntNum
          BY <1>4, <5>2
        <5> QED BY <1>2, <1>c, <5>1, <5>3
      <4>3. CASE op.pc = "count" /\ \E t \in (op.cnt + 1)..MaxTorn : flash' = [flash EXCEPT ![op.sect].cnt = Append(@, t)]
        <5> DEFINE c == flash[op.sect].cnt
        <5>1. PICK t \in (op.cnt + 1)..MaxTorn : flash' = [flash EXCEPT ![op.sect].cnt = Append(c, t)]
          BY <1>1, <1>2, <4>3 DEF Sector
        <5>2. t \in Nat
          BY <1>2, <1>4 DEF MaxTorn
        <5>3. Append(c, t) \in Seq(Nat) /\ Len(Append(c, t)) = Len(c) + 1
          BY <1>1, <1>2, <1>6, <5>2, CountSeq
        <5>4. Len(c) < CntNum /\ Len(c) \in Nat
          BY <1>1, <1>2, <1>6, <4>3 DEF RoomLeft
        <5>5. Len(Append(c, t)) <= CntNum
          BY <1>4, <5>3, <5>4
        <5>6. op.sect \in Sect
          BY <1>2
        <5> HIDE DEF c
        <5> QED BY <1>c, <5>1, <5>3, <5>5, <5>6
      <4>4. CASE op.pc = "hdr" /\ flash' = SetFlag(op.sect, "TORN")
        BY <1>2, <1>g, <4>4
      <4> QED BY <3>2, <4>2, <4>3, <4>4 DEF Torn
    <3> QED BY <1>19, <3>1, <3>2 DEF Crash
  <2> QED BY <1>1, <1>19, <2>1, <1>i, <1>m DEF Crash
<1> QED
  BY <1>7a, <1>8, <1>9, <1>10, <1>11, <1>12, <1>13, <1>14, <1>15, <1>16, <1>17, <1>18, <1>19
  DEF Next, Step
-----------------------------------------------------------------------------
(* Without refusals *)

\* The sector in use is the one with the only valid header, or with the next
\* number.
LEMMA UsedIs ==
  TypeOK /\ CountHeaders =>
    \A s \in Sect :
      (ValidSect = {s} \/ (ValidSect = Sect /\ flash[s].seq = (flash[Other(s)].seq + 1) % 4)) =>
         Formatted /\ CurrentSeq = flash[s].seq /\ UsedSect = s
<1> SUFFICES ASSUME TypeOK, CountHeaders, NEW s \in Sect,
                    ValidSect = {s}
                      \/ (ValidSect = Sect /\ flash[s].seq = (flash[Other(s)].seq + 1) % 4)
             PROVE  Formatted /\ CurrentSeq = flash[s].seq /\ UsedSect = s
  OBVIOUS
<1>1. flash[0].seq \in 0..3 /\ flash[1].seq \in 0..3 /\ (s = 0 \/ s = 1) /\ Other(0) = 1 /\ Other(1) = 0
  BY DEF TypeOK, Sector, Sect, Other
<1>2. \A a \in 0..3 : /\ NewerSeq(a, (a + 1) % 4) = (a + 1) % 4
                      /\ NewerSeq((a + 1) % 4, a) = (a + 1) % 4
  BY DEF NewerSeq
<1>3. flash[s].flag = "VALID" /\ s \in ValidSect
  BY DEF ValidSect
<1>4. flash[s].seq % 2 = s
  BY <1>3 DEF CountHeaders
<1>5. CurrentSeq = flash[s].seq
  <2>1. CASE ValidSect = {s}
    <3>1. Other(s) \in Sect /\ Other(s) \notin {s} /\ (0 \in {s} <=> s = 0)
      BY <1>1 DEF Sect
    <3>2. ValidSect # Sect
      BY <2>1, <3>1
    <3> QED BY <1>1, <2>1, <3>1, <3>2 DEF CurrentSeq
  <2>2. CASE ValidSect = Sect /\ flash[s].seq = (flash[Other(s)].seq + 1) % 4
    <3>1. CurrentSeq = NewerSeq(flash[0].seq, flash[1].seq)
      BY <2>2 DEF CurrentSeq
    <3>2. CASE s = 0
      BY <1>1, <1>2, <2>2, <3>1, <3>2
    <3>3. CASE s = 1
      BY <1>1, <1>2, <2>2, <3>1, <3>3
    <3> QED BY <1>1, <3>2, <3>3
  <2> QED BY <2>1, <2>2
<1> QED BY <1>3, <1>4, <1>5 DEF Formatted, UsedSect

\* And there is one when there is a valid header.
LEMMA UsedFacts ==
  FrameCountAssumption /\ TypeOK /\ CountHeaders /\ Formatted =>
    /\ UsedSect \in Sect /\ flash[UsedSect].flag = "VALID" /\ flash[UsedSect].seq = CurrentSeq
    /\ CurrentSeq \in 0..3 /\ CurrentSeq % 2 = UsedSect /\ SectorRead = {CurrentSeq}
    /\ ValidSect = {UsedSect}
       \/ (ValidSect = Sect /\ flash[UsedSect].seq = (flash[Other(UsedSect)].seq + 1) % 4)
    /\ Counts \in Seq(Nat) /\ Counts # <<>> /\ Len(Counts) \in Nat /\ Len(Counts) <= CntNum
    /\ Final(Counts) \in Nat
    /\ Kept <=> Loaded(Counts) >= floor
<1> SUFFICES ASSUME FrameCountAssumption, TypeOK, CountHeaders, Formatted
             PROVE  /\ UsedSect \in Sect /\ flash[UsedSect].flag = "VALID" /\ flash[UsedSect].seq = CurrentSeq
                    /\ CurrentSeq \in 0..3 /\ CurrentSeq % 2 = UsedSect /\ SectorRead = {CurrentSeq}
                    /\ ValidSect = {UsedSect}
                       \/ (ValidSect = Sect /\ flash[UsedSect].seq = (flash[Other(UsedSect)].seq + 1) % 4)
                    /\ Counts \in Seq(Nat) /\ Counts # <<>> /\ Len(Counts) \in Nat /\ Len(Counts) <= CntNum
                    /\ Final(Counts) \in Nat
                    /\ Kept <=> Loaded(Counts) >= floor
  OBVIOUS
<1>1. PICK s \in Sect : ValidSect = {s}
                        \/ (ValidSect = Sect /\ flash[s].seq = (flash[Other(s)].seq + 1) % 4)
  <2>1. ValidSect \subseteq Sect /\ ValidSect # {}
    BY DEF ValidSect, Formatted
  <2>2. CASE ValidSect # Sect
    BY <2>1, <2>2 DEF Sect
  <2>3. CASE ValidSect = Sect
    <3>1. /\ flash[0].seq \in 0..3 /\ flash[1].seq \in 0..3 /\ Other(0) = 1 /\ Other(1) = 0
          /\ 0 \in Sect /\ 1 \in Sect
      BY DEF TypeOK, Sector, Sect, Other
    <3>2. flash[0].seq % 2 = 0 /\ flash[1].seq % 2 = 1
      BY <2>3, <3>1 DEF CountHeaders, ValidSect
    <3>3. flash[0].seq = (flash[1].seq + 1) % 4 \/ flash[1].seq = (flash[0].seq + 1) % 4
      BY <3>1, <3>2
    <3> QED BY <2>3, <3>1, <3>3
  <2> QED BY <2>2, <2>3
<1>2. CurrentSeq = flash[s].seq /\ UsedSect = s
  BY <1>1, UsedIs
<1>3. s \in ValidSect /\ flash[s].flag = "VALID"
  BY <1>1 DEF ValidSect
<1>4. flash[s].cnt # <<>> /\ flash[s].seq % 2 = s
  BY <1>3 DEF CountHeaders
<1>5. /\ flash[s].cnt \in Seq(Nat) /\ flash[s].seq \in 0..3 /\ Len(flash[s].cnt) <= CntNum
      /\ Len(flash[s].cnt) \in Nat /\ Final(flash[s].cnt) \in Nat
  BY <1>4, SectorChanges, CountSeq DEF TypeOK
<1>6. SectorRead = {CurrentSeq}
  BY <1>2, <1>4 DEF SectorRead
<1>7. Kept <=> Loaded(Counts) >= floor
  BY <1>2, <1>4, <1>6 DEF Kept, Counts
<1> QED BY <1>1, <1>2, <1>3, <1>4, <1>5, <1>6, <1>7 DEF Counts

\* The same after a step.
LEMMA UsedNext ==
  /\ TypeOK' /\ CountHeaders' =>
       \A s \in Sect :
         (ValidSect' = {s} \/ (ValidSect' = Sect /\ flash'[s].seq = (flash'[Other(s)].seq + 1) % 4)) =>
            Formatted' /\ CurrentSeq' = flash'[s].seq /\ UsedSect' = s
  /\ FrameCountAssumption /\ TypeOK' /\ CountHeaders' /\ Formatted' =>
       (Kept' <=> Loaded(Counts') >= floor')
<1>1. (TypeOK /\ CountHeaders =>
        \A s \in Sect :
          (ValidSect = {s} \/ (ValidSect = Sect /\ flash[s].seq = (flash[Other(s)].seq + 1) % 4)) =>
             Formatted /\ CurrentSeq = flash[s].seq /\ UsedSect = s)'
  BY UsedIs, PTL
<1>2. (FrameCountAssumption /\ TypeOK /\ CountHeaders /\ Formatted =>
        (Kept <=> Loaded(Counts) >= floor))'
  <2>1. FrameCountAssumption /\ TypeOK /\ CountHeaders /\ Formatted =>
        (Kept <=> Loaded(Counts) >= floor)
    BY UsedFacts
  <2> QED BY <2>1, PTL
<1>3. Loaded(Counts)' = Loaded(Counts')
  BY DEF Loaded, Implausible, BackOff, Final
<1>4. \A s : Other(s)' = Other(s)
  BY DEF Other
<1> QED BY <1>1, <1>2, <1>3, <1>4

\* A step that leaves the sector in use alone, and the other without a valid
\* header, changes nothing that is read.
LEMMA SpareStep ==
  ASSUME CountTyped, TypeOK', CountHeaders, Formatted,
         flash'[UsedSect] = flash[UsedSect], flash'[Other(UsedSect)].flag # "VALID"
  PROVE  /\ CountHeaders' /\ Formatted' /\ ValidSect' = {UsedSect}
         /\ CurrentSeq' = CurrentSeq /\ UsedSect' = UsedSect /\ Counts' = Counts
         /\ Spare' = flash'[Other(UsedSect)]
         /\ Kept' <=> Loaded(Counts) >= floor'
<1> DEFINE u == UsedSect
<1>1. /\ u \in Sect /\ flash[u].flag = "VALID" /\ flash[u].seq = CurrentSeq
      /\ FrameCountAssumption /\ TypeOK
  BY UsedFacts DEF CountTyped
<1>2. \A t \in Sect : t = u \/ t = Other(u)
  BY <1>1, SectorChanges DEF TypeOK
<1>3. CountHeaders'
  <2> SUFFICES ASSUME NEW s \in Sect, flash'[s].flag = "VALID"
               PROVE  flash'[s].seq % 2 = s /\ flash'[s].cnt # <<>>
    BY DEF CountHeaders
  <2>1. s = u
    BY <1>2
  <2> QED BY <1>1, <2>1 DEF CountHeaders
<1>4. ValidSect' = {u}
  <2>1. u \in ValidSect' /\ Other(u) \notin ValidSect'
    BY <1>1 DEF ValidSect
  <2>2. ValidSect' \subseteq Sect
    BY DEF ValidSect
  <2> QED BY <1>2, <2>1, <2>2
<1>5. Formatted' /\ CurrentSeq' = flash'[u].seq /\ UsedSect' = u
  BY <1>1, <1>3, <1>4, UsedNext
<1>6. Counts' = Counts /\ Spare' = flash'[Other(u)]
  BY <1>5 DEF Counts, Spare, Other
<1>7. Kept' <=> Loaded(Counts') >= floor'
  BY <1>1, <1>3, <1>5, UsedNext
<1> QED BY <1>1, <1>3, <1>4, <1>5, <1>6, <1>7

\* A step that leaves the flash alone changes nothing that is read.
LEMMA StillStep ==
  ASSUME flash' = flash
  PROVE  /\ CountHeaders' <=> CountHeaders
         /\ Formatted' <=> Formatted
         /\ ValidSect' = ValidSect /\ CurrentSeq' = CurrentSeq /\ UsedSect' = UsedSect
         /\ Counts' = Counts /\ Spare' = Spare /\ SectorRead' = SectorRead
         /\ floor' = floor => (Kept' <=> Kept)
<1>1. ValidSect' = ValidSect
  BY DEF ValidSect
<1>2. CountHeaders' <=> CountHeaders
  BY DEF CountHeaders
<1>3. (Formatted' <=> Formatted) /\ CurrentSeq' = CurrentSeq
  BY <1>1 DEF Formatted, CurrentSeq
<1>4. UsedSect' = UsedSect /\ Counts' = Counts /\ Spare' = Spare /\ SectorRead' = SectorRead
  BY <1>3 DEF UsedSect, Counts, Spare, SectorRead, Other
<1>5. floor' = floor => (Kept' <=> Kept)
  BY <1>4 DEF Kept, Loaded, Implausible, BackOff, Final
<1> QED BY <1>1, <1>2, <1>3, <1>4, <1>5

\* The fields of a save, one step on.
LEMMA SaveMoves ==
  ASSUME TypeOK
  PROVE  /\ \A p : op' = [op EXCEPT !.pc = p] =>
              /\ op'.pc = p /\ op'.cnt = op.cnt /\ op'.force = op.force /\ op'.err = op.err
              /\ op'.sect = op.sect /\ op'.old = op.old /\ op'.seq = op.seq /\ op'.upd = op.upd
              /\ op'.last = op.last
         /\ \A p, s, q : op' = [op EXCEPT !.pc = p, !.sect = s, !.seq = q] =>
              /\ op'.pc = p /\ op'.cnt = op.cnt /\ op'.force = op.force /\ op'.err = op.err
              /\ op'.sect = s /\ op'.old = op.old /\ op'.seq = q /\ op'.upd = op.upd
              /\ op'.last = op.last
         /\ \A p, s : op' = [op EXCEPT !.pc = p, !.old = s] =>
              /\ op'.pc = p /\ op'.cnt = op.cnt /\ op'.force = op.force /\ op'.err = op.err
              /\ op'.sect = op.sect /\ op'.old = s /\ op'.seq = op.seq /\ op'.upd = op.upd
              /\ op'.last = op.last
         /\ \A p, n, s, t, q :
              op' = [op EXCEPT !.pc = p, !.upd = TRUE, !.last = n, !.old = s, !.sect = t, !.seq = q] =>
                /\ op'.pc = p /\ op'.cnt = op.cnt /\ op'.force = op.force /\ op'.err = op.err
                /\ op'.sect = t /\ op'.old = s /\ op'.seq = q /\ op'.upd = TRUE /\ op'.last = n
         /\ Idle.pc = "idle" /\ ~Idle.force /\ ~Idle.upd
         /\ op.force \in BOOLEAN /\ op.upd \in BOOLEAN
         /\ \A n : op' = [Idle EXCEPT !.pc = "sector", !.cnt = n] =>
              op'.pc = "sector" /\ op'.cnt = n /\ ~op'.force /\ ~op'.upd
         /\ \A n, s : op' = [Idle EXCEPT !.pc = "sector", !.cnt = n, !.force = TRUE, !.err = s] =>
              op'.pc = "sector" /\ op'.cnt = n /\ op'.force /\ ~op'.upd /\ op'.err = s
<1>1. op \in OpType
  BY TypedParts
<1> QED BY <1>1 DEF OpType, Idle

\* A step with a valid header, from which nothing is lost.
CountKnown == CountTyped /\ TypeOK' /\ Calm /\ CountInv /\ Formatted

\* It keeps the invariant, and a new header has the next number.
CountGoes ==
  /\ CountInv' /\ Formatted'
  /\ CurrentSeq' \in {CurrentSeq, (CurrentSeq + 1) % 4}

\* What is known in such a step.
LEMMA CountFacts ==
  ASSUME CountKnown
  PROVE  /\ FrameCountAssumption /\ TypeOK /\ CountHeaders /\ SaveHolds /\ AtRest /\ PlainSave
         /\ ForcedSave
         /\ UsedSect \in Sect /\ Other(UsedSect) \in Sect /\ Other(UsedSect) # UsedSect
         /\ Other(Other(UsedSect)) = UsedSect
         /\ flash[UsedSect].flag = "VALID" /\ flash[UsedSect].seq = CurrentSeq
         /\ CurrentSeq \in 0..3 /\ CurrentSeq % 2 = UsedSect /\ SectorRead = {CurrentSeq}
         /\ Counts \in Seq(Nat) /\ Counts # <<>> /\ Len(Counts) \in Nat /\ Len(Counts) >= 1
         /\ Len(Counts) <= CntNum /\ Final(Counts) \in Nat /\ Loaded(Counts) \in Nat
         /\ Loaded(Counts) >= floor
         /\ ~Implausible(Counts) => Loaded(Counts) = Final(Counts)
         /\ Implausible(Counts) => /\ Loaded(Counts) = BackOff(Counts)
                                   /\ BackOff(Counts) \in Nat
         /\ flash \in [Sect -> Sector] /\ floor \in Nat /\ (ram # Off => ram \in Nat)
         /\ Off \notin Nat /\ Thres \in Nat /\ MaxGap \in Nat /\ MaxGap <= 2 * Thres
         /\ CntNum \in Nat /\ CntNum > 1 /\ NoSect \notin Sect
         /\ \A f : ~CanFail("refuse") /\ (Unchecked(f) => flash' = f)
<1>1. FrameCountAssumption /\ TypeOK /\ CountHeaders /\ SaveHolds /\ SaveOK /\ Formatted /\ Kept
  BY DEF CountKnown, CountTyped, CountInv
<1>2. /\ UsedSect \in Sect /\ flash[UsedSect].flag = "VALID" /\ flash[UsedSect].seq = CurrentSeq
      /\ CurrentSeq \in 0..3 /\ CurrentSeq % 2 = UsedSect /\ SectorRead = {CurrentSeq}
      /\ Counts \in Seq(Nat) /\ Counts # <<>> /\ Len(Counts) \in Nat /\ Len(Counts) <= CntNum
      /\ Final(Counts) \in Nat
      /\ Loaded(Counts) >= floor
  BY <1>1, UsedFacts
<1>3. Other(UsedSect) \in Sect /\ Other(UsedSect) # UsedSect /\ Other(Other(UsedSect)) = UsedSect
  BY <1>1, <1>2, SectorChanges DEF TypeOK
<1>4. /\ Len(Counts) >= 1 /\ Loaded(Counts) \in Nat
      /\ Implausible(Counts) => BackOff(Counts) \in Nat
  BY <1>1, <1>2, CountSeq
<1>5. /\ ~Implausible(Counts) => Loaded(Counts) = Final(Counts)
      /\ Implausible(Counts) => Loaded(Counts) = BackOff(Counts)
  BY <1>2 DEF Loaded
<1>6. flash \in [Sect -> Sector] /\ floor \in Nat /\ (ram # Off => ram \in Nat)
  BY <1>1 DEF TypeOK
<1>7. /\ Off \notin Nat /\ Thres \in Nat /\ MaxGap \in Nat /\ MaxGap <= 2 * Thres
      /\ CntNum \in Nat /\ CntNum > 1 /\ NoSect \notin Sect
  BY <1>1, SaveBegins
<1>8. \A f : ~CanFail("refuse") /\ (Unchecked(f) => flash' = f)
  BY DEF CountKnown, Calm, CanFail, Unchecked
<1> QED BY <1>1, <1>2, <1>3, <1>4, <1>5, <1>6, <1>7, <1>8 DEF SaveOK

\* The parts of CountGoes.
LEMMA CountParts ==
  ASSUME CountHeaders', Formatted', SaveHolds', Kept', AtRest', PlainSave', ForcedSave',
         CurrentSeq' \in {CurrentSeq, (CurrentSeq + 1) % 4}
  PROVE  CountGoes
BY DEF CountGoes, CountInv, CountFresh, SaveOK

\* Starting, counting, and beginning a save.
LEMMA RestGoes ==
  ASSUME CountKnown, Load \/ Count \/ Save
  PROVE  CountGoes
<1>1. /\ FrameCountAssumption /\ TypeOK /\ CountHeaders /\ SaveHolds /\ AtRest /\ Formatted
      /\ UsedSect \in Sect /\ CurrentSeq \in 0..3 /\ CurrentSeq % 2 = UsedSect
      /\ SectorRead = {CurrentSeq}
      /\ Final(Counts) \in Nat /\ Loaded(Counts) \in Nat /\ Loaded(Counts) >= floor
      /\ ~Implausible(Counts) => Loaded(Counts) = Final(Counts)
      /\ Implausible(Counts) => Loaded(Counts) = BackOff(Counts) /\ BackOff(Counts) \in Nat
      /\ floor \in Nat /\ (ram # Off => ram \in Nat) /\ Off \notin Nat /\ Thres \in Nat
      /\ MaxGap \in Nat /\ MaxGap <= 2 * Thres /\ Kept
  BY CountFacts DEF CountKnown, CountInv
<1>2. flash' = flash /\ floor' = floor
  BY DEF Load, Count, Save
<1>3. /\ CountHeaders' /\ Formatted' /\ Kept'
      /\ ValidSect' = ValidSect /\ CurrentSeq' = CurrentSeq /\ UsedSect' = UsedSect
      /\ Counts' = Counts /\ Spare' = Spare
  BY <1>1, <1>2, StillStep
<1>5. /\ Implausible(Counts)' = Implausible(Counts) /\ Final(Counts)' = Final(Counts)
      /\ BackOff(Counts)' = BackOff(Counts)
  BY <1>3 DEF Implausible, Final, BackOff
<1>6. CASE Load
  <2>1. /\ ram' = Loaded(Counts)
        /\ op' = IF Implausible(Counts)
                   THEN [Idle EXCEPT !.pc = "sector", !.cnt = BackOff(Counts), !.force = TRUE,
                                     !.err = UsedSect]
                   ELSE Idle
    BY <1>1, <1>6 DEF Load, Counts
  <2>2. CASE Implausible(Counts)
    <3>1. op'.pc = "sector" /\ op'.cnt = BackOff(Counts) /\ op'.force /\ ~op'.upd /\ op'.err = UsedSect
      BY <1>1, <2>1, <2>2, SaveMoves
    <3>2. SaveHolds' /\ AtRest' /\ PlainSave'
      BY <1>1, <2>1, <2>2, <3>1 DEF SaveHolds, AtRest, PlainSave
    <3>3. ForcedSave'
      BY <1>3, <1>5, <2>2, <3>1 DEF ForcedSave
    <3> QED BY <1>3, <3>2, <3>3, CountParts
  <2>3. CASE ~Implausible(Counts)
    <3>1. op'.pc = "idle" /\ ram' = Final(Counts)
      BY <1>1, <2>1, <2>3, SaveMoves
    <3>2. Follows'
      BY <1>1, <1>3, <1>5, <2>3, <3>1 DEF Follows
    <3>3. SaveHolds' /\ AtRest' /\ PlainSave' /\ ForcedSave'
      BY <3>1, <3>2 DEF SaveHolds, AtRest, PlainSave, ForcedSave
    <3> QED BY <1>3, <3>3, CountParts
  <2> QED BY <2>2, <2>3
<1>7. CASE Count
  <2>1. /\ op.pc = "idle" /\ ram \in Nat /\ op' = op /\ ram' = ram + 1 /\ ram < floor + MaxGap
    BY <1>1, <1>7 DEF Count
  <2>2. Follows
    BY <1>1, <2>1 DEF AtRest
  <2>3. Follows'
    BY <1>1, <1>3, <1>5, <2>1, <2>2 DEF Follows
  <2>4. SaveHolds' /\ AtRest' /\ PlainSave' /\ ForcedSave'
    BY <2>1, <2>3 DEF SaveHolds, AtRest, PlainSave, ForcedSave
  <2> QED BY <1>3, <2>4, CountParts
<1>8. CASE Save
  <2>1. /\ op.pc = "idle" /\ ram \in Nat /\ ram' = ram
        /\ op'.pc = "sector" /\ op'.cnt = ram /\ ~op'.force /\ ~op'.upd
    BY <1>1, <1>8, SaveMoves DEF Save
  <2>2. Follows
    BY <1>1, <2>1 DEF AtRest
  <2>3. Follows'
    BY <1>3, <1>5, <2>1, <2>2 DEF Follows
  <2>4. SaveHolds' /\ AtRest' /\ ForcedSave'
    BY <1>1, <2>1 DEF SaveHolds, AtRest, ForcedSave
  <2>5. PlainSave'
    BY <2>1, <2>3 DEF PlainSave, Leaving
  <2> QED BY <1>3, <2>4, <2>5, CountParts
<1> QED BY <1>6, <1>7, <1>8

\* What is read of the counts stays when they do.
LEMMA ReadsStay ==
  ASSUME Counts' = Counts
  PROVE  /\ (Implausible(Counts))' <=> Implausible(Counts)
         /\ Final(Counts)' = Final(Counts) /\ BackOff(Counts)' = BackOff(Counts)
         /\ Len(Counts)' = Len(Counts)
         /\ ram' = ram => (Follows' <=> Follows)
BY DEF Implausible, Final, BackOff, Follows

\* nv_sector_read, and the erasures, touch only the other sector.
LEMMA PrepareGoes ==
  ASSUME CountKnown, SectorReadForWrite \/ EraseForced \/ Erase
  PROVE  CountGoes
<1> DEFINE u == UsedSect
           o == Other(UsedSect)
<1>1. /\ CountTyped /\ TypeOK' /\ TypeOK /\ CountHeaders /\ Formatted /\ SaveHolds /\ PlainSave
      /\ ForcedSave
      /\ u \in Sect /\ o \in Sect /\ o # u /\ CurrentSeq \in 0..3 /\ CurrentSeq % 2 = u
      /\ SectorRead = {CurrentSeq} /\ flash \in [Sect -> Sector] /\ Loaded(Counts) >= floor
      /\ NoSect \notin Sect /\ Other(o) = u
      /\ \A f : Unchecked(f) => flash' = f
  BY CountFacts DEF CountKnown
<1>2. UNCHANGED <<ram, faults>> /\ floor' = floor /\ op.pc # "idle"
  BY DEF SectorReadForWrite, EraseForced, Erase, Goto
<1>3. ram # Off /\ op.cnt = ram
  BY <1>1, <1>2 DEF SaveHolds
<1>4. ASSUME flash'[u] = flash[u], flash'[o].flag # "VALID",
             op'.cnt = op.cnt, op'.force = op.force, op'.err = op.err,
             op'.pc # "idle",
             ~op.force => op'.pc \in {"search", "carry"} /\ Follows /\
               IF op'.pc = "search" THEN op'.sect = u /\ op'.seq = CurrentSeq /\ ~op'.upd
               ELSE /\ op'.upd /\ op'.sect = o /\ op'.old = u /\ op'.seq = (CurrentSeq + 1) % 4
                    /\ op'.last = Final(Counts) /\ flash'[o].flag = "IDLE" /\ flash'[o].cnt = <<>>,
             op.force => /\ Implausible(Counts) /\ op.cnt = BackOff(Counts) /\ op.err = u
                         /\ op'.pc \in {"forced", "search"}
                         /\ op'.sect = o /\ op'.seq = (CurrentSeq + 1) % 4 /\ ~op'.upd
                         /\ op'.pc = "search" => flash'[o].flag = "IDLE" /\ flash'[o].cnt = <<>>
      PROVE  CountGoes
  <2>1. /\ CountHeaders' /\ Formatted' /\ ValidSect' = {u}
        /\ CurrentSeq' = CurrentSeq /\ UsedSect' = u /\ Counts' = Counts
        /\ Spare' = flash'[o] /\ Kept'
    BY <1>1, <1>2, <1>4, SpareStep
  <2>2. /\ (Implausible(Counts))' <=> Implausible(Counts)
        /\ Final(Counts)' = Final(Counts) /\ BackOff(Counts)' = BackOff(Counts)
        /\ Follows' <=> Follows
    BY <1>2, <2>1, ReadsStay
  <2>3. Other(UsedSect)' = o
    BY <2>1 DEF Other
  <2>4. SaveHolds' /\ AtRest'
    BY <1>2, <1>3, <1>4 DEF SaveHolds, AtRest
  <2>5. PlainSave'
    BY <1>4, <2>1, <2>2, <2>3 DEF PlainSave, Leaving
  <2>6. ForcedSave'
    BY <1>4, <2>1, <2>2, <2>3 DEF ForcedSave
  <2> QED BY <2>1, <2>4, <2>5, <2>6, CountParts
<1>5. CASE SectorReadForWrite
  <2>1. flash'[u] = flash[u] /\ flash'[o].flag # "VALID"
    <3>1. CASE flash[o].flag = "VALID"
      <4>1. flash' = SetFlag(o, "INVALID") /\ o \in Sect /\ flash \in [Sect -> Sector]
        BY <1>1, <1>5, <3>1 DEF SectorReadForWrite, UsedSect
      <4> HIDE DEF o
      <4>2. flash'[o].flag = "INVALID" /\ flash'[Other(o)] = flash[Other(o)]
        BY <4>1, SectorEffects
      <4> QED BY <1>1, <4>2
    <3>2. CASE flash[o].flag # "VALID"
      BY <1>1, <1>5, <3>2 DEF SectorReadForWrite, UsedSect
    <3> QED BY <3>1, <3>2
  <2>2. op' = IF op.force
                THEN [op EXCEPT !.pc = "forced", !.sect = ForcedTo, !.seq = (CurrentSeq + 1) % 4]
                ELSE [op EXCEPT !.pc = "search", !.sect = u, !.seq = CurrentSeq]
    BY <1>1, <1>5 DEF SectorReadForWrite
  <2>3. op.pc = "sector"
    BY <1>5 DEF SectorReadForWrite
  <2>4. CASE op.force
    <3>1. /\ Implausible(Counts) /\ op.cnt = BackOff(Counts) /\ op.err = u /\ ~op.upd
      BY <1>1, <2>3, <2>4 DEF ForcedSave
    <3>2. ForcedTo = o
      BY <1>1, <3>1 DEF ForcedTo
    <3>3. /\ op'.pc = "forced" /\ op'.cnt = op.cnt /\ op'.force = op.force /\ op'.err = op.err
          /\ op'.sect = o /\ op'.seq = (CurrentSeq + 1) % 4 /\ op'.upd = op.upd
      <4>1. op' = [op EXCEPT !.pc = "forced", !.sect = o, !.seq = (CurrentSeq + 1) % 4]
        BY <2>2, <2>4, <3>2
      <4>2. op \in OpType
        BY <1>1, TypedParts
      <4> HIDE DEF u, o
      <4> QED BY <4>1, <4>2 DEF OpType
    <3> QED BY <1>4, <2>1, <2>4, <3>1, <3>3
  <2>5. CASE ~op.force
    <3>1. Follows /\ ~op.upd
      BY <1>1, <2>3, <2>5 DEF PlainSave
    <3>2. /\ op'.pc = "search" /\ op'.cnt = op.cnt /\ op'.force = op.force /\ op'.err = op.err
          /\ op'.sect = u /\ op'.seq = CurrentSeq /\ op'.upd = op.upd
      <4>1. op' = [op EXCEPT !.pc = "search", !.sect = u, !.seq = CurrentSeq]
        BY <2>2, <2>5
      <4>2. op \in OpType
        BY <1>1, TypedParts
      <4> HIDE DEF u, o
      <4> QED BY <4>1, <4>2 DEF OpType
    <3> QED BY <1>4, <2>1, <2>5, <3>1, <3>2
  <2> QED BY <2>4, <2>5
<1>6. CASE EraseForced
  <2>1. op.pc = "forced" /\ flash' = [flash EXCEPT ![op.sect] = BlankSector]
        /\ op' = [op EXCEPT !.pc = "search"]
    BY <1>1, <1>6 DEF EraseForced, Goto
  <2>2. op.force
    BY <1>1, <2>1 DEF PlainSave
  <2>3. /\ ~op.upd /\ Implausible(Counts) /\ op.cnt = BackOff(Counts) /\ op.err = u
        /\ op.sect = o /\ op.seq = (CurrentSeq + 1) % 4
    BY <1>1, <2>1, <2>2 DEF ForcedSave
  <2>4. flash'[o].flag = "IDLE" /\ flash'[o].cnt = <<>> /\ flash'[Other(o)] = flash[Other(o)]
    BY <1>1, <2>1, <2>3, SectorEffects
  <2>5. /\ op'.pc = "search" /\ op'.cnt = op.cnt /\ op'.force = op.force /\ op'.err = op.err
        /\ op'.sect = op.sect /\ op'.seq = op.seq /\ op'.upd = op.upd
    BY <1>1, <2>1, SaveMoves
  <2> QED BY <1>1, <1>4, <2>2, <2>3, <2>4, <2>5
<1>7. CASE Erase
  <2>1. op.pc = "erase" /\ flash' = [flash EXCEPT ![op.sect] = BlankSector]
        /\ op' = [op EXCEPT !.pc = "carry"]
    BY <1>1, <1>7 DEF Erase, Goto
  <2>2. ~op.force
    BY <1>1, <2>1 DEF ForcedSave
  <2>3. /\ op.upd /\ op.sect = o /\ op.old = u /\ op.seq = (CurrentSeq + 1) % 4
        /\ op.last = Final(Counts) /\ Follows
    BY <1>1, <2>1, <2>2 DEF PlainSave, Leaving
  <2>4. flash'[o].flag = "IDLE" /\ flash'[o].cnt = <<>> /\ flash'[Other(o)] = flash[Other(o)]
    BY <1>1, <2>1, <2>3, SectorEffects
  <2>5. /\ op'.pc = "carry" /\ op'.cnt = op.cnt /\ op'.force = op.force /\ op'.err = op.err
        /\ op'.sect = op.sect /\ op'.old = op.old /\ op'.seq = op.seq /\ op'.upd = op.upd
        /\ op'.last = op.last
    BY <1>1, <2>1, SaveMoves
  <2> QED BY <1>1, <1>4, <2>2, <2>3, <2>4, <2>5
<1> QED BY <1>5, <1>6, <1>7

\* Looking for the end of the counts.
LEMMA SearchGoes ==
  ASSUME CountKnown, Search
  PROVE  CountGoes
<1> DEFINE u == UsedSect
           o == Other(UsedSect)
<1>1. /\ TypeOK /\ CountHeaders /\ Formatted /\ SaveHolds /\ PlainSave /\ ForcedSave /\ Kept
      /\ u \in Sect /\ o \in Sect /\ o # u /\ Other(o) = u
      /\ Counts \in Seq(Nat) /\ CntNum \in Nat /\ CntNum > 1
  BY CountFacts DEF CountKnown, CountInv
<1>2. /\ op.pc = "search" /\ flash' = flash /\ floor' = floor /\ ram' = ram
      /\ op' = IF Len(flash[op.sect].cnt) = CntNum
                 THEN [op EXCEPT !.pc = "erase", !.upd = TRUE, !.last = Final(flash[op.sect].cnt),
                                 !.old = op.sect, !.sect = Other(op.sect),
                                 !.seq = (op.seq + 1) % 4]
                 ELSE [op EXCEPT !.pc = "count", !.old = op.sect]
  BY <1>1, TypedParts DEF Search, OpType
<1>3. /\ CountHeaders' /\ Formatted' /\ Kept'
      /\ ValidSect' = ValidSect /\ CurrentSeq' = CurrentSeq /\ UsedSect' = UsedSect
      /\ Counts' = Counts /\ Spare' = Spare
  BY <1>1, <1>2, StillStep
<1>4. /\ (Implausible(Counts))' <=> Implausible(Counts)
      /\ Final(Counts)' = Final(Counts) /\ BackOff(Counts)' = BackOff(Counts)
      /\ Follows' <=> Follows
  BY <1>2, <1>3, ReadsStay
<1>5. ram # Off /\ op.cnt = ram
  BY <1>1, <1>2 DEF SaveHolds
<1>6. Other(UsedSect)' = o
  BY <1>3 DEF Other
<1>7. CASE op.force
  <2>1. /\ ~op.upd /\ Implausible(Counts) /\ op.cnt = BackOff(Counts) /\ op.err = u
        /\ ValidSect = {u} /\ op.sect = o /\ op.seq = (CurrentSeq + 1) % 4
        /\ Spare.flag = "IDLE" /\ Spare.cnt = <<>>
    BY <1>1, <1>2, <1>7 DEF ForcedSave
  <2>2. Len(flash[op.sect].cnt) # CntNum
    BY <1>1, <2>1, EmptySeq DEF Spare
  <2>3. /\ op'.pc = "count" /\ op'.cnt = op.cnt /\ op'.force = op.force /\ op'.err = op.err
        /\ op'.sect = op.sect /\ op'.seq = op.seq /\ op'.upd = op.upd
    <3>1. op' = [op EXCEPT !.pc = "count", !.old = op.sect]
      BY <1>2, <2>2
    <3> QED BY <1>1, <3>1, SaveMoves
  <2>4. SaveHolds' /\ AtRest' /\ PlainSave'
    BY <1>2, <1>5, <1>7, <2>3 DEF SaveHolds, AtRest, PlainSave
  <2>5. ForcedSave'
    BY <1>3, <1>4, <1>6, <2>1, <2>3 DEF ForcedSave
  <2> QED BY <1>3, <2>4, <2>5, CountParts
<1>8. CASE ~op.force
  <2>1. Follows /\ ValidSect = {u} /\ op.sect = u /\ op.seq = CurrentSeq /\ ~op.upd
    BY <1>1, <1>2, <1>8 DEF PlainSave
  <2>2. flash[op.sect].cnt = Counts
    BY <2>1 DEF Counts
  <2>3. CASE Len(Counts) = CntNum
    <3>1. /\ op'.pc = "erase" /\ op'.cnt = op.cnt /\ op'.force = op.force
          /\ op'.sect = o /\ op'.old = u /\ op'.seq = (CurrentSeq + 1) % 4 /\ op'.upd
          /\ op'.last = Final(Counts)
      <4>1. op' = [op EXCEPT !.pc = "erase", !.upd = TRUE, !.last = Final(Counts), !.old = u,
                             !.sect = o, !.seq = (CurrentSeq + 1) % 4]
        BY <1>2, <2>1, <2>2, <2>3
      <4>2. op \in OpType
        BY <1>1, TypedParts
      <4> HIDE DEF u, o
      <4> QED BY <4>1, <4>2 DEF OpType
    <3>2. SaveHolds' /\ AtRest' /\ ForcedSave'
      BY <1>2, <1>5, <1>8, <3>1 DEF SaveHolds, AtRest, ForcedSave
    <3>3. PlainSave'
      BY <1>3, <1>4, <1>6, <2>1, <3>1 DEF PlainSave, Leaving
    <3> QED BY <1>3, <3>2, <3>3, CountParts
  <2>4. CASE Len(Counts) # CntNum
    <3>1. /\ op'.pc = "count" /\ op'.cnt = op.cnt /\ op'.force = op.force
          /\ op'.sect = op.sect /\ op'.upd = op.upd
      <4>1. op' = [op EXCEPT !.pc = "count", !.old = op.sect]
        BY <1>2, <2>2, <2>4
      <4> QED BY <1>1, <4>1, SaveMoves
    <3>2. SaveHolds' /\ AtRest' /\ ForcedSave'
      BY <1>2, <1>5, <1>8, <3>1 DEF SaveHolds, AtRest, ForcedSave
    <3>3. PlainSave'
      BY <1>3, <1>4, <1>6, <2>1, <3>1 DEF PlainSave, Leaving
    <3> QED BY <1>3, <3>2, <3>3, CountParts
  <2> QED BY <2>3, <2>4
<1> QED BY <1>7, <1>8

\* The last count of the full sector goes into the other one.
LEMMA CarryGoes ==
  ASSUME CountKnown, Carry
  PROVE  CountGoes
<1> DEFINE u == UsedSect
           o == Other(UsedSect)
<1>1. /\ CountTyped /\ TypeOK' /\ TypeOK /\ CountHeaders /\ Formatted /\ SaveHolds /\ PlainSave
      /\ ForcedSave /\ flash \in [Sect -> Sector] /\ Loaded(Counts) >= floor
      /\ u \in Sect /\ o \in Sect /\ o # u /\ Other(o) = u
  BY CountFacts DEF CountKnown
<1>2. op.pc = "carry" /\ UNCHANGED <<ram, faults>>
  BY DEF Carry
<1>3. ~op.force /\ ram # Off /\ op.cnt = ram
  BY <1>1, <1>2 DEF ForcedSave, SaveHolds
<1>4. /\ Follows /\ ValidSect = {u} /\ op.upd /\ op.sect = o /\ op.old = u
      /\ op.seq = (CurrentSeq + 1) % 4 /\ op.last = Final(Counts)
      /\ Spare.flag = "IDLE" /\ Spare.cnt = <<>>
  BY <1>1, <1>2, <1>3 DEF PlainSave, Leaving
<1>5. /\ flash' = [flash EXCEPT ![o].cnt = <<op.last>>]
      /\ op' = [op EXCEPT !.pc = "count"] /\ floor' = floor
  BY <1>4 DEF Carry, Spare, Goto
<1> HIDE DEF u, o
<1>6. flash'[o].flag = flash[o].flag /\ flash'[o].cnt = <<op.last>> /\ flash'[u] = flash[u]
  BY <1>1, <1>5, SectorEffects
<1>7. flash'[o].flag = "IDLE"
  BY <1>4, <1>6 DEF o, Spare
<1>8. /\ op'.pc = "count" /\ op'.cnt = op.cnt /\ op'.force = op.force /\ op'.sect = op.sect
      /\ op'.old = op.old /\ op'.seq = op.seq /\ op'.upd = op.upd /\ op'.last = op.last
  BY <1>1, <1>5, SaveMoves
<1>9. /\ CountHeaders' /\ Formatted' /\ ValidSect' = {u}
      /\ CurrentSeq' = CurrentSeq /\ UsedSect' = u /\ Counts' = Counts
      /\ Spare' = flash'[o] /\ Kept'
  BY <1>1, <1>5, <1>6, <1>7, SpareStep DEF u, o
<1>10. Final(Counts)' = Final(Counts) /\ (Follows' <=> Follows)
  BY <1>2, <1>9, ReadsStay
<1>11. Other(UsedSect)' = o
  BY <1>9 DEF Other, o, u
<1>12. SaveHolds' /\ AtRest' /\ ForcedSave'
  BY <1>2, <1>3, <1>8 DEF SaveHolds, AtRest, ForcedSave
<1>13. PlainSave'
  BY <1>4, <1>6, <1>7, <1>8, <1>9, <1>10, <1>11 DEF PlainSave, Leaving
<1> QED BY <1>9, <1>12, <1>13, CountParts

\* A count, written into the sector in use: the counter follows it.
LEMMA NextCount ==
  ASSUME FrameCountAssumption, NEW c \in Seq(Nat), c # <<>>, NEW n \in Nat
  PROVE  /\ Implausible(Append(c, n)) => BackOff(Append(c, n)) = Final(c) + Thres
         /\ Final(c) <= n /\ n <= Final(c) + 2 * Thres => ~Implausible(Append(c, n))
         /\ Final(Append(c, n)) = n
         /\ \A f \in Nat : Final(c) >= f /\ n >= f => Loaded(Append(c, n)) >= f
<1> DEFINE d == Append(c, n)
<1>1. /\ Len(c) \in Nat /\ Len(c) >= 1 /\ Final(c) \in Nat /\ Thres \in Nat
      /\ Len(d) = Len(c) + 1 /\ d # <<>> /\ Final(d) = n /\ d[Len(c) + 1] = n
      /\ d[Len(c)] = Final(c)
  BY CountSeq, SaveBegins
<1> HIDE DEF d
<1>2. d[Len(d)] = n /\ d[Len(d) - 1] = Final(c)
  BY <1>1
<1>3. Implausible(d) => BackOff(d) = Final(c) + Thres
  BY <1>2 DEF BackOff
<1>4. Final(c) <= n /\ n <= Final(c) + 2 * Thres => ~Implausible(d)
  BY <1>1, <1>2 DEF Implausible
<1>5. Loaded(d) = IF Implausible(d) THEN BackOff(d) ELSE n
  BY <1>1 DEF Loaded
<1>6. \A f \in Nat : Final(c) >= f /\ n >= f => Loaded(d) >= f
  BY <1>1, <1>3, <1>5
<1> QED BY <1>1, <1>3, <1>4, <1>6 DEF d

\* In the sector in use, a count whole or half-programmed leaves what is read right.
LEMMA UsedStep ==
  ASSUME CountKnown, ValidSect = {UsedSect}, Follows, ram # Off, NEW n \in Nat, n >= ram,
         flash' = [flash EXCEPT ![UsedSect].cnt = Append(@, n)]
  PROVE  /\ CountHeaders' /\ Formatted' /\ CurrentSeq' = CurrentSeq
         /\ Counts' = Append(Counts, n)
         /\ floor' = floor => Kept'
         /\ n = ram /\ floor' = n => Kept'
         /\ n = ram /\ ram' = ram => Follows'
<1> DEFINE u == UsedSect
<1>1. /\ FrameCountAssumption /\ TypeOK' /\ TypeOK /\ CountHeaders /\ flash \in [Sect -> Sector]
      /\ u \in Sect /\ Counts \in Seq(Nat) /\ Counts # <<>> /\ Final(Counts) \in Nat
      /\ Loaded(Counts) >= floor /\ (~Implausible(Counts) => Loaded(Counts) = Final(Counts))
      /\ floor \in Nat /\ ram \in Nat /\ flash[u].flag = "VALID" /\ flash[u].seq = CurrentSeq
      /\ CurrentSeq % 2 = u /\ Thres \in Nat
  BY CountFacts DEF CountKnown
<1>2. flash' = [flash EXCEPT ![u].cnt = Append(Counts, n)]
  BY <1>1 DEF Counts, Sector
<1> HIDE DEF u
<1>3. /\ flash'[u].flag = "VALID" /\ flash'[u].cnt = Append(Counts, n)
      /\ flash'[u].seq = flash[u].seq /\ flash'[Other(u)] = flash[Other(u)]
  BY <1>1, <1>2, SectorEffects
<1>4. \A t \in Sect : t = u \/ t = Other(u)
  BY <1>1, SectorChanges
<1>5. ValidSect' = {u}
  <2>1. \A t \in Sect : flash'[t].flag = flash[t].flag
    BY <1>1, <1>3, <1>4
  <2>2. ValidSect' = ValidSect
    BY <2>1 DEF ValidSect
  <2> QED BY <2>2 DEF u
<1>6. Append(Counts, n) # <<>>
  BY <1>1, CountSeq
<1>7. CountHeaders'
  <2> SUFFICES ASSUME NEW s \in Sect, flash'[s].flag = "VALID"
               PROVE  flash'[s].seq % 2 = s /\ flash'[s].cnt # <<>>
    BY DEF CountHeaders
  <2>1. s = u
    BY <1>5 DEF ValidSect
  <2> QED BY <1>1, <1>3, <1>6, <2>1
<1>8. Formatted' /\ CurrentSeq' = CurrentSeq /\ UsedSect' = u
  BY <1>1, <1>3, <1>5, <1>7, UsedNext
<1>9. Counts' = Append(Counts, n)
  BY <1>3, <1>8 DEF Counts
<1>10. Kept' <=> Loaded(Counts') >= floor'
  BY <1>1, <1>7, <1>8, UsedNext
<1>11. /\ ~Implausible(Counts) /\ Final(Counts) <= ram /\ ram <= Final(Counts) + 2 * Thres
       /\ Final(Counts) >= floor
  BY <1>1 DEF Follows
<1>12. /\ Final(Counts) <= n /\ n <= Final(Counts) + 2 * Thres => ~Implausible(Append(Counts, n))
       /\ Final(Append(Counts, n)) = n
       /\ \A f \in Nat : Final(Counts) >= f /\ n >= f => Loaded(Append(Counts, n)) >= f
  BY <1>1, NextCount
<1>13. floor' = floor => Kept'
  BY <1>1, <1>9, <1>10, <1>11, <1>12
<1>14. n = ram => ~Implausible(Append(Counts, n)) /\ Loaded(Append(Counts, n)) = n
  BY <1>6, <1>11, <1>12 DEF Loaded
<1>15. n = ram /\ floor' = n => Kept'
  BY <1>9, <1>10, <1>14
<1>16. n = ram /\ ram' = ram => Follows'
  <2> SUFFICES ASSUME n = ram, ram' = ram PROVE Follows'
    OBVIOUS
  <2>1. (Implausible(Counts))' <=> Implausible(Append(Counts, n))
    BY <1>9 DEF Implausible
  <2>2. Final(Counts)' = n
    BY <1>9, <1>12 DEF Final
  <2> QED BY <1>1, <1>14, <2>1, <2>2 DEF Follows
<1> QED BY <1>7, <1>8, <1>9, <1>13, <1>15, <1>16 DEF u

\* Writing the count.
LEMMA WriteCountGoes ==
  ASSUME CountKnown, WriteCount
  PROVE  CountGoes
<1> DEFINE u == UsedSect
           o == Other(UsedSect)
<1>1. /\ CountTyped /\ TypeOK' /\ TypeOK /\ CountHeaders /\ Formatted /\ SaveHolds /\ PlainSave
      /\ ForcedSave /\ flash \in [Sect -> Sector] /\ Loaded(Counts) >= floor
      /\ u \in Sect /\ o \in Sect /\ o # u /\ Other(o) = u /\ Counts # <<>>
      /\ op.cnt \in Nat
  BY CountFacts, TypedParts DEF CountKnown
<1>2. /\ op.pc = "count" /\ UNCHANGED <<ram, faults>> /\ AfterCount
      /\ flash' = [flash EXCEPT ![op.sect].cnt = Append(@, op.cnt)]
  BY DEF WriteCount
<1>3. ram # Off /\ op.cnt = ram
  BY <1>1, <1>2 DEF SaveHolds
<1>4. CASE ~op.force /\ ~op.upd
  <2>1. Follows /\ ValidSect = {u} /\ op.sect = u
    BY <1>1, <1>2, <1>4 DEF PlainSave
  <2>2. op' = Idle /\ floor' = op.cnt
    BY <1>1, <1>2, <1>4, <2>1 DEF AfterCount, Counts, Done
  <2>3. /\ CountHeaders' /\ Formatted' /\ CurrentSeq' = CurrentSeq
        /\ Kept' /\ Follows'
    <3>1. flash' = [flash EXCEPT ![UsedSect].cnt = Append(@, op.cnt)]
      BY <1>2, <2>1
    <3>2. op.cnt >= ram
      BY <1>1, <1>3
    <3>3. /\ CountHeaders' /\ Formatted' /\ CurrentSeq' = CurrentSeq
          /\ Counts' = Append(Counts, op.cnt)
          /\ floor' = floor => Kept'
          /\ op.cnt = ram /\ floor' = op.cnt => Kept'
          /\ op.cnt = ram /\ ram' = ram => Follows'
      BY <1>1, <1>3, <2>1, <3>1, <3>2, UsedStep
    <3> QED BY <1>2, <1>3, <2>2, <3>3
  <2>4. op'.pc = "idle"
    BY <1>1, <2>2, SaveMoves
  <2>5. SaveHolds' /\ AtRest' /\ PlainSave' /\ ForcedSave'
    BY <2>3, <2>4 DEF SaveHolds, AtRest, PlainSave, ForcedSave
  <2> QED BY <2>3, <2>5, CountParts
<1>5. CASE op.force \/ op.upd
  <2>1. /\ ValidSect = {u} /\ op.sect = o /\ op.seq = (CurrentSeq + 1) % 4
        /\ Spare.flag = "IDLE"
        /\ op.force => /\ ~op.upd /\ Spare.cnt = <<>> /\ Implausible(Counts)
                       /\ op.cnt = BackOff(Counts) /\ op.err = u
        /\ ~op.force => /\ op.upd /\ Spare.cnt = <<op.last>> /\ op.old = u
                        /\ op.last = Final(Counts) /\ Follows
    <3>1. CASE op.force
      BY <1>1, <1>2, <3>1 DEF ForcedSave
    <3>2. CASE ~op.force
      BY <1>1, <1>2, <1>5, <3>2 DEF PlainSave, Leaving
    <3> QED BY <3>1, <3>2
  <2>2. op' = [op EXCEPT !.pc = "hdr"] /\ floor' = floor
    BY <1>1, <1>2, <1>5, <2>1 DEF AfterCount, Goto, Spare
  <2>3. /\ op'.pc = "hdr" /\ op'.cnt = op.cnt /\ op'.force = op.force /\ op'.err = op.err
        /\ op'.sect = op.sect /\ op'.old = op.old /\ op'.seq = op.seq /\ op'.upd = op.upd
        /\ op'.last = op.last
    BY <1>1, <2>2, SaveMoves
  <2>4. flash' = [flash EXCEPT ![o].cnt = Append(flash[o].cnt, op.cnt)]
    BY <1>1, <1>2, <2>1 DEF Sector
  <2>5. flash[o].flag = "IDLE"
    BY <2>1 DEF Spare
  <2> HIDE DEF u, o
  <2>6. /\ flash'[o].flag = "IDLE" /\ flash'[o].cnt = Append(flash[o].cnt, op.cnt)
        /\ flash'[u] = flash[u]
    BY <1>1, <2>4, <2>5, SectorEffects
  <2>7. /\ CountHeaders' /\ Formatted' /\ ValidSect' = {u}
        /\ CurrentSeq' = CurrentSeq /\ UsedSect' = u /\ Counts' = Counts
        /\ Spare' = flash'[o] /\ Kept'
    BY <1>1, <2>2, <2>6, SpareStep DEF u, o
  <2>8. /\ (Implausible(Counts))' <=> Implausible(Counts)
        /\ Final(Counts)' = Final(Counts) /\ BackOff(Counts)' = BackOff(Counts)
        /\ Follows' <=> Follows
    BY <1>2, <2>7, ReadsStay
  <2>9. Other(UsedSect)' = o
    BY <2>7 DEF Other, o, u
  <2>10. SaveHolds' /\ AtRest'
    BY <1>2, <1>3, <2>3 DEF SaveHolds, AtRest
  <2>11. CASE op.force
    <3>1. Spare'.cnt = <<op.cnt>>
      BY <1>1, <2>1, <2>6, <2>7, <2>11 DEF Spare, o
    <3>2. PlainSave'
      BY <2>3, <2>11 DEF PlainSave
    <3>3. ForcedSave'
      BY <2>1, <2>3, <2>6, <2>7, <2>8, <2>9, <2>11, <3>1 DEF ForcedSave, u, o
    <3> QED BY <2>7, <2>10, <3>2, <3>3, CountParts
  <2>12. CASE ~op.force
    <3>1. Spare'.cnt = <<op.last, op.cnt>>
      <4>1. flash[o].cnt = <<op.last>>
        BY <2>1, <2>12 DEF Spare, o
      <4> QED BY <1>1, <2>6, <2>7, <4>1
    <3>2. ForcedSave'
      BY <2>3, <2>12 DEF ForcedSave
    <3>3. PlainSave'
      BY <2>1, <2>3, <2>6, <2>7, <2>8, <2>9, <2>12, <3>1 DEF PlainSave, Leaving, u, o
    <3> QED BY <2>7, <2>10, <3>2, <3>3, CountParts
  <2> QED BY <2>11, <2>12
<1> QED BY <1>1, <1>4, <1>5, SaveMoves

\* The header of the new sector takes over.
LEMMA WriteHdrGoes ==
  ASSUME CountKnown, WriteHdr
  PROVE  CountGoes
<1> DEFINE u == UsedSect
           o == Other(UsedSect)
<1>1. /\ FrameCountAssumption /\ TypeOK' /\ TypeOK /\ CountHeaders /\ Formatted /\ SaveHolds
      /\ PlainSave /\ ForcedSave /\ flash \in [Sect -> Sector] /\ Loaded(Counts) >= floor
      /\ u \in Sect /\ o \in Sect /\ o # u /\ Other(o) = u /\ CurrentSeq \in 0..3
      /\ CurrentSeq % 2 = u /\ op.cnt \in Nat /\ op.last \in Nat /\ floor \in Nat
      /\ flash[u].flag = "VALID" /\ flash[u].seq = CurrentSeq
      /\ (~Implausible(Counts) => Loaded(Counts) = Final(Counts)) /\ Final(Counts) \in Nat
      /\ (Implausible(Counts) => Loaded(Counts) = BackOff(Counts))
  BY CountFacts, TypedParts DEF CountKnown
<1>2. op.pc = "hdr" /\ UNCHANGED <<ram, faults>>
  BY DEF WriteHdr
<1>3. ram # Off /\ op.cnt = ram
  BY <1>1, <1>2 DEF SaveHolds
<1>4. /\ ValidSect = {u} /\ op.sect = o /\ op.seq = (CurrentSeq + 1) % 4
      /\ Spare.flag = "IDLE"
      /\ op.force => /\ ~op.upd /\ Spare.cnt = <<op.cnt>> /\ Implausible(Counts)
                     /\ op.cnt = BackOff(Counts) /\ op.err = u
      /\ ~op.force => /\ op.upd /\ Spare.cnt = <<op.last, op.cnt>> /\ op.old = u /\ Follows
  <2>1. CASE op.force
    BY <1>1, <1>2, <2>1 DEF ForcedSave
  <2>2. CASE ~op.force
    BY <1>1, <1>2, <2>2 DEF PlainSave, Leaving
  <2> QED BY <2>1, <2>2
<1>5. /\ flash' = [flash EXCEPT ![o].flag = "VALID", ![o].seq = op.seq]
      /\ op' = [op EXCEPT !.pc = "oldhdr"] /\ floor' = floor
  BY <1>4 DEF WriteHdr, Spare, Goto
<1>6. /\ op'.pc = "oldhdr" /\ op'.cnt = op.cnt /\ op'.force = op.force /\ op'.err = op.err
      /\ op'.old = op.old /\ op'.upd = op.upd
  BY <1>1, <1>5, SaveMoves
<1>7. flash[o].cnt = Spare.cnt
  BY DEF Spare
<1> HIDE DEF u, o
<1>8. /\ flash'[o].flag = "VALID" /\ flash'[o].seq = op.seq /\ flash'[o].cnt = flash[o].cnt
      /\ flash'[u] = flash[u]
  BY <1>1, <1>5, SectorEffects
<1>9. \A t \in Sect : t = o \/ t = u
  BY <1>1, SectorChanges
<1>10. op.seq % 2 = o /\ o \in {0, 1} /\ u \in {0, 1}
  BY <1>1, <1>4 DEF Sect
<1>a. /\ <<op.cnt>> # <<>> /\ Len(<<op.cnt>>) = 1 /\ Final(<<op.cnt>>) = op.cnt
      /\ <<op.last, op.cnt>> # <<>> /\ Len(<<op.last, op.cnt>>) = 2
      /\ Final(<<op.last, op.cnt>>) = op.cnt
      /\ Loaded(<<op.cnt>>) = op.cnt /\ Loaded(<<op.last, op.cnt>>) = op.cnt
  <2> SUFFICES ASSUME NEW a \in Nat, NEW b \in Nat
               PROVE  /\ <<a>> # <<>> /\ Len(<<a>>) = 1 /\ Final(<<a>>) = a
                      /\ <<b, a>> # <<>> /\ Len(<<b, a>>) = 2 /\ Final(<<b, a>>) = a
                      /\ Loaded(<<a>>) = a /\ Loaded(<<b, a>>) = a
    BY <1>1
  <2>1. <<a>> \in Seq(Nat) /\ Len(<<a>>) = 1 /\ <<b, a>> \in Seq(Nat) /\ Len(<<b, a>>) = 2
    OBVIOUS
  <2>2. <<a>>[1] = a /\ <<b, a>>[2] = a
    OBVIOUS
  <2>3. ~Implausible(<<a>>) /\ ~Implausible(<<b, a>>)
    BY <2>1 DEF Implausible
  <2>4. <<a>> # <<>> /\ <<b, a>> # <<>> /\ Final(<<a>>) = a /\ Final(<<b, a>>) = a
    BY <2>1, <2>2, EmptySeq DEF Final
  <2> QED BY <2>1, <2>3, <2>4 DEF Loaded
<1>b. Spare.cnt = IF op.force THEN <<op.cnt>> ELSE <<op.last, op.cnt>>
  BY <1>4
<1>11. flash[o].cnt # <<>>
  BY <1>a, <1>b, <1>7
<1>12. CountHeaders'
  <2> SUFFICES ASSUME NEW s \in Sect, flash'[s].flag = "VALID"
               PROVE  flash'[s].seq % 2 = s /\ flash'[s].cnt # <<>>
    BY DEF CountHeaders
  <2> QED BY <1>1, <1>8, <1>9, <1>10, <1>11 DEF CountHeaders
<1>13. ValidSect' = Sect
  <2>1. ValidSect' \subseteq Sect
    BY DEF ValidSect
  <2>2. o \in ValidSect' /\ u \in ValidSect'
    BY <1>1, <1>8 DEF ValidSect
  <2> QED BY <1>9, <2>1, <2>2
<1>14. flash'[o].seq = (flash'[Other(o)].seq + 1) % 4
  BY <1>1, <1>4, <1>8
<1>15. Formatted' /\ CurrentSeq' = (CurrentSeq + 1) % 4 /\ UsedSect' = o
  BY <1>1, <1>4, <1>8, <1>12, <1>13, <1>14, UsedNext
<1>16. Counts' = Spare.cnt /\ Other(UsedSect)' = u
  BY <1>1, <1>7, <1>8, <1>15 DEF Counts, Other
<1>17. (Kept' <=> Loaded(Counts') >= floor')
  BY <1>1, <1>12, <1>15, UsedNext
<1>18. /\ op.force => Len(Counts') = 1 /\ Final(Counts') = op.cnt
       /\ ~op.force => Len(Counts') = 2 /\ Final(Counts') = op.cnt
  BY <1>a, <1>b, <1>16
<1>19. Loaded(Counts') = op.cnt
  BY <1>a, <1>b, <1>16
<1>20. op.cnt >= floor
  BY <1>1, <1>3, <1>4 DEF Follows
<1>21. Kept'
  BY <1>5, <1>17, <1>19, <1>20
<1>22. Len(Counts)' = Len(Counts') /\ Final(Counts)' = Final(Counts')
  BY DEF Final
<1>23. SaveHolds' /\ AtRest'
  BY <1>2, <1>3, <1>6 DEF SaveHolds, AtRest
<1>24. PlainSave'
  BY <1>4, <1>6, <1>16, <1>18, <1>22 DEF PlainSave, Leaving
<1>25. ForcedSave'
  BY <1>4, <1>6, <1>16, <1>18, <1>22 DEF ForcedSave
<1> QED BY <1>12, <1>15, <1>21, <1>23, <1>24, <1>25, CountParts

\* The header it replaces goes last.
LEMMA InvalidateGoes ==
  ASSUME CountKnown, InvalidateOldHdr
  PROVE  CountGoes
<1> DEFINE u == UsedSect
           o == Other(UsedSect)
<1>1. /\ CountTyped /\ TypeOK' /\ TypeOK /\ CountHeaders /\ Formatted /\ SaveHolds
      /\ PlainSave /\ ForcedSave /\ flash \in [Sect -> Sector] /\ Loaded(Counts) >= floor
      /\ u \in Sect /\ o \in Sect /\ o # u /\ Other(o) = u /\ NoSect \notin Sect
      /\ Counts # <<>> /\ op.cnt \in Nat /\ Thres \in Nat
  BY CountFacts, TypedParts DEF CountKnown
<1>2. op.pc = "oldhdr" /\ UNCHANGED <<ram, faults>> /\ op' = Idle /\ floor' = op.cnt
  BY DEF InvalidateOldHdr, Done
<1>3. ram # Off /\ op.cnt = ram
  BY <1>1, <1>2 DEF SaveHolds
<1>4. /\ Final(Counts) = op.cnt /\ ~Implausible(Counts)
      /\ flash' = SetFlag(o, "INVALID")
  <2>1. CASE op.force
    <3>1. op.err = o /\ Len(Counts) = 1 /\ Final(Counts) = op.cnt
      BY <1>1, <1>2, <2>1 DEF ForcedSave
    <3> QED BY <1>1, <2>1, <3>1 DEF InvalidateOldHdr, Implausible
  <2>2. CASE ~op.force
    <3>1. op.old = o /\ Len(Counts) = 2 /\ Final(Counts) = op.cnt
      BY <1>1, <1>2, <2>2 DEF PlainSave
    <3> QED BY <1>1, <2>2, <3>1 DEF InvalidateOldHdr, Implausible
  <2> QED BY <2>1, <2>2
<1>5. Loaded(Counts) = op.cnt
  BY <1>1, <1>4 DEF Loaded
<1> HIDE DEF u, o
<1>6. flash'[o].flag = "INVALID" /\ flash'[u] = flash[u]
  <2>1. flash' = SetFlag(o, "INVALID") /\ o \in Sect /\ flash \in [Sect -> Sector]
    BY <1>1, <1>4
  <2>2. flash'[o].flag = "INVALID" /\ flash'[Other(o)] = flash[Other(o)]
    BY <2>1, SectorEffects
  <2> QED BY <1>1, <2>2
<1>7. /\ CountHeaders' /\ Formatted' /\ CurrentSeq' = CurrentSeq /\ Counts' = Counts
      /\ Kept'
  BY <1>1, <1>2, <1>5, <1>6, SpareStep DEF u, o
<1>8. Follows
  BY <1>1, <1>3, <1>4 DEF Follows
<1>9. Follows'
  BY <1>2, <1>7, <1>8, ReadsStay
<1>10. op'.pc = "idle"
  BY <1>1, <1>2, SaveMoves
<1>11. SaveHolds' /\ AtRest' /\ PlainSave' /\ ForcedSave'
  BY <1>9, <1>10 DEF SaveHolds, AtRest, PlainSave, ForcedSave
<1> QED BY <1>7, <1>11, CountParts

\* Power loss leaves what is read at a count not below the last one saved.
LEMMA CrashCountGoes ==
  ASSUME CountKnown, Crash
  PROVE  CountGoes
<1> DEFINE u == UsedSect
           o == Other(UsedSect)
<1>1. /\ CountTyped /\ TypeOK' /\ TypeOK /\ CountHeaders /\ Formatted /\ SaveHolds
      /\ PlainSave /\ ForcedSave /\ flash \in [Sect -> Sector] /\ Loaded(Counts) >= floor
      /\ u \in Sect /\ o \in Sect /\ o # u /\ Other(o) = u /\ Kept
      /\ op.cnt \in Nat /\ op.last \in Nat /\ op.upd \in BOOLEAN /\ op.force \in BOOLEAN
  BY CountFacts, TypedParts, SaveMoves DEF CountKnown, CountInv
<1>2. ram # Off /\ ram' = Off /\ op'.pc = "idle" /\ floor' = floor
  BY <1>1, SaveMoves DEF Crash
<1>3. ASSUME CountHeaders', Formatted', CurrentSeq' = CurrentSeq, Kept'
      PROVE  CountGoes
  <2>1. SaveHolds' /\ AtRest' /\ PlainSave' /\ ForcedSave'
    BY <1>2 DEF SaveHolds, AtRest, PlainSave, ForcedSave
  <2> QED BY <1>3, <2>1, CountParts
<1>4. CASE UNCHANGED flash
  <2>1. CountHeaders' /\ Formatted' /\ CurrentSeq' = CurrentSeq /\ Kept'
    BY <1>1, <1>2, <1>4, StillStep
  <2> QED BY <1>3, <2>1
<1>5. ASSUME flash'[o].flag # "VALID", flash'[u] = flash[u] PROVE CountGoes
  <2>1. CountHeaders' /\ Formatted' /\ CurrentSeq' = CurrentSeq /\ Kept'
    BY <1>1, <1>2, <1>5, SpareStep
  <2> QED BY <1>3, <2>1
<1>6. CASE Torn
  <2>1. CASE op.pc = "carry" /\ \E t \in (op.last + 1)..MaxTorn : flash' = [flash EXCEPT ![op.sect].cnt = <<t>>]
    <3>1. ~op.force
      BY <1>1, <2>1 DEF ForcedSave
    <3>2. op.sect = o /\ flash[o].flag = "IDLE"
      BY <1>1, <2>1, <3>1 DEF PlainSave, Leaving, Spare
    <3>3. PICK t : flash' = [flash EXCEPT ![o].cnt = <<t>>]
      BY <2>1, <3>2
    <3> HIDE DEF u, o
    <3>4. flash'[o].flag = flash[o].flag /\ flash'[u] = flash[u]
      BY <1>1, <3>3, SectorEffects
    <3> QED BY <1>5, <3>2, <3>4
  <2>2. CASE op.pc = "count" /\ \E t \in (op.cnt + 1)..MaxTorn : flash' = [flash EXCEPT ![op.sect].cnt = Append(@, t)]
    <3>1. PICK t \in (op.cnt + 1)..MaxTorn : flash' = [flash EXCEPT ![op.sect].cnt = Append(@, t)]
      BY <2>2
    <3>2. CASE op.force \/ op.upd
      <4>1. op.sect = o /\ flash[o].flag = "IDLE"
        <5>1. CASE op.force
          BY <1>1, <2>2, <5>1 DEF ForcedSave, Spare
        <5>2. CASE ~op.force
          BY <1>1, <2>2, <3>2, <5>2 DEF PlainSave, Leaving, Spare
        <5> QED BY <5>1, <5>2
      <4>2. flash' = [flash EXCEPT ![o].cnt = Append(flash[o].cnt, t)]
        BY <1>1, <3>1, <4>1 DEF Sector
      <4> HIDE DEF u, o
      <4>3. flash'[o].flag = flash[o].flag /\ flash'[u] = flash[u]
        BY <1>1, <4>2, SectorEffects
      <4> QED BY <1>5, <4>1, <4>3
    <3>3. CASE ~op.force /\ ~op.upd
      <4>1. Follows /\ ValidSect = {u} /\ op.sect = u
        BY <1>1, <2>2, <3>3 DEF PlainSave
      <4>2. flash' = [flash EXCEPT ![UsedSect].cnt = Append(@, t)]
        BY <3>1, <4>1
      <4>3. op.cnt = ram
        BY <1>1, <2>2 DEF SaveHolds
      <4>4. MaxTorn \in Nat
        BY <1>1, SaveBegins DEF MaxTorn, CountTyped
      <4>5. t \in Nat /\ t >= ram
        BY <1>1, <3>1, <4>3, <4>4
      <4>6. /\ CountHeaders' /\ Formatted' /\ CurrentSeq' = CurrentSeq
            /\ Counts' = Append(Counts, t)
            /\ floor' = floor => Kept'
            /\ t = ram /\ floor' = t => Kept'
            /\ t = ram /\ ram' = ram => Follows'
        BY <1>2, <4>1, <4>2, <4>5, UsedStep
      <4> QED BY <1>2, <1>3, <4>6
    <3> QED BY <1>1, <3>2, <3>3
  <2>3. CASE op.pc = "hdr" /\ flash' = SetFlag(op.sect, "TORN")
    <3>1. op.sect = o
      <4>1. CASE op.force
        BY <1>1, <2>3, <4>1 DEF ForcedSave
      <4>2. CASE ~op.force
        BY <1>1, <2>3, <4>2 DEF PlainSave, Leaving
      <4> QED BY <4>1, <4>2
    <3>2. flash' = SetFlag(o, "TORN")
      BY <2>3, <3>1
    <3> HIDE DEF u, o
    <3>3. flash'[o].flag = "TORN" /\ flash'[u] = flash[u]
      <4>1. flash' = SetFlag(o, "TORN") /\ o \in Sect /\ flash \in [Sect -> Sector]
        BY <1>1, <3>2
      <4>2. flash'[o].flag = "TORN" /\ flash'[Other(o)] = flash[Other(o)]
        BY <4>1, SectorEffects
      <4> QED BY <1>1, <4>2
    <3> QED BY <1>5, <3>3
  <2> QED BY <1>6, <2>1, <2>2, <2>3 DEF Torn
<1> QED BY <1>4, <1>6 DEF Crash

\* So every step keeps the invariant.
LEMMA UsedGoes ==
  ASSUME CountKnown, Next
  PROVE  CountGoes
<1>1. ~RefusedWrite
  BY CountFacts DEF RefusedWrite
<1> QED
  BY <1>1, RestGoes, PrepareGoes, SearchGoes, CarryGoes, WriteCountGoes, WriteHdrGoes,
     InvalidateGoes, CrashCountGoes DEF Next, Step
\* Nothing was saved before the first header.
LEMMA NothingSaved ==
  FrameCountAssumption /\ TypeOK /\ floor = 0 => Kept
<1> SUFFICES ASSUME FrameCountAssumption, TypeOK, floor = 0, NEW q \in SectorRead
             PROVE  Loaded(flash[q % 2].cnt) >= floor
  BY DEF Kept
<1>1. q % 2 \in Sect
  BY NumberType
<1>2. flash[q % 2].cnt \in Seq(Nat)
  BY <1>1, SectorChanges DEF TypeOK
<1>3. Loaded(flash[q % 2].cnt) \in Nat
  BY <1>2, CountSeq
<1> QED BY <1>3

\* A step that leaves the flash without a header.
LEMMA FreshStays ==
  ASSUME FrameCountAssumption, TypeOK', ~Formatted', floor' = 0, SaveHolds', CountFresh'
  PROVE  CountInv'
<1>1. (FrameCountAssumption /\ TypeOK /\ floor = 0 => Kept)'
  BY NothingSaved, PTL
<1>2. Kept'
  BY <1>1
<1>3. CountHeaders'
  BY DEF CountHeaders, Formatted, ValidSect
<1> QED BY <1>2, <1>3 DEF CountInv

\* The counts that a first save leaves.
LEMMA FirstCount ==
  ASSUME FrameCountAssumption, NEW n \in Nat
  PROVE  /\ Loaded(<<>>) = 0 /\ Append(<<>>, n) = <<n>> /\ Len(<<>>) = 0 /\ Len(<<>>) # CntNum
         /\ <<n>> # <<>> /\ <<n>> \in Seq(Nat) /\ Final(<<n>>) = n /\ ~Implausible(<<n>>)
         /\ Loaded(<<n>>) = n
<1>1. Len(<<>>) = 0 /\ ~Implausible(<<>>) /\ Append(<<>>, n) = <<n>> /\ <<>> \in Seq(Nat)
  BY EmptySeq DEF Implausible
<1>2. Len(<<>>) # CntNum
  BY <1>1, SaveBegins
<1>3. <<n>> \in Seq(Nat) /\ Len(<<n>>) = 1 /\ <<n>>[1] = n
  OBVIOUS
<1>4. <<n>> # <<>> /\ Final(<<n>>) = n /\ ~Implausible(<<n>>)
  BY <1>1, <1>3 DEF Final, Implausible
<1> QED BY <1>1, <1>2, <1>3, <1>4 DEF Loaded

\* A step before the first header.
LEMMA FreshStep ==
  ASSUME CountTyped, TypeOK', Calm, CountInv, ~Formatted, Next
  PROVE  CountInv'
<1>1. /\ FrameCountAssumption /\ TypeOK /\ flash \in [Sect -> Sector]
      /\ floor = 0 /\ ~op.force /\ ~op.upd
      /\ op.pc \in {"idle", "sector", "search", "count", "hdr"}
      /\ op.cnt \in Nat /\ op.sect \in Sect /\ op.seq \in 0..3
      /\ (op.pc # "idle" => ram # Off /\ op.cnt = ram)
      /\ (ram # Off => ram <= MaxGap /\ ram \in Nat)
      /\ (op.pc \in {"search", "count", "hdr"} => op.seq % 2 = op.sect)
      /\ (op.pc = "hdr" => flash[op.sect].cnt = <<op.cnt>>)
      /\ Off \notin Nat /\ MaxGap \in Nat
  BY TypedParts, SaveBegins DEF CountTyped, CountInv, CountFresh, SaveHolds, TypeOK
<1>2. \A s \in Sect : flash[s].flag = "IDLE"
  BY DEF CountInv, CountFresh
<1>3. op.pc # "hdr" => \A s \in Sect : flash[s].cnt = <<>>
  BY DEF CountInv, CountFresh
<1>4. \A f : ~CanFail(f)
  BY DEF Calm, CanFail
<1>5. ASSUME flash' = flash, floor' = floor, op.pc # "hdr",
             ~op'.force, ~op'.upd, op'.pc \in {"idle", "sector", "search", "count"},
             op'.pc \in {"search", "count"} => op'.seq % 2 = op'.sect,
             op'.pc # "idle" => ram' # Off /\ op'.cnt = ram',
             ram' # Off => ram' <= MaxGap
      PROVE  CountInv'
  <2>1. ~Formatted'
    BY <1>5, StillStep
  <2>2. SaveHolds'
    BY <1>5 DEF SaveHolds
  <2>3. CountFresh'
    BY <1>1, <1>2, <1>3, <1>5 DEF CountFresh
  <2> QED BY <1>1, <1>5, <2>1, <2>2, <2>3, FreshStays
<1>6. CASE Load
  <2>1. PICK q \in SectorRead :
          LET c == flash[q % 2].cnt
          IN /\ ram' = Loaded(c)
             /\ op' = IF Implausible(c)
                        THEN [Idle EXCEPT !.pc = "sector", !.cnt = BackOff(c),
                                          !.force = TRUE, !.err = q % 2]
                        ELSE Idle
    BY <1>6 DEF Load
  <2>2. q % 2 \in Sect
    BY <1>1, NumberType
  <2>3. op.pc = "idle" /\ flash' = flash /\ floor' = floor
    BY <1>6 DEF Load
  <2>4. flash[q % 2].cnt = <<>>
    BY <1>3, <2>2, <2>3
  <2>5. ~Implausible(<<>>) /\ Loaded(<<>>) = 0
    BY <1>1, EmptySeq DEF Implausible, Loaded
  <2>6. ram' = 0 /\ op' = Idle
    BY <2>1, <2>4, <2>5
  <2>7. op'.pc = "idle" /\ ~op'.force /\ ~op'.upd
    BY <2>6 DEF Idle
  <2> QED BY <1>1, <1>5, <2>3, <2>6, <2>7
<1>7. CASE Count
  <2>1. /\ op.pc = "idle" /\ ram \in Nat /\ ram' = ram + 1 /\ ram < floor + MaxGap
        /\ op' = op /\ flash' = flash /\ floor' = floor
    BY <1>1, <1>7 DEF Count
  <2> QED BY <1>1, <1>5, <2>1
<1>8. CASE Save
  <2>1. /\ op.pc = "idle" /\ ram # Off /\ ram' = ram /\ flash' = flash /\ floor' = floor
        /\ op' = [Idle EXCEPT !.pc = "sector", !.cnt = ram]
    BY <1>8 DEF Save
  <2>2. op'.pc = "sector" /\ op'.cnt = ram /\ ~op'.force /\ ~op'.upd
    BY <1>1, <2>1, SaveMoves
  <2> QED BY <1>1, <1>5, <2>1, <2>2
<1>9. CASE SectorReadForWrite
  <2>1. PICK q \in SectorRead : op' = [op EXCEPT !.pc = "search", !.sect = q % 2, !.seq = q]
    BY <1>1, <1>9 DEF SectorReadForWrite
  <2>2. op.pc = "sector" /\ flash' = flash /\ floor' = floor /\ ram' = ram
    BY <1>9 DEF SectorReadForWrite
  <2>3. /\ op'.pc = "search" /\ op'.cnt = op.cnt /\ op'.force = op.force /\ op'.upd = op.upd
        /\ op'.sect = q % 2 /\ op'.seq = q
    <3>1. op \in OpType
      BY <1>1, TypedParts
    <3> QED BY <2>1, <3>1 DEF OpType
  <2> QED BY <1>1, <1>5, <2>2, <2>3
<1>10. CASE Search
  <2>1. op.pc = "search" /\ flash' = flash /\ floor' = floor /\ ram' = ram
    BY <1>10 DEF Search
  <2>2. Len(flash[op.sect].cnt) # CntNum
    BY <1>1, <1>3, <2>1, FirstCount
  <2>3. op' = [op EXCEPT !.pc = "count", !.old = op.sect]
    BY <1>10, <2>2 DEF Search
  <2>4. /\ op'.pc = "count" /\ op'.cnt = op.cnt /\ op'.force = op.force /\ op'.upd = op.upd
        /\ op'.sect = op.sect /\ op'.seq = op.seq
    BY <1>1, <2>3, SaveMoves
  <2> QED BY <1>1, <1>5, <2>1, <2>4
<1>11. CASE WriteCount
  <2>1. /\ op.pc = "count" /\ ram' = ram /\ AfterCount
        /\ flash' = [flash EXCEPT ![op.sect].cnt = Append(flash[op.sect].cnt, op.cnt)]
    BY <1>1, <1>11 DEF WriteCount, Sector
  <2>2. flash[op.sect].cnt = <<>>
    BY <1>1, <1>3, <2>1
  <2>3. flash' = [flash EXCEPT ![op.sect].cnt = <<op.cnt>>]
    BY <1>1, <2>1, <2>2, FirstCount
  <2>4. op' = [op EXCEPT !.pc = "hdr"] /\ floor' = floor
    BY <2>1, <2>2 DEF AfterCount, Goto
  <2>5. /\ op'.pc = "hdr" /\ op'.cnt = op.cnt /\ op'.force = op.force /\ op'.upd = op.upd
        /\ op'.sect = op.sect /\ op'.seq = op.seq
    BY <1>1, <2>4, SaveMoves
  <2> DEFINE s == op.sect
  <2>6. /\ flash \in [Sect -> Sector] /\ s \in Sect
        /\ flash' = [flash EXCEPT ![s].cnt = <<op.cnt>>]
    BY <1>1, <2>3
  <2>s. op'.sect = s
    BY <2>5
  <2>h. \A t \in Sect : t = s \/ t = Other(s)
    BY <1>1, <2>6, SectorChanges
  <2>i. flash[s].flag = "IDLE" /\ flash[Other(s)].flag = "IDLE"
    BY <1>1, <1>2, <2>6, SectorChanges
  <2> HIDE DEF s
  <2>7. /\ flash'[s].flag = flash[s].flag /\ flash'[s].cnt = <<op.cnt>>
        /\ flash'[Other(s)] = flash[Other(s)]
    BY <2>6, SectorEffects
  <2>8. \A t \in Sect : flash'[t].flag = "IDLE"
    BY <2>h, <2>i, <2>7
  <2>9. ~Formatted'
    BY <2>8 DEF Formatted, ValidSect
  <2>10. SaveHolds'
    BY <1>1, <2>1, <2>5 DEF SaveHolds
  <2>11. CountFresh'
    BY <1>1, <2>1, <2>4, <2>5, <2>s, <2>7, <2>8 DEF CountFresh
  <2> QED BY <1>1, <2>4, <2>9, <2>10, <2>11, FreshStays
<1>12. CASE WriteHdr
  <2> DEFINE s == op.sect
             n == op.cnt
  <2>1. /\ op.pc = "hdr" /\ ram' = ram /\ ram = n /\ ram # Off /\ s \in Sect /\ n \in Nat
        /\ op.seq % 2 = s /\ flash[s].cnt = <<n>>
    BY <1>1, <1>12 DEF WriteHdr
  <2>2. flash[s].flag = "IDLE"
    BY <1>2, <2>1
  <2>3. flash' = [flash EXCEPT ![s].flag = "VALID", ![s].seq = op.seq]
    BY <1>12, <2>2 DEF WriteHdr
  <2>4. op' = Idle /\ floor' = n
    BY <1>1, <1>12, <2>2 DEF WriteHdr, Done
  <2>h. (\A t \in Sect : t = s \/ t = Other(s)) /\ Other(s) \in Sect /\ Other(s) # s
    BY <1>1, <2>1, SectorChanges
  <2>i. flash[Other(s)].flag = "IDLE"
    BY <1>2, <2>h
  <2> HIDE DEF s, n
  <2>5. /\ flash'[s].flag = "VALID" /\ flash'[s].seq = op.seq /\ flash'[s].cnt = flash[s].cnt
        /\ flash'[Other(s)] = flash[Other(s)]
    <3>1. /\ flash \in [Sect -> Sector] /\ s \in Sect
          /\ flash' = [flash EXCEPT ![s].flag = "VALID", ![s].seq = op.seq]
      BY <1>1, <2>1, <2>3
    <3> QED BY <3>1, SectorEffects
  <2>6. CountHeaders'
    <3> SUFFICES ASSUME NEW t \in Sect, flash'[t].flag = "VALID"
                 PROVE  flash'[t].seq % 2 = t /\ flash'[t].cnt # <<>>
      BY DEF CountHeaders
    <3>1. t = s
      BY <2>h, <2>i, <2>5
    <3>2. <<n>> # <<>>
      BY <1>1, <2>1, FirstCount
    <3> QED BY <2>1, <2>5, <3>1, <3>2
  <2>7. ValidSect' = {s}
    <3>1. ValidSect' \subseteq Sect
      BY DEF ValidSect
    <3>2. s \in ValidSect' /\ Other(s) \notin ValidSect'
      BY <2>1, <2>i, <2>5 DEF ValidSect
    <3> QED BY <2>h, <3>1, <3>2
  <2>8. Formatted' /\ UsedSect' = s
    BY <2>1, <2>6, <2>7, UsedNext
  <2>9. Counts' = <<n>>
    BY <2>1, <2>5, <2>8 DEF Counts
  <2>10. Final(<<n>>) = n /\ ~Implausible(<<n>>) /\ Loaded(<<n>>) = n
    BY <1>1, <2>1, FirstCount
  <2>11. Kept' <=> Loaded(Counts') >= floor'
    BY <1>1, <2>6, <2>8, UsedNext
  <2>12. Kept'
    BY <2>1, <2>4, <2>9, <2>10, <2>11
  <2>13. Final(Counts)' = Final(<<n>>) /\ (Implausible(Counts)' <=> Implausible(<<n>>))
    BY <2>9 DEF Final, Implausible
  <2>14. Follows'
    BY <1>1, <2>1, <2>10, <2>13, SaveBegins DEF Follows
  <2>15. op'.pc = "idle"
    BY <2>4 DEF Idle
  <2>16. SaveHolds' /\ AtRest' /\ PlainSave' /\ ForcedSave'
    BY <2>14, <2>15 DEF SaveHolds, AtRest, PlainSave, ForcedSave
  <2> QED BY <2>6, <2>8, <2>12, <2>16 DEF CountInv, CountFresh, SaveOK
<1>13. ~EraseForced /\ ~Erase /\ ~Carry /\ ~InvalidateOldHdr
  BY <1>1 DEF EraseForced, Erase, Carry, InvalidateOldHdr
<1>14. ~RefusedWrite /\ ~Crash
  BY <1>4 DEF RefusedWrite, Crash
<1> QED
  BY <1>6, <1>7, <1>8, <1>9, <1>10, <1>11, <1>12, <1>13, <1>14 DEF Next, Step

-----------------------------------------------------------------------------
\* the inductive invariant
CountIInv == CountTyped /\ (Calm => CountInv)

\* The invariant holds at the start.
LEMMA CountStarts ==
  ASSUME FrameCountAssumption, Init
  PROVE  CountIInv
<1>1. BlankSector \in Sector /\ BlankSector.flag = "IDLE" /\ BlankSector.cnt = <<>> /\ Len(<<>>) = 0
  BY EmptySeq DEF BlankSector, Sector
<1>2. \A s \in Sect : flash[s] = BlankSector
  BY DEF Init
<1>3. Idle \in OpType /\ Idle.pc = "idle" /\ ~Idle.force /\ ~Idle.upd /\ CntNum \in Nat
  BY SaveBegins DEF Idle
<1>4. op = Idle /\ ram = Off /\ floor = 0 /\ faults \in FaultSets
  BY DEF Init
<1>5. flash \in [Sect -> Sector]
  BY <1>1 DEF Init
<1>6. TypeOK
  <2>1. \A s \in Sect : Len(flash[s].cnt) <= CntNum
    BY <1>1, <1>2, <1>3
  <2>2. op \in OpType /\ ram \in Nat \cup {Off} /\ floor \in Nat
    BY <1>3, <1>4
  <2> QED BY <1>5, <2>1, <2>2 DEF TypeOK, OpType
<1>7. CountTyped
  BY <1>3, <1>4, <1>6 DEF CountTyped, RoomLeft
<1>8. ~Formatted /\ CountHeaders
  BY <1>1, <1>2 DEF Formatted, ValidSect, CountHeaders
<1>9. SaveHolds /\ CountFresh
  BY <1>1, <1>2, <1>3, <1>4 DEF SaveHolds, CountFresh
<1>10. Kept
  BY <1>4, <1>6, NothingSaved
<1> QED BY <1>7, <1>8, <1>9, <1>10 DEF CountIInv, CountInv

\* Every step keeps it, and without refusals takes the number of the sector in
\* use at most one on.
LEMMA CountStep ==
  ASSUME CountIInv, [Next]_vars
  PROVE  /\ CountIInv'
         /\ "early" \notin faults => TakesOver
<1>1. CASE Next
  <2>1. CountTyped /\ (Calm => CountInv) /\ FrameCountAssumption /\ faults \in FaultSets
    BY DEF CountIInv, CountTyped
  <2>2. TypeOK' /\ RoomLeft' /\ faults' = faults
    BY <1>1, <2>1, CountTypeStep
  <2>3. CountTyped' /\ (Calm' <=> Calm)
    BY <2>1, <2>2 DEF CountTyped, Calm, FrameCountAssumption
  <2>4. Calm /\ Formatted => CountGoes
    BY <1>1, <2>1, <2>2, UsedGoes DEF CountKnown
  <2>5. Calm /\ ~Formatted => CountInv'
    BY <1>1, <2>1, <2>2, FreshStep
  <2>6. CountIInv'
    BY <2>3, <2>4, <2>5 DEF CountIInv, CountGoes
  <2>7. "early" \notin faults => TakesOver
    BY <2>4 DEF TakesOver, CountGoes, Calm
  <2> QED BY <2>6, <2>7
<1>2. CASE UNCHANGED vars
  <2>1. /\ flash' = flash /\ floor' = floor /\ op' = op /\ ram' = ram /\ faults' = faults
    BY <1>2 DEF vars
  <2>2. /\ CountHeaders' <=> CountHeaders
        /\ Formatted' <=> Formatted
        /\ ValidSect' = ValidSect /\ CurrentSeq' = CurrentSeq /\ UsedSect' = UsedSect
        /\ Counts' = Counts /\ Spare' = Spare /\ SectorRead' = SectorRead
        /\ (floor' = floor => (Kept' <=> Kept))
    BY <2>1, StillStep
  <2>3. TakesOver
    BY <2>2 DEF TakesOver
  <2>4. CountTyped' /\ (Calm' <=> Calm)
    BY <2>1 DEF CountIInv, CountTyped, Calm, TypeOK, RoomLeft, FrameCountAssumption
  <2>5. CountFresh' <=> CountFresh
    BY <2>1, <2>2 DEF CountFresh
  <2>6. SaveHolds' <=> SaveHolds
    BY <2>1 DEF SaveHolds
  <2>7. SaveOK' <=> SaveOK
    <3>1. /\ (Implausible(Counts))' <=> Implausible(Counts)
          /\ Final(Counts)' = Final(Counts) /\ BackOff(Counts)' = BackOff(Counts)
          /\ Len(Counts)' = Len(Counts)
          /\ Follows' <=> Follows
      BY <2>1, <2>2, ReadsStay
    <3>2. Other(UsedSect)' = Other(UsedSect)
      BY <2>2 DEF Other
    <3>3. AtRest' <=> AtRest
      BY <2>1, <3>1 DEF AtRest
    <3>4. PlainSave' <=> PlainSave
      BY <2>1, <2>2, <3>1, <3>2 DEF PlainSave, Leaving
    <3>5. ForcedSave' <=> ForcedSave
      BY <2>1, <2>2, <3>1, <3>2 DEF ForcedSave
    <3> QED BY <3>3, <3>4, <3>5 DEF SaveOK
  <2>8. CountInv' <=> CountInv
    BY <2>1, <2>2, <2>5, <2>6, <2>7 DEF CountInv
  <2> QED BY <2>3, <2>4, <2>8 DEF CountIInv
<1> QED BY <1>1, <1>2

\* The sectors, the counter in memory and the save in progress are well formed,
\* and no sector holds more counts than it has room for, whatever is refused and
\* whenever power is lost (nv_nwkFrameCountSaveToFlashHandler).
THEOREM CountTypeCorrect ==
  ASSUME FrameCountAssumption
  PROVE  Spec => []TypeOK
<1>1. Init => CountIInv
  BY CountStarts
<1>2. CountIInv /\ [Next]_vars => CountIInv'
  BY CountStep
<1>3. CountIInv => TypeOK
  BY DEF CountIInv, CountTyped
<1> QED BY <1>1, <1>2, <1>3, PTL DEF Spec

\* A start never loads a frame counter below one that was saved without an error,
\* wherever power was lost in a save or a change of sector and whatever bits the
\* torn count has left (nv_nwkFrameCountFromFlash, drv_nv.c:1003).
THEOREM CountSurvives ==
  ASSUME FrameCountAssumption, \A f \in FaultSets : "early" \notin f
  PROVE  Spec => []CountKept
<1>1. Init => CountIInv
  BY CountStarts
<1>2. CountIInv /\ [Next]_vars => CountIInv'
  BY CountStep
<1>3. CountIInv => CountKept
  BY DEF CountIInv, CountTyped, Calm, CountInv, CountKept
<1> QED BY <1>1, <1>2, <1>3, PTL DEF Spec

\* Once there is a sector header there always is one, and the sector in use
\* changes only to the next number modulo 4 (drv_nv.c:967).
THEOREM CountTakesOver ==
  ASSUME FrameCountAssumption, \A f \in FaultSets : "early" \notin f
  PROVE  Spec => SectorTakeover
<1>1. Init => CountIInv
  BY CountStarts
<1>2. CountIInv /\ [Next]_vars => CountIInv' /\ TakesOver
  BY CountStep DEF CountIInv, CountTyped
<1> QED BY <1>1, <1>2, PTL DEF Spec, SectorTakeover
=============================================================================
