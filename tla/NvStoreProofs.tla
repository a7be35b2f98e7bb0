--------------------------- MODULE NvStoreProofs ---------------------------
(***************************************************************************)
(* Proofs about NvStore for every set of items and values, and every size  *)
(* of the index and of the contents.  The types and the headers are right  *)
(* under every combination of faults.  What the items read as is right     *)
(* when the module gets its first header before the first fault            *)
(* (FaultAssumption), and the store is a map when, besides, faults and     *)
(* removals do not meet (MapAssumption).  Both limits are real: NvMap      *)
(* fails beyond them.  The space of dead entries is reclaimed unless flash *)
(* operations are refused or the duplicate table finds no buffer           *)
(* (Unrefused), and no sector is moved for nothing unless power is lost.   *)
(***************************************************************************)
EXTENDS NvStore, SequenceTheorems, FiniteSetTheorems, WellFoundedInduction, TLAPS

-----------------------------------------------------------------------------
(* Sequences of index entries *)

\* Programming a field of an index entry leaves an array of index entries.
LEMMA EntryUpdate ==
  ASSUME NEW idx \in Seq(Entry), NEW k \in Nat
  PROVE  /\ \A v \in Value \cup {Absent} : [idx EXCEPT ![k].val = v] \in Seq(Entry)
         /\ \A h \in {"BLANK", "OK", "TORN"} : [idx EXCEPT ![k].hdr = h] \in Seq(Entry)
         /\ \A st \in {"OPERATION", "VALID_SINGLE", "INVALID", "TORN"} :
              [idx EXCEPT ![k].state = st] \in Seq(Entry)
<1>1. CASE k \in 1..Len(idx)
  <2>1. idx[k] \in Entry
    BY <1>1, ElementOfSeq
  <2>2. \A e \in Entry : [idx EXCEPT ![k] = e] \in Seq(Entry)
    BY <1>1, ExceptSeq
  <2> QED
    BY <2>1, <2>2 DEF Entry
<1>2. CASE k \notin 1..Len(idx)
  <2>1. idx \in [1..Len(idx) -> Entry]
    BY LenProperties
  <2>2. \A e : [idx EXCEPT ![k] = e] = idx
    BY <1>2, <2>1
  <2> QED
    BY <2>2
<1> QED
  BY <1>1, <1>2

\* A nonempty set of index positions has a largest one.
LEMMA Largest ==
  ASSUME NEW n \in Nat, NEW S \in SUBSET (1..n), S # {}
  PROVE  \E k \in S : \A j \in S : j <= k
<1> DEFINE T == {n - k : k \in S}
<1>1. T \subseteq Nat /\ T # {}
  <2>1. \A k \in S : k \in 1..n /\ n - k \in Nat
    OBVIOUS
  <2>2. PICK k \in S : TRUE
    OBVIOUS
  <2>3. n - k \in T
    BY <2>2
  <2> QED
    BY <2>1, <2>3
<1>2. IsWellFoundedOn(OpToRel(<, Nat), Nat)
  BY NatLessThanWellFounded
<1>3. PICK x \in T : \A y \in T : ~ (<<y, x>> \in OpToRel(<, Nat))
  BY <1>1, <1>2, WFMin
<1>4. \A y \in T : x <= y
  <2> TAKE y \in T
  <2>1. x \in Nat /\ y \in Nat
    BY <1>1
  <2>2. ~ (y < x)
    BY <1>3, <2>1 DEF OpToRel
  <2> QED
    BY <2>1, <2>2
<1>5. PICK k \in S : x = n - k
  BY <1>3
<1>6. \A j \in S : n - k <= n - j
  BY <1>4, <1>5
<1> QED
  BY <1>5, <1>6

\* nv_index_read yields the position of the newest valid entry of the item.
LEMMA IndexReadCorrect ==
  ASSUME TypeOK, NEW s \in Sect, NEW i
  PROVE  LET hits == {k \in 1..Len(flash[s].idx) :
                        flash[s].idx[k].state = "VALID_SINGLE" /\ flash[s].idx[k].item = i}
         IN /\ hits = {} => IndexRead(s, i) = 0
            /\ hits # {} => /\ IndexRead(s, i) \in hits
                            /\ \A j \in hits : j <= IndexRead(s, i)
<1> DEFINE hits == {k \in 1..Len(flash[s].idx) :
                      flash[s].idx[k].state = "VALID_SINGLE" /\ flash[s].idx[k].item = i}
<1>1. Len(flash[s].idx) \in Nat
  BY LenProperties DEF TypeOK, Sector
<1>2. hits \in SUBSET (1..Len(flash[s].idx))
  OBVIOUS
<1>3. hits # {} => \E k \in hits : \A j \in hits : j <= k
  BY <1>1, <1>2, Largest
<1> QED
  BY <1>3 DEF IndexRead

LEMMA IndexReadType ==
  ASSUME TypeOK, NEW s \in Sect, NEW i
  PROVE  IndexRead(s, i) \in Nat
BY IndexReadCorrect

\* The number taken from the headers is one of theirs.
LEMMA SectorReadType ==
  ASSUME TypeOK
  PROVE  SectorRead \subseteq 0..3
<1>1. \A s \in Sect : flash[s].seq \in 0..3
  BY DEF TypeOK, Sector
<1>2. Formatted => CurrentSeq \in 0..3
  BY <1>1 DEF Formatted, CurrentSeq, NewerSeq, ValidSect, Sect
<1> QED
  BY <1>2 DEF SectorRead

-----------------------------------------------------------------------------
(* Type correctness *)

LEMMA FlashUpdate ==
  ASSUME TypeOK, NEW s \in Sect, NEW k \in Nat
  PROVE  /\ [flash EXCEPT ![s] = BlankSector] \in [Sect -> Sector]
         /\ \A fl \in {"IDLE", "VALID", "INVALID", "TORN"} :
              /\ [flash EXCEPT ![s].flag = fl] \in [Sect -> Sector]
              /\ \A q \in 0..3 :
                   [flash EXCEPT ![s].flag = fl, ![s].seq = q] \in [Sect -> Sector]
         /\ \A e \in Entry : [flash EXCEPT ![s].idx = Append(@, e)] \in [Sect -> Sector]
         /\ \A v \in Value \cup {Absent} :
              [flash EXCEPT ![s].idx[k].val = v] \in [Sect -> Sector]
         /\ \A h \in {"BLANK", "OK", "TORN"} :
              [flash EXCEPT ![s].idx[k].hdr = h] \in [Sect -> Sector]
         /\ \A st \in {"OPERATION", "VALID_SINGLE", "INVALID", "TORN"} :
              [flash EXCEPT ![s].idx[k].state = st] \in [Sect -> Sector]
<1>1. flash[s] \in Sector /\ flash[s].idx \in Seq(Entry)
  BY DEF TypeOK, Sector
<1>2. BlankSector \in Sector
  <2>1. <<>> \in Seq(Entry)
    OBVIOUS
  <2> QED
    BY <2>1 DEF BlankSector, Sector
<1>3. \A x \in Sector : [flash EXCEPT ![s] = x] \in [Sect -> Sector]
  BY DEF TypeOK
<1>4. \A x \in Seq(Entry) : [flash[s] EXCEPT !.idx = x] \in Sector
  BY <1>1 DEF Sector
<1>5. \A x \in Seq(Entry) : [flash EXCEPT ![s].idx = x] \in [Sect -> Sector]
  BY <1>3, <1>4
<1>6. \A e \in Entry : Append(flash[s].idx, e) \in Seq(Entry)
  BY <1>1, AppendProperties
<1>7. \A fl \in {"IDLE", "VALID", "INVALID", "TORN"} :
        /\ [flash EXCEPT ![s].flag = fl] \in [Sect -> Sector]
        /\ \A q \in 0..3 :
             [flash EXCEPT ![s].flag = fl, ![s].seq = q] \in [Sect -> Sector]
  BY <1>1 DEF TypeOK, Sector
<1>8. \A v \in Value \cup {Absent} :
        [flash EXCEPT ![s].idx[k].val = v] \in [Sect -> Sector]
  BY <1>1, <1>5, EntryUpdate
<1>9. \A h \in {"BLANK", "OK", "TORN"} :
        [flash EXCEPT ![s].idx[k].hdr = h] \in [Sect -> Sector]
  BY <1>1, <1>5, EntryUpdate
<1>10. \A st \in {"OPERATION", "VALID_SINGLE", "INVALID", "TORN"} :
        [flash EXCEPT ![s].idx[k].state = st] \in [Sect -> Sector]
  BY <1>1, <1>5, EntryUpdate
<1> QED
  BY <1>2, <1>3, <1>5, <1>6, <1>7, <1>8, <1>9, <1>10

LEMMA UncheckedType ==
  ASSUME TypeOK, NEW f \in [Sect -> Sector], Unchecked(f)
  PROVE  flash' \in [Sect -> Sector]
BY DEF Unchecked, TypeOK

LEMMA SetStateType ==
  ASSUME TypeOK, NEW s \in Sect, NEW k \in Nat, NEW st \in {"VALID_SINGLE", "INVALID"}
  PROVE  SetState(s, k, st) \in [Sect -> Sector]
BY FlashUpdate DEF SetState

LEMMA SetFlagType ==
  ASSUME TypeOK, NEW s \in Sect, NEW fl \in {"INVALID", "TORN"}
  PROVE  SetFlag(s, fl) \in [Sect -> Sector]
BY FlashUpdate DEF SetFlag

\* A step of a request that is not its last.
LEMMA GotoType ==
  ASSUME op \in Running,
         NEW p \in {"erase", "dedup", "copy", "index", "payload", "itemhdr", "state",
                    "delete", "firsthdr", "newhdr", "oldhdr"},
         Goto(p)
  PROVE  op' \in Running
<1>1. [op EXCEPT !.pc = p] \in Running
  BY Zenon DEF Running
<1> QED
  BY <1>1 DEF Goto

\* The last step of a request, or of its first attempt.
LEMMA ReturnType ==
  ASSUME op \in Running, NEW r \in Result, Return(r)
  PROVE  op' \in Running \cup Resting
<1>1. [op EXCEPT !.pc = "sector", !.force = TRUE] \in Running
  BY Zenon DEF Running
<1>2. Rest(r) \in Resting
  BY DEF Resting
<1> QED
  BY <1>1, <1>2 DEF Return

LEMMA IdleUpdate ==
  ASSUME NEW i \in Item, NEW v \in Value \cup {Absent}
  PROVE  [Idle EXCEPT !.pc = "sector", !.item = i, !.val = v] \in Running
         /\ [Idle EXCEPT !.pc = "remove", !.item = i] \in Running
<1>1. /\ Idle.force \in BOOLEAN /\ Idle.upd \in BOOLEAN /\ Idle.sect \in Sect
      /\ Idle.seq \in 0..3 /\ Idle.pos \in Nat /\ Idle.scan \in Nat /\ Idle.del \in Nat
  BY DEF Idle, Rest, Sect
<1> QED
  BY <1>1 DEF Idle, Rest, Running

\* Every step keeps the flash and the request well formed.
LEMMA TypeStep == TypeOK /\ [Next]_vars => TypeOK'
<1> SUFFICES ASSUME TypeOK, [Next]_vars
             PROVE  flash' \in [Sect -> Sector] /\ op' \in Running \cup Resting
  BY DEF TypeOK
<1> DEFINE Goal == flash' \in [Sect -> Sector] /\ op' \in Running \cup Resting
<1>a. flash \in [Sect -> Sector] /\ \A s \in Sect : Len(flash[s].idx) \in Nat
  BY DEF TypeOK, Sector
<1>b. ASSUME op.pc # "idle"
      PROVE  /\ op \in Running
             /\ op.sect \in Sect /\ Target \in Sect /\ Other(op.sect) \in Sect
             /\ op.pos \in Nat /\ op.scan \in Nat /\ op.del \in Nat /\ op.seq \in 0..3
             /\ op.item \in Item /\ op.val \in Value \cup {Absent}
  <2>1. op \in Running
    BY <1>b DEF TypeOK, Resting, Rest
  <2> QED
    BY <2>1 DEF Running, Sect, Target, Other
<1>c. \A i \in Item : NewEntry(i) \in Entry /\ [NewEntry(i) EXCEPT !.state = "TORN"] \in Entry
  BY DEF NewEntry, Entry
<1>d. ASSUME op \in Running, AfterItem PROVE op' \in Running \cup Resting
  BY <1>d, GotoType, ReturnType DEF AfterItem, Result
<1>1. ASSUME NEW i \in Item, NEW v \in Value, BeginWrite(i, v) PROVE Goal
  BY <1>1, <1>a, IdleUpdate DEF BeginWrite
<1>2. ASSUME NEW i \in Item, BeginRemove(i) PROVE Goal
  BY <1>2, <1>a, IdleUpdate DEF BeginRemove
<1>3. CASE SectorReadForWrite
  <2>1. PICK q \in SectorRead :
           /\ op' = [op EXCEPT !.pc = "locate", !.seq = q, !.sect = q % 2]
           /\ IF flash[Other(q % 2)].flag = "VALID"
                THEN Unchecked(SetFlag(Other(q % 2), "INVALID"))
                ELSE UNCHANGED flash
    BY <1>3 DEF SectorReadForWrite
  <2>2. q \in 0..3 /\ q % 2 \in Sect /\ Other(q % 2) \in Sect
    BY SectorReadType DEF Sect, Other
  <2>3. op \in Running
    BY <1>3, <1>b DEF SectorReadForWrite
  <2>4. [op EXCEPT !.pc = "locate", !.seq = q, !.sect = q % 2] \in Running
    BY <2>2, <2>3, Zenon DEF Running
  <2>5. SetFlag(Other(q % 2), "INVALID") \in [Sect -> Sector]
    BY <2>2, SetFlagType
  <2> QED
    BY <1>a, <2>1, <2>4, <2>5, UncheckedType
<1>4. CASE Locate
  <2> DEFINE u == op.force \/ NeedsUpdate(op.sect, op.item)
             p == IF u THEN "erase" ELSE "index"
             n == IF u THEN 0 ELSE Len(flash[op.sect].idx)
  <2>1. op \in Running /\ op.sect \in Sect
    BY <1>4, <1>b DEF Locate
  <2>2. u \in BOOLEAN /\ p \in {"erase", "index"} /\ n \in Nat
    BY <1>a, <2>1
  <2>3. op' = [op EXCEPT !.pc = p, !.upd = u, !.pos = n]
    BY <1>4 DEF Locate
  <2> HIDE DEF u, p, n
  <2>4. [op EXCEPT !.pc = p, !.upd = u, !.pos = n] \in Running
    BY <2>1, <2>2, Zenon DEF Running
  <2> QED
    BY <1>4, <1>a, <2>3, <2>4 DEF Locate
<1>5. CASE Erase
  <2>1. op \in Running /\ op.sect \in Sect /\ Other(op.sect) \in Sect
    BY <1>5, <1>b DEF Erase
  <2>2. \A m \in Nat, p \in {"dedup", "copy"} : [op EXCEPT !.pc = p, !.scan = m] \in Running
    BY <2>1, Zenon DEF Running
  <2>3. op' \in Running
    BY <1>5, <1>a, <2>1, <2>2 DEF Erase
  <2>4. [flash EXCEPT ![Other(op.sect)] = BlankSector] \in [Sect -> Sector]
    BY <2>1, FlashUpdate
  <2> QED
    BY <1>5, <2>3, <2>4, UncheckedType DEF Erase
<1>6. CASE Dedup
  <2>1. op \in Running /\ op.sect \in Sect /\ op.scan \in Nat /\ op.scan - 1 \in Nat
    BY <1>6, <1>b DEF Dedup
  <2>2. [op EXCEPT !.scan = op.scan - 1] \in Running
    BY <2>1, Zenon DEF Running
  <2>3. SetState(op.sect, op.scan, "INVALID") \in [Sect -> Sector]
    BY <2>1, SetStateType
  <2> QED
    BY <1>6, <1>a, <2>2, <2>3, UncheckedType DEF Dedup
<1>7. CASE DedupDone
  <2>1. op \in Running
    BY <1>7, <1>b DEF DedupDone
  <2>2. [op EXCEPT !.pc = "copy", !.scan = 1] \in Running
    BY <2>1, Zenon DEF Running
  <2> QED
    BY <1>7, <1>a, <2>2 DEF DedupDone
<1>8. CASE Copy
  <2> DEFINE e == flash[op.sect].idx[op.scan]
             put(f) == [flash EXCEPT ![Other(op.sect)].idx = Append(@, f)]
  <2>0. /\ op \in Running /\ op.sect \in Sect /\ Other(op.sect) \in Sect
        /\ op.scan + 1 \in Nat /\ op.pos + 1 \in Nat
    BY <1>8, <1>b DEF Copy
  <2>1. e \in Entry
    <3>1. op.scan \in 1..Len(flash[op.sect].idx)
      BY <1>8 DEF Copy, CopyEnded
    <3> QED
      BY <1>a, <2>0, <3>1, ElementOfSeq DEF Sector
  <2>2. e.item \in Item
    BY <2>1 DEF Entry
  <2>3. put(e) \in [Sect -> Sector] /\ put(NewEntry(e.item)) \in [Sect -> Sector]
    BY <1>c, <2>0, <2>1, <2>2, FlashUpdate
  <2>4. \A m, n \in Nat : [op EXCEPT !.scan = m] \in Running
                          /\ [op EXCEPT !.scan = m, !.pos = n] \in Running
    BY <2>0, Zenon DEF Running
  <2>5. \/ UNCHANGED flash
        \/ flash' = put(e)
        \/ flash' = put(NewEntry(e.item))
    BY <1>8 DEF Copy
  <2>6. \/ Return("NV_ITEM_CHECK_ERROR")
        \/ Return("NV_CHECK_SUM_ERROR")
        \/ op' = [op EXCEPT !.scan = @ + 1]
        \/ op' = [op EXCEPT !.scan = @ + 1, !.pos = @ + 1]
    BY <1>8 DEF Copy
  <2>7. op' \in Running \cup Resting
    BY <2>0, <2>4, <2>6, ReturnType DEF Result
  <2> QED
    BY <1>a, <2>3, <2>5, <2>7
<1>9. CASE CopyDone
  BY <1>9, <1>a, <1>b, GotoType, ReturnType DEF CopyDone, Result
<1>10. CASE WriteIndex
  <2>1. /\ op \in Running /\ Target \in Sect /\ op.item \in Item /\ op.pos + 1 \in Nat
        /\ IndexRead(Target, op.item) \in Nat
    BY <1>10, <1>b, IndexReadType DEF WriteIndex
  <2>2. [op EXCEPT !.pc = "payload", !.pos = op.pos + 1, !.del = IndexRead(Target, op.item)]
          \in Running
    BY <2>1, Zenon DEF Running
  <2>3. [flash EXCEPT ![Target].idx = Append(@, NewEntry(op.item))] \in [Sect -> Sector]
    BY <1>c, <2>1, FlashUpdate
  <2>4. CASE UNCHANGED flash /\ Return("NV_ITEM_CHECK_ERROR")
    BY <1>a, <2>1, <2>4, ReturnType DEF Result
  <2> QED
    BY <1>10, <2>2, <2>3, <2>4 DEF WriteIndex
<1>11. CASE WritePayload
  <2>1. op \in Running /\ Target \in Sect /\ op.pos \in Nat /\ op.val \in Value \cup {Absent}
    BY <1>11, <1>b DEF WritePayload
  <2>2. flash' \in [Sect -> Sector]
    BY <1>11, <2>1, FlashUpdate DEF WritePayload
  <2> QED
    BY <1>11, <2>1, <2>2, GotoType DEF WritePayload
<1>12. CASE WriteItemHdr
  <2>1. op \in Running /\ Target \in Sect /\ op.pos \in Nat
    BY <1>12, <1>b DEF WriteItemHdr
  <2>2. flash' \in [Sect -> Sector]
    BY <1>12, <2>1, FlashUpdate DEF WriteItemHdr
  <2> QED
    BY <1>12, <2>1, <2>2, GotoType DEF WriteItemHdr
<1>13. CASE WriteState
  <2>1. op \in Running /\ Target \in Sect /\ op.pos \in Nat
    BY <1>13, <1>b DEF WriteState
  <2> QED
    BY <1>13, <1>d, <2>1, SetStateType, GotoType DEF WriteState
<1>14. CASE DeleteOld
  <2>1. op \in Running /\ Target \in Sect /\ op.del \in Nat
    BY <1>14, <1>b DEF DeleteOld
  <2> QED
    BY <1>14, <1>d, <2>1, SetStateType DEF DeleteOld
<1>15. CASE WriteFirstHdr
  <2>1. op \in Running /\ op.sect \in Sect /\ op.sect \in 0..3
    BY <1>15, <1>b DEF WriteFirstHdr, Sect
  <2>2. [flash EXCEPT ![op.sect].flag = "VALID", ![op.sect].seq = op.sect] \in [Sect -> Sector]
    BY <2>1, FlashUpdate
  <2>3. flash' \in [Sect -> Sector]
    BY <1>15, <1>a, <2>2, UncheckedType DEF WriteFirstHdr
  <2> QED
    BY <1>15, <2>1, <2>3, ReturnType DEF WriteFirstHdr, Result
<1>16. CASE WriteNewHdr
  <2>1. op \in Running /\ Target \in Sect /\ (op.seq + 1) % 4 \in 0..3
    BY <1>16, <1>b DEF WriteNewHdr
  <2>2. [flash EXCEPT ![Target].flag = "VALID", ![Target].seq = (op.seq + 1) % 4]
          \in [Sect -> Sector]
    BY <2>1, FlashUpdate
  <2> QED
    BY <1>16, <1>a, <2>1, <2>2, GotoType, ReturnType DEF WriteNewHdr, Result
<1>17. CASE InvalidateOldHdr
  <2>1. op \in Running /\ op.sect \in Sect
    BY <1>17, <1>b DEF InvalidateOldHdr
  <2>2. SetFlag(op.sect, "INVALID") \in [Sect -> Sector]
    BY <2>1, SetFlagType
  <2> QED
    BY <1>17, <2>1, <2>2, UncheckedType, ReturnType DEF InvalidateOldHdr, Result
<1>18. CASE Remove
  <2>1. op \in Running
    BY <1>18, <1>b DEF Remove
  <2>2. PICK q \in SectorRead :
          LET k == IndexRead(q % 2, op.item)
          IN IF k = 0
               THEN UNCHANGED flash /\ Return("NV_ITEM_NOT_FOUND")
               ELSE Unchecked(SetState(q % 2, k, "INVALID")) /\ Return("NV_SUCC")
    BY <1>18 DEF Remove
  <2>3. q % 2 \in Sect
    BY SectorReadType DEF Sect
  <2>4. IndexRead(q % 2, op.item) \in Nat
    BY <2>3, IndexReadType
  <2>5. SetState(q % 2, IndexRead(q % 2, op.item), "INVALID") \in [Sect -> Sector]
    BY <2>3, <2>4, SetStateType
  <2> QED
    BY <1>a, <2>1, <2>2, <2>5, UncheckedType, ReturnType DEF Result
<1>19. CASE RefusedWrite
  BY <1>19, <1>a, <1>b, ReturnType DEF RefusedWrite, Refused, Result
<1>20. CASE Crash
  <2>1. op \in Running /\ Target \in Sect /\ op.item \in Item /\ op.pos \in Nat
    BY <1>20, <1>b DEF Crash
  <2>2. op' \in Resting
    BY <1>20 DEF Crash, Resting
  <2>3. CASE Torn
    <3>1. [flash EXCEPT ![Target].idx = Append(@, [NewEntry(op.item) EXCEPT !.state = "TORN"])]
            \in [Sect -> Sector]
      BY <1>c, <2>1, FlashUpdate
    <3>2. [flash EXCEPT ![Target].idx[op.pos].hdr = "TORN"] \in [Sect -> Sector]
      BY <2>1, FlashUpdate
    <3>3. SetFlag(Target, "TORN") \in [Sect -> Sector]
      BY <2>1, SetFlagType
    <3> QED
      BY <2>2, <2>3, <3>1, <3>2, <3>3 DEF Torn
  <2> QED
    BY <1>20, <1>a, <2>2, <2>3 DEF Crash
<1>21. CASE UNCHANGED vars
  BY <1>21 DEF vars, TypeOK
<1> QED
  BY <1>1, <1>2, <1>3, <1>4, <1>5, <1>6, <1>7, <1>8, <1>9, <1>10, <1>11, <1>12, <1>13,
     <1>14, <1>15, <1>16, <1>17, <1>18, <1>19, <1>20, <1>21, NvAssumption DEF Next, Step

\* The flash and the request are always well formed.
THEOREM TypeCorrect == Spec => []TypeOK
<1>1. Init => TypeOK
  <2>1. BlankSector \in Sector
    BY EmptySeq DEF BlankSector, Sector
  <2>2. Idle \in Resting
    BY DEF Idle, Resting
  <2> QED
    BY <2>1, <2>2 DEF Init, TypeOK
<1> QED
  BY <1>1, TypeStep, PTL DEF Spec

-----------------------------------------------------------------------------
(* The sector in use *)

SameHeaders == \A s \in Sect : /\ flash'[s].flag = flash[s].flag
                               /\ flash'[s].seq = flash[s].seq

Takeover == Formatted => /\ Formatted'
                         /\ CurrentSeq' \in {CurrentSeq, (CurrentSeq + 1) % 4}

Between == {"idle", "sector", "remove"}

\* The number in use is that of the only valid header, or the newer of two.
SeqCases ==
  \A s \in Sect :
    flash[s].flag = "VALID" =>
      /\ Formatted
      /\ CurrentSeq \in 0..3
      /\ flash[Other(s)].flag # "VALID" => CurrentSeq = flash[s].seq
      /\ flash[Other(s)].flag = "VALID" =>
           CurrentSeq = NewerSeq(flash[0].seq, flash[1].seq)

LEMMA CurrentSeqCases == TypeOK => SeqCases
<1> SUFFICES ASSUME TypeOK,
                    NEW s \in Sect
             PROVE  flash[s].flag = "VALID" =>
                      /\ Formatted
                      /\ CurrentSeq \in 0..3
                      /\ flash[Other(s)].flag # "VALID" => CurrentSeq = flash[s].seq
                      /\ flash[Other(s)].flag = "VALID" =>
                           CurrentSeq = NewerSeq(flash[0].seq, flash[1].seq)
  BY DEF SeqCases
<1> HAVE flash[s].flag = "VALID"
<1>1. s \in ValidSect
  BY DEF ValidSect
<1>2. CASE flash[Other(s)].flag # "VALID"
  <2>1. ValidSect = {s} /\ ValidSect # Sect
    BY <1>2, <1>1 DEF ValidSect, Sect, Other
  <2> QED
    BY <1>2, <2>1 DEF CurrentSeq, Formatted, TypeOK, Sector, Sect
<1>3. CASE flash[Other(s)].flag = "VALID"
  <2>1. ValidSect = Sect
    BY <1>3, <1>1 DEF ValidSect, Sect, Other
  <2> QED
    BY <1>3, <2>1 DEF CurrentSeq, Formatted, TypeOK, Sector, NewerSeq, Sect
<1> QED
  BY <1>2, <1>3

LEMMA CurrentSeqCasesNext == TypeOK' => SeqCases'
BY CurrentSeqCases, PTL

\* The sector in use is the one that the parity of its number names.
LEMMA InUse ==
  ASSUME TypeOK, HeaderInv, Formatted
  PROVE  /\ CurrentSeq \in 0..3
         /\ flash[CurrentSeq % 2].flag = "VALID"
         /\ flash[CurrentSeq % 2].seq = CurrentSeq
<1>1. PICK s \in Sect : flash[s].flag = "VALID"
  BY DEF Formatted, ValidSect
<1>2. CASE flash[Other(s)].flag # "VALID"
  <2>1. CurrentSeq = flash[s].seq /\ CurrentSeq \in 0..3
    BY <1>1, <1>2, CurrentSeqCases DEF SeqCases
  <2>2. flash[s].seq % 2 = s
    BY <1>1 DEF HeaderInv
  <2> QED
    BY <1>1, <2>1, <2>2
<1>3. CASE flash[Other(s)].flag = "VALID"
  <2>1. flash[0].flag = "VALID" /\ flash[1].flag = "VALID"
    BY <1>1, <1>3 DEF Sect, Other
  <2>2. CurrentSeq = flash[0].seq \/ CurrentSeq = flash[1].seq
    BY <1>1, <1>3, CurrentSeqCases DEF SeqCases, NewerSeq
  <2>3. flash[0].seq % 2 = 0 /\ flash[1].seq % 2 = 1
    BY <2>1 DEF HeaderInv, Sect
  <2>4. CurrentSeq \in 0..3
    BY <1>1, CurrentSeqCases DEF SeqCases
  <2> QED
    BY <2>1, <2>2, <2>3, <2>4
<1> QED
  BY <1>2, <1>3

LEMMA SameHeadersKeep ==
  ASSUME SameHeaders
  PROVE  /\ ValidSect' = ValidSect
         /\ Formatted' = Formatted
         /\ Formatted => CurrentSeq' = CurrentSeq
<1>1. ValidSect' = ValidSect
  BY DEF SameHeaders, ValidSect
<1>2. Formatted' = Formatted
  BY <1>1 DEF Formatted
<1>3. ASSUME Formatted PROVE CurrentSeq' = CurrentSeq
  <2>1. flash'[0].seq = flash[0].seq /\ flash'[1].seq = flash[1].seq
    BY DEF SameHeaders, Sect
  <2> QED
    BY <1>1, <2>1 DEF CurrentSeq, NewerSeq
<1> QED
  BY <1>1, <1>2, <1>3

\* A step that programs no header keeps the invariant if the request keeps the
\* sector it works on, or ends.
LEMMA SameHeadersStep ==
  ASSUME TypeOK, TypeOK', HeaderInv, SameHeaders,
         \/ op'.pc \in Between
         \/ /\ op.pc \notin Between /\ op.pc # "oldhdr" /\ op'.pc # "oldhdr"
            /\ op'.sect = op.sect /\ op'.seq = op.seq
            /\ op'.pc \in {"erase", "dedup", "copy", "newhdr"} => op'.upd
            /\ op'.pc = "firsthdr" => ~op'.upd
  PROVE  HeaderInv' /\ Takeover
<1>1. Takeover
  BY SameHeadersKeep DEF Takeover
<1>2. \A s \in Sect : flash'[s].flag = "VALID" => flash'[s].seq % 2 = s
  BY DEF HeaderInv, SameHeaders
<1>3. CASE op'.pc \in Between
  <2>1. HeaderInv'
    BY <1>2, <1>3 DEF HeaderInv, Between
  <2> QED
    BY <1>1, <2>1
<1>4. CASE op'.pc \notin Between
  <2>1. /\ op.sect = op.seq % 2 /\ op.sect \in Sect
        /\ Formatted => flash[op.sect].flag = "VALID" /\ CurrentSeq = op.seq
    <3>1. op \in Running
      BY <1>4 DEF TypeOK, Resting, Rest, Between
    <3> QED
      BY <1>4, <3>1 DEF HeaderInv, Between, Running
  <2>2. Formatted' => flash'[op'.sect].flag = "VALID" /\ CurrentSeq' = op'.seq
    BY <1>4, <2>1, SameHeadersKeep DEF SameHeaders
  <2>3. op'.pc # "oldhdr" /\ op'.sect = op'.seq % 2
    BY <1>4, <2>1
  <2> QED
    BY <1>1, <1>2, <1>4, <2>2, <2>3 DEF HeaderInv, Between
<1> QED
  BY <1>1, <1>3, <1>4

\* The programs that touch no header.
LEMMA HeadersUntouched ==
  ASSUME TypeOK, NEW s \in Sect, NEW k \in Nat
  PROVE  /\ flash' = flash => SameHeaders
         /\ \A x : flash' = [flash EXCEPT ![s].idx = x] => SameHeaders
         /\ \A e : flash' = [flash EXCEPT ![s].idx = Append(@, e)] => SameHeaders
         /\ \A v : flash' = [flash EXCEPT ![s].idx[k].val = v] => SameHeaders
         /\ \A h : flash' = [flash EXCEPT ![s].idx[k].hdr = h] => SameHeaders
         /\ \A st : flash' = SetState(s, k, st) => SameHeaders
         /\ \A st : Unchecked(SetState(s, k, st)) => SameHeaders
<1>1. \A x : flash' = [flash EXCEPT ![s].idx = x] => SameHeaders
  BY DEF TypeOK, Sector, SameHeaders
<1>2. flash' = flash => SameHeaders
  BY DEF SameHeaders
<1> QED
  BY <1>1, <1>2 DEF SetState, Unchecked

\* What a request that does not end keeps.
LEMMA RequestKept ==
  ASSUME op \in Running
  PROVE  /\ \A p : Goto(p) =>
              op'.pc = p /\ op'.sect = op.sect /\ op'.seq = op.seq /\ op'.upd = op.upd
         /\ \A r : Return(r) => op'.pc \in Between
         /\ AfterItem =>
              \/ op'.pc \in Between
              \/ /\ op'.sect = op.sect /\ op'.seq = op.seq /\ op'.upd = op.upd
                 /\ (op'.pc = "newhdr" /\ op.upd) \/ (op'.pc = "firsthdr" /\ ~op.upd)
<1>1. \A p : Goto(p) =>
        op'.pc = p /\ op'.sect = op.sect /\ op'.seq = op.seq /\ op'.upd = op.upd
  BY DEF Goto, Running
<1>2. \A r : Return(r) => op'.pc \in Between
  BY DEF Return, Rest, Running, Between
<1>3. ASSUME AfterItem, op.upd
      PROVE  /\ op'.sect = op.sect /\ op'.seq = op.seq /\ op'.upd = op.upd
             /\ op'.pc = "newhdr"
  BY <1>1, <1>3 DEF AfterItem
<1>4. ASSUME AfterItem, ~op.upd
      PROVE  \/ op'.pc \in Between
             \/ /\ op'.sect = op.sect /\ op'.seq = op.seq /\ op'.upd = op.upd
                /\ op'.pc = "firsthdr"
  BY <1>1, <1>2, <1>4 DEF AfterItem
<1> QED
  BY <1>1, <1>2, <1>3, <1>4

LEMMA HeaderStep ==
  TypeOK /\ TypeOK' /\ HeaderInv /\ [Next]_vars => HeaderInv' /\ Takeover
<1> SUFFICES ASSUME TypeOK, TypeOK', HeaderInv, [Next]_vars
             PROVE  HeaderInv' /\ Takeover
  OBVIOUS
<1> DEFINE Goal == HeaderInv' /\ Takeover
<1>a. ASSUME op.pc # "idle"
      PROVE  /\ op \in Running /\ op.sect \in Sect /\ Other(op.sect) \in Sect
             /\ Target \in Sect /\ op.seq \in 0..3
             /\ op.pos \in Nat /\ op.scan \in Nat /\ op.del \in Nat
  <2>1. op \in Running
    BY <1>a DEF TypeOK, Resting, Rest
  <2> QED
    BY <2>1 DEF Running, Sect, Target, Other
<1>1. ASSUME NEW i \in Item, NEW v \in Value, BeginWrite(i, v) PROVE Goal
  <2>1. op'.pc \in Between
    BY <1>1 DEF BeginWrite, Idle, Rest, Between
  <2> QED
    BY <1>1, <2>1, SameHeadersStep DEF BeginWrite, SameHeaders
<1>2. ASSUME NEW i \in Item, BeginRemove(i) PROVE Goal
  <2>1. op'.pc \in Between
    BY <1>2 DEF BeginRemove, Idle, Rest, Between
  <2> QED
    BY <1>2, <2>1, SameHeadersStep DEF BeginRemove, SameHeaders
<1>4. CASE Locate
  <2>1. op \in Running /\ op.pc \notin Between /\ op.pc # "oldhdr"
    BY <1>4, <1>a DEF Locate, Between
  <2>2. /\ op'.sect = op.sect /\ op'.seq = op.seq
        /\ (op'.pc = "erase" /\ op'.upd) \/ op'.pc = "index"
    BY <1>4, <2>1 DEF Locate, Running
  <2> QED
    BY <1>4, <2>1, <2>2, SameHeadersStep DEF Locate, SameHeaders
<1>6. CASE Dedup
  <2>1. /\ op \in Running /\ op.pc \notin Between /\ op.pc # "oldhdr" /\ op.upd
        /\ op.sect \in Sect /\ op.scan \in Nat
    BY <1>6, <1>a DEF Dedup, Between, HeaderInv
  <2>2. op'.sect = op.sect /\ op'.seq = op.seq /\ op'.pc = "dedup" /\ op'.upd
    BY <1>6, <2>1 DEF Dedup, Running
  <2>3. SameHeaders
    BY <1>6, <2>1, HeadersUntouched DEF Dedup
  <2> QED
    BY <2>1, <2>2, <2>3, SameHeadersStep
<1>7. CASE DedupDone
  <2>1. op \in Running /\ op.pc \notin Between /\ op.pc # "oldhdr" /\ op.upd
    BY <1>7, <1>a DEF DedupDone, Between, HeaderInv
  <2>2. op'.sect = op.sect /\ op'.seq = op.seq /\ op'.pc = "copy" /\ op'.upd
    BY <1>7, <2>1 DEF DedupDone, Running
  <2> QED
    BY <1>7, <2>1, <2>2, SameHeadersStep DEF DedupDone, SameHeaders
<1>8. CASE Copy
  <2>1. /\ op \in Running /\ op.pc = "copy" /\ op.upd
        /\ Other(op.sect) \in Sect /\ op.scan \in Nat
    BY <1>8, <1>a DEF Copy, HeaderInv
  <2>2. \/ op'.pc \in Between
        \/ op'.sect = op.sect /\ op'.seq = op.seq /\ op'.pc = "copy" /\ op'.upd
    <3>1. \/ Return("NV_ITEM_CHECK_ERROR")
          \/ Return("NV_CHECK_SUM_ERROR")
          \/ op' = [op EXCEPT !.scan = @ + 1]
          \/ op' = [op EXCEPT !.scan = @ + 1, !.pos = @ + 1]
      BY <1>8 DEF Copy
    <3> QED
      BY <2>1, <3>1, RequestKept DEF Running
  <2>3. SameHeaders
    <3>1. UNCHANGED flash \/ \E f : flash' = [flash EXCEPT ![Other(op.sect)].idx = Append(@, f)]
      BY <1>8 DEF Copy
    <3> QED
      BY <2>1, <3>1, HeadersUntouched
  <2> QED
    BY <2>1, <2>2, <2>3, SameHeadersStep DEF Between
<1>9. CASE CopyDone
  <2>1. op \in Running /\ op.pc = "copy" /\ UNCHANGED flash
    BY <1>9, <1>a DEF CopyDone
  <2>2. \/ op'.pc \in Between
        \/ op'.sect = op.sect /\ op'.seq = op.seq /\ op'.pc = "index"
    BY <1>9, <2>1, RequestKept DEF CopyDone
  <2> QED
    BY <2>1, <2>2, SameHeadersStep DEF Between, SameHeaders
<1>10. CASE WriteIndex
  <2>1. op \in Running /\ op.pc = "index" /\ Target \in Sect
    BY <1>10, <1>a DEF WriteIndex
  <2>2. \/ op'.pc \in Between
        \/ op'.sect = op.sect /\ op'.seq = op.seq /\ op'.pc = "payload"
    BY <1>10, <2>1, RequestKept DEF WriteIndex, Running
  <2>3. SameHeaders
    BY <1>10, <2>1, HeadersUntouched DEF WriteIndex
  <2> QED
    BY <2>1, <2>2, <2>3, SameHeadersStep DEF Between
<1>11. CASE WritePayload
  <2>1. op \in Running /\ op.pc = "payload" /\ Target \in Sect /\ op.pos \in Nat
    BY <1>11, <1>a DEF WritePayload
  <2>2. op'.sect = op.sect /\ op'.seq = op.seq /\ op'.pc = "itemhdr"
    BY <1>11, <2>1, RequestKept DEF WritePayload
  <2>3. SameHeaders
    BY <1>11, <2>1, HeadersUntouched DEF WritePayload
  <2> QED
    BY <2>1, <2>2, <2>3, SameHeadersStep DEF Between
<1>12. CASE WriteItemHdr
  <2>1. op \in Running /\ op.pc = "itemhdr" /\ Target \in Sect /\ op.pos \in Nat
    BY <1>12, <1>a DEF WriteItemHdr
  <2>2. op'.sect = op.sect /\ op'.seq = op.seq /\ op'.pc = "state"
    BY <1>12, <2>1, RequestKept DEF WriteItemHdr
  <2>3. SameHeaders
    BY <1>12, <2>1, HeadersUntouched DEF WriteItemHdr
  <2> QED
    BY <2>1, <2>2, <2>3, SameHeadersStep DEF Between
<1>13. CASE WriteState
  <2>1. op \in Running /\ op.pc = "state" /\ Target \in Sect /\ op.pos \in Nat
    BY <1>13, <1>a DEF WriteState
  <2>2. \/ op'.pc \in Between
        \/ op'.sect = op.sect /\ op'.seq = op.seq /\ op'.pc = "delete"
        \/ /\ op'.sect = op.sect /\ op'.seq = op.seq /\ op'.upd = op.upd
           /\ (op'.pc = "newhdr" /\ op.upd) \/ (op'.pc = "firsthdr" /\ ~op.upd)
    BY <1>13, <2>1, RequestKept DEF WriteState
  <2>3. SameHeaders
    BY <1>13, <2>1, HeadersUntouched DEF WriteState
  <2> QED
    BY <2>1, <2>2, <2>3, SameHeadersStep DEF Between
<1>14. CASE DeleteOld
  <2>1. op \in Running /\ op.pc = "delete" /\ Target \in Sect /\ op.del \in Nat
    BY <1>14, <1>a DEF DeleteOld
  <2>2. \/ op'.pc \in Between
        \/ /\ op'.sect = op.sect /\ op'.seq = op.seq /\ op'.upd = op.upd
           /\ (op'.pc = "newhdr" /\ op.upd) \/ (op'.pc = "firsthdr" /\ ~op.upd)
    BY <1>14, <2>1, RequestKept DEF DeleteOld
  <2>3. SameHeaders
    BY <1>14, <2>1, HeadersUntouched DEF DeleteOld
  <2> QED
    BY <2>1, <2>2, <2>3, SameHeadersStep DEF Between
<1>18. CASE Remove
  <2>1. op \in Running
    BY <1>18, <1>a DEF Remove
  <2>2. PICK q \in SectorRead :
          LET k == IndexRead(q % 2, op.item)
          IN IF k = 0
               THEN UNCHANGED flash /\ Return("NV_ITEM_NOT_FOUND")
               ELSE Unchecked(SetState(q % 2, k, "INVALID")) /\ Return("NV_SUCC")
    BY <1>18 DEF Remove
  <2>3. q % 2 \in Sect /\ IndexRead(q % 2, op.item) \in Nat
    BY SectorReadType, IndexReadType DEF Sect
  <2>4. op'.pc \in Between
    BY <2>1, <2>2, RequestKept
  <2>5. SameHeaders
    BY <2>2, <2>3, HeadersUntouched
  <2> QED
    BY <2>4, <2>5, SameHeadersStep
<1>19. CASE RefusedWrite
  <2>1. op \in Running
    BY <1>19, <1>a DEF RefusedWrite, Refused
  <2>2. op'.pc \in Between /\ UNCHANGED flash
    BY <1>19, <2>1, RequestKept DEF RefusedWrite, Refused
  <2> QED
    BY <2>2, SameHeadersStep DEF SameHeaders
<1>21. CASE UNCHANGED vars
  BY <1>21, SameHeadersKeep DEF vars, HeaderInv, Takeover, SameHeaders
<1>3. CASE SectorReadForWrite
  <2>1. PICK q \in SectorRead :
           /\ op' = [op EXCEPT !.pc = "locate", !.seq = q, !.sect = q % 2]
           /\ IF flash[Other(q % 2)].flag = "VALID"
                THEN Unchecked(SetFlag(Other(q % 2), "INVALID"))
                ELSE UNCHANGED flash
    BY <1>3 DEF SectorReadForWrite
  <2>2. q \in 0..3 /\ q % 2 \in Sect /\ Other(q % 2) \in Sect
    BY SectorReadType DEF Sect, Other
  <2>3. op'.pc = "locate" /\ op'.seq = q /\ op'.sect = q % 2
    <3>1. op \in Running
      BY <1>3, <1>a DEF SectorReadForWrite
    <3> QED
      BY <2>1, <3>1 DEF Running
  <2>4. CASE SameHeaders
    <3>1. Formatted => flash[q % 2].flag = "VALID" /\ CurrentSeq = q
      BY InUse DEF SectorRead
    <3>2. Formatted' => flash'[q % 2].flag = "VALID" /\ CurrentSeq' = q
      BY <2>2, <2>4, <3>1, SameHeadersKeep DEF SameHeaders
    <3>3. \A s \in Sect : flash'[s].flag = "VALID" => flash'[s].seq % 2 = s
      BY <2>4 DEF HeaderInv, SameHeaders
    <3> QED
      BY <2>3, <2>4, <3>2, <3>3, SameHeadersKeep DEF HeaderInv, Takeover
  <2>5. CASE flash[Other(q % 2)].flag = "VALID" /\ flash' = SetFlag(Other(q % 2), "INVALID")
    <3>1. Formatted
      BY <2>2, <2>5 DEF Formatted, ValidSect
    <3>2. q = CurrentSeq /\ flash[q % 2].flag = "VALID" /\ flash[q % 2].seq = q
      BY <3>1, InUse DEF SectorRead
    <3>3. /\ flash'[Other(q % 2)].flag = "INVALID"
          /\ flash'[q % 2].flag = "VALID" /\ flash'[q % 2].seq = q
      BY <2>2, <2>5, <3>2 DEF SetFlag, Other, Sect, TypeOK, Sector
    <3>4. Formatted' /\ CurrentSeq' = q
      BY <2>2, <3>3, CurrentSeqCasesNext DEF SeqCases
    <3>5. \A s \in Sect : s = q % 2 \/ s = Other(q % 2)
      BY <2>2 DEF Sect, Other
    <3>6. \A s \in Sect : flash'[s].flag = "VALID" => flash'[s].seq % 2 = s
      BY <3>3, <3>5
    <3> QED
      BY <2>3, <3>2, <3>3, <3>4, <3>6 DEF HeaderInv, Takeover
  <2> QED
    BY <2>1, <2>4, <2>5 DEF Unchecked, SameHeaders
<1>5. CASE Erase
  <2>1. /\ op \in Running /\ op.pc = "erase" /\ op.sect \in Sect /\ Other(op.sect) \in Sect
        /\ op.upd /\ op.sect = op.seq % 2
    BY <1>5, <1>a DEF Erase, HeaderInv
  <2>2. /\ op'.sect = op.sect /\ op'.seq = op.seq /\ op'.upd = op.upd
        /\ op'.pc \in {"dedup", "copy"}
    BY <1>5, <2>1 DEF Erase, Running
  <2>3. CASE UNCHANGED flash
    BY <2>1, <2>2, <2>3, SameHeadersStep DEF SameHeaders, Between
  <2>4. CASE flash' = [flash EXCEPT ![Other(op.sect)] = BlankSector]
    <3>1. /\ flash'[Other(op.sect)].flag = "IDLE"
          /\ flash'[op.sect] = flash[op.sect]
      BY <2>1, <2>4 DEF TypeOK, Other, Sect, BlankSector
    <3>2. \A s \in Sect : s = op.sect \/ s = Other(op.sect)
      BY <2>1 DEF Sect, Other
    <3>3. \A s \in Sect : flash'[s].flag = "VALID" => flash'[s].seq % 2 = s
      BY <3>1, <3>2 DEF HeaderInv
    <3>4. CASE Formatted
      <4>1. flash[op.sect].flag = "VALID" /\ CurrentSeq = op.seq
        BY <2>1, <3>4 DEF HeaderInv
      <4>2. flash[op.sect].seq = op.seq
        BY <2>1, <3>4, <4>1, InUse
      <4>3. Formatted' /\ CurrentSeq' = op.seq
        BY <2>1, <3>1, <4>1, <4>2, CurrentSeqCasesNext DEF SeqCases
      <4> QED
        BY <2>1, <2>2, <3>1, <3>3, <4>1, <4>3 DEF HeaderInv, Takeover
    <3>5. CASE ~Formatted
      <4>1. ~Formatted'
        BY <3>1, <3>2, <3>5 DEF Formatted, ValidSect
      <4> QED
        BY <2>1, <2>2, <3>3, <3>5, <4>1 DEF HeaderInv, Takeover
    <3> QED
      BY <3>4, <3>5
  <2> QED
    BY <1>5, <2>3, <2>4 DEF Erase, Unchecked
<1>15. CASE WriteFirstHdr
  <2>1. op \in Running /\ op.pc = "firsthdr" /\ op.sect \in Sect
    BY <1>15, <1>a DEF WriteFirstHdr
  <2>2. op'.pc \in Between
    BY <1>15, <2>1, RequestKept DEF WriteFirstHdr
  <2>3. CASE UNCHANGED flash
    BY <2>2, <2>3, SameHeadersStep DEF SameHeaders
  <2>4. CASE /\ flash[op.sect].flag = "IDLE"
             /\ flash' = [flash EXCEPT ![op.sect].flag = "VALID", ![op.sect].seq = op.sect]
    <3>1. ~Formatted
      BY <2>1, <2>4 DEF HeaderInv
    <3>2. \A s \in Sect : s # op.sect => flash'[s].flag # "VALID"
      BY <2>1, <2>4, <3>1 DEF Formatted, ValidSect, TypeOK
    <3>3. flash'[op.sect].seq % 2 = op.sect
      BY <2>1, <2>4 DEF TypeOK, Sector, Sect
    <3> QED
      BY <2>2, <3>1, <3>2, <3>3 DEF HeaderInv, Takeover, Between
  <2> QED
    BY <1>15, <2>3, <2>4 DEF WriteFirstHdr, Unchecked
<1>16. CASE WriteNewHdr
  <2>1. /\ op \in Running /\ op.pc = "newhdr" /\ op.upd /\ op.seq \in 0..3
        /\ op.sect \in Sect /\ Other(op.sect) \in Sect
        /\ Target = Other(op.sect) /\ op.sect = op.seq % 2
    BY <1>16, <1>a DEF WriteNewHdr, HeaderInv, Target
  <2>2. CASE flash[Target].flag = "IDLE"
    <3>1. /\ flash' = [flash EXCEPT ![Target].flag = "VALID", ![Target].seq = (op.seq + 1) % 4]
          /\ op'.pc = "oldhdr" /\ op'.sect = op.sect /\ op'.seq = op.seq /\ op'.upd = op.upd
      BY <1>16, <2>1, <2>2, RequestKept DEF WriteNewHdr
    <3>2. /\ flash'[Other(op.sect)].flag = "VALID"
          /\ flash'[Other(op.sect)].seq = (op.seq + 1) % 4
          /\ flash'[op.sect] = flash[op.sect]
      BY <2>1, <3>1 DEF TypeOK, Sector, Sect, Other
    <3>3. \A s \in Sect : s = op.sect \/ s = Other(op.sect)
      BY <2>1 DEF Sect, Other
    <3>4. ((op.seq + 1) % 4) % 2 = Other(op.sect)
      BY <2>1 DEF Other
    <3>5. \A s \in Sect : flash'[s].flag = "VALID" => flash'[s].seq % 2 = s
      BY <3>2, <3>3, <3>4 DEF HeaderInv
    <3>6. flash[op.sect].flag = "VALID" =>
            Formatted /\ flash[op.sect].seq = op.seq /\ CurrentSeq = op.seq
      <4>1. flash[op.sect].flag = "VALID" => Formatted
        BY <2>1 DEF Formatted, ValidSect
      <4>2. Formatted => CurrentSeq = op.seq
        BY <2>1 DEF HeaderInv
      <4> QED
        BY <2>1, <4>1, <4>2, InUse
    <3>7. HeaderInv'
      BY <2>1, <3>1, <3>2, <3>5, <3>6 DEF HeaderInv, Other
    <3>8. ASSUME Formatted PROVE Formatted' /\ CurrentSeq' = (CurrentSeq + 1) % 4
      <4>1. flash[op.sect].flag = "VALID" /\ CurrentSeq = op.seq
        BY <2>1, <3>8 DEF HeaderInv
      <4>2. Formatted' /\ CurrentSeq' = NewerSeq(flash'[0].seq, flash'[1].seq)
        BY <2>1, <3>2, <4>1, CurrentSeqCasesNext DEF SeqCases
      <4>3. \/ /\ op.sect = 0 /\ op.seq \in {0, 2}
               /\ flash'[0].seq = op.seq /\ flash'[1].seq = (op.seq + 1) % 4
            \/ /\ op.sect = 1 /\ op.seq \in {1, 3}
               /\ flash'[1].seq = op.seq /\ flash'[0].seq = (op.seq + 1) % 4
        BY <2>1, <3>2, <3>6, <4>1 DEF Other, Sect
      <4> QED
        BY <4>1, <4>2, <4>3 DEF NewerSeq
    <3> QED
      BY <3>7, <3>8 DEF Takeover
  <2>3. CASE flash[Target].flag # "IDLE"
    <3>1. op'.pc \in Between /\ UNCHANGED flash
      BY <1>16, <2>1, <2>3, RequestKept DEF WriteNewHdr
    <3> QED
      BY <3>1, SameHeadersStep DEF SameHeaders
  <2> QED
    BY <2>2, <2>3
<1>17. CASE InvalidateOldHdr
  <2>1. /\ op \in Running /\ op.pc = "oldhdr" /\ op.seq \in 0..3
        /\ op.sect \in Sect /\ Other(op.sect) \in Sect /\ op.sect = op.seq % 2
        /\ flash[Other(op.sect)].flag = "VALID"
        /\ flash[Other(op.sect)].seq = (op.seq + 1) % 4
        /\ flash[op.sect].flag = "VALID" => flash[op.sect].seq = op.seq
    BY <1>17, <1>a DEF InvalidateOldHdr, HeaderInv
  <2>2. op'.pc \in Between
    BY <1>17, <2>1, RequestKept DEF InvalidateOldHdr
  <2>3. CASE UNCHANGED flash
    BY <2>2, <2>3, SameHeadersStep DEF SameHeaders
  <2>4. CASE flash' = SetFlag(op.sect, "INVALID")
    <3>1. /\ flash'[op.sect].flag = "INVALID"
          /\ flash'[Other(op.sect)] = flash[Other(op.sect)]
      BY <2>1, <2>4 DEF SetFlag, TypeOK, Sector, Sect, Other
    <3>2. \A s \in Sect : s = op.sect \/ s = Other(op.sect)
      BY <2>1 DEF Sect, Other
    <3>3. \A s \in Sect : flash'[s].flag = "VALID" => flash'[s].seq % 2 = s
      BY <3>1, <3>2 DEF HeaderInv
    <3>o. Other(Other(op.sect)) = op.sect
      BY <2>1 DEF Other, Sect
    <3>4. Formatted' /\ CurrentSeq' = (op.seq + 1) % 4
      BY <2>1, <3>1, <3>o, CurrentSeqCasesNext DEF SeqCases
    <3>5. CurrentSeq = (op.seq + 1) % 4
      <4>1. CASE flash[op.sect].flag # "VALID"
        BY <2>1, <3>o, <4>1, CurrentSeqCases DEF SeqCases
      <4>2. CASE flash[op.sect].flag = "VALID"
        <5>1. CurrentSeq = NewerSeq(flash[0].seq, flash[1].seq)
          BY <2>1, <4>2, CurrentSeqCases DEF SeqCases
        <5>2. \/ /\ op.sect = 0 /\ op.seq \in {0, 2}
                 /\ flash[0].seq = op.seq /\ flash[1].seq = (op.seq + 1) % 4
              \/ /\ op.sect = 1 /\ op.seq \in {1, 3}
                 /\ flash[1].seq = op.seq /\ flash[0].seq = (op.seq + 1) % 4
          BY <2>1, <4>2 DEF Other, Sect
        <5> QED
          BY <5>1, <5>2 DEF NewerSeq
      <4> QED
        BY <4>1, <4>2
    <3> QED
      BY <2>2, <3>3, <3>4, <3>5 DEF HeaderInv, Takeover, Between
  <2> QED
    BY <1>17, <2>3, <2>4 DEF InvalidateOldHdr, Unchecked
<1>20. CASE Crash
  <2>1. Target \in Sect /\ op.pos \in Nat
    BY <1>20, <1>a DEF Crash
  <2>2. op'.pc \in Between
    BY <1>20 DEF Crash, Rest, Between
  <2>3. CASE SameHeaders
    BY <2>2, <2>3, SameHeadersStep
  <2>4. CASE flash[Target].flag = "IDLE" /\ flash' = SetFlag(Target, "TORN")
    <3>1. /\ flash'[Target].flag = "TORN"
          /\ \A s \in Sect : flash'[s].seq = flash[s].seq
          /\ \A s \in Sect : s # Target => flash'[s].flag = flash[s].flag
      BY <2>1, <2>4 DEF SetFlag, TypeOK, Sector
    <3>2. ValidSect' = ValidSect
      BY <2>4, <3>1 DEF ValidSect
    <3>3. Formatted' = Formatted /\ CurrentSeq' = CurrentSeq
      BY <3>1, <3>2 DEF Formatted, CurrentSeq, NewerSeq, Sect
    <3>4. \A s \in Sect : flash'[s].flag = "VALID" => flash'[s].seq % 2 = s
      BY <3>1 DEF HeaderInv
    <3> QED
      BY <2>2, <3>3, <3>4 DEF HeaderInv, Takeover, Between
  <2> QED
    BY <1>20, <2>1, <2>3, <2>4, HeadersUntouched DEF Crash, Torn
<1> QED
  BY <1>1, <1>2, <1>3, <1>4, <1>5, <1>6, <1>7, <1>8, <1>9, <1>10, <1>11, <1>12, <1>13,
     <1>14, <1>15, <1>16, <1>17, <1>18, <1>19, <1>20, <1>21, NvAssumption DEF Next, Step

\* A write works on the sector in use from its start to its end: the sector it
\* erases and fills is the other one, whatever crashes and refusals happen.
THEOREM HeaderInvariant == Spec => []HeaderInv
<1>1. Init => HeaderInv
  BY DEF Init, HeaderInv, BlankSector, Idle, Rest
<1>2. TypeOK /\ TypeOK' /\ HeaderInv /\ [Next]_vars => HeaderInv'
  BY HeaderStep
<1> QED
  BY <1>1, <1>2, TypeCorrect, PTL DEF Spec

\* A module that has a valid sector header never loses it, and the sector in
\* use is only ever followed by the next one modulo 4.
THEOREM SectorNeverLost == Spec => SectorTakeover
<1>1. TypeOK /\ TypeOK' /\ HeaderInv /\ [Next]_vars =>
        [Formatted => /\ Formatted'
                      /\ CurrentSeq' \in {CurrentSeq, (CurrentSeq + 1) % 4}]_vars
  BY HeaderStep DEF Takeover
<1> QED
  BY <1>1, TypeCorrect, HeaderInvariant, PTL DEF Spec, SectorTakeover

-----------------------------------------------------------------------------
(* What a sector holds *)

Idx(s) == flash[s].idx

\* entry k is valid and of item i; the entries of i among the first n; the newest
\* of them, and what it holds
ValidFor(l, k, i) == l[k].state = "VALID_SINGLE" /\ l[k].item = i
Hits(l, i, n) == {k \in 1..n : ValidFor(l, k, i)}
\* the first n entries of l and m are the same, but for values of invalid ones
SameEntries(l, m, n) ==
  \A k \in 1..n : /\ m[k].state = l[k].state /\ m[k].item = l[k].item
                  /\ l[k].state = "VALID_SINGLE" => m[k].val = l[k].val

Top(S) == IF S = {} THEN 0 ELSE CHOOSE k \in S : \A j \in S : j <= k
Newest(l, i, n) == Top(Hits(l, i, n))
Val(l, i, n) == IF Newest(l, i, n) = 0 THEN Absent ELSE l[Newest(l, i, n)].val

\* The newest entry of an item is the last of its valid entries.
LEMMA NewestIs ==
  ASSUME NEW l, NEW i, NEW n \in Nat
  PROVE  /\ Hits(l, i, n) = {} => Newest(l, i, n) = 0
         /\ Hits(l, i, n) # {} => /\ Newest(l, i, n) \in Hits(l, i, n)
                                  /\ \A j \in Hits(l, i, n) : j <= Newest(l, i, n)
<1> DEFINE S == Hits(l, i, n)
<1>1. S \in SUBSET (1..n)
  BY DEF Hits
<1> HIDE DEF S
<1>2. S # {} => \E k \in S : \A j \in S : j <= k
  BY <1>1, Largest
<1>3. /\ S = {} => Top(S) = 0
      /\ S # {} => Top(S) \in S /\ \A j \in S : j <= Top(S)
  BY <1>2 DEF Top
<1> QED BY <1>3 DEF S, Newest

\* m has the valid entries of item i that l has, but for some that have a newer one.
Covers(l, m, i, n) ==
  /\ \A k \in 1..n : ValidFor(m, k, i) => ValidFor(l, k, i) /\ m[k].val = l[k].val
  /\ \A k \in 1..n : ValidFor(l, k, i) /\ ~ValidFor(m, k, i) =>
                       \E j \in 1..n : j > k /\ ValidFor(m, j, i)

\* Then both have the same newest entry of the item.
LEMMA ValKeep == \A l, m, i, n : n \in Nat /\ Covers(l, m, i, n) =>
                      /\ Val(m, i, n) = Val(l, i, n)
                      /\ Newest(m, i, n) = Newest(l, i, n)
                      /\ (Hits(m, i, n) = {}) <=> (Hits(l, i, n) = {})
<1> SUFFICES ASSUME NEW l, NEW m, NEW i, NEW n \in Nat, Covers(l, m, i, n)
             PROVE  /\ Val(m, i, n) = Val(l, i, n)
                    /\ Newest(m, i, n) = Newest(l, i, n)
                    /\ (Hits(m, i, n) = {}) <=> (Hits(l, i, n) = {})
  OBVIOUS
<1>0. /\ \A k \in 1..n : ValidFor(m, k, i) => ValidFor(l, k, i) /\ m[k].val = l[k].val
      /\ \A k \in 1..n : ValidFor(l, k, i) /\ ~ValidFor(m, k, i) =>
                           \E j \in 1..n : j > k /\ ValidFor(m, j, i)
  BY DEF Covers
<1> DEFINE a == Newest(l, i, n)
           b == Newest(m, i, n)
<1>1. \A k : k \in Hits(l, i, n) <=> k \in 1..n /\ ValidFor(l, k, i)
  BY DEF Hits
<1>2. \A k : k \in Hits(m, i, n) <=> k \in 1..n /\ ValidFor(m, k, i)
  BY DEF Hits
<1>3. /\ Hits(l, i, n) = {} => a = 0
      /\ Hits(l, i, n) # {} => a \in Hits(l, i, n) /\ \A j \in Hits(l, i, n) : j <= a
  BY NewestIs
<1>4. /\ Hits(m, i, n) = {} => b = 0
      /\ Hits(m, i, n) # {} => b \in Hits(m, i, n) /\ \A j \in Hits(m, i, n) : j <= b
  BY NewestIs
<1> HIDE DEF a, b
<1>5. (Hits(m, i, n) = {}) <=> (Hits(l, i, n) = {})
  BY <1>0, <1>1, <1>2
<1>6. CASE Hits(l, i, n) = {}
  BY <1>3, <1>4, <1>5, <1>6 DEF Val, a, b
<1>7. CASE Hits(l, i, n) # {}
  <2>1. a \in 1..n /\ ValidFor(l, a, i) /\ \A j \in Hits(l, i, n) : j <= a
    BY <1>1, <1>3, <1>7
  <2>2. b \in 1..n /\ ValidFor(m, b, i) /\ \A j \in Hits(m, i, n) : j <= b
    BY <1>2, <1>4, <1>5, <1>7
  <2>3. b <= a
    BY <1>0, <1>1, <2>1, <2>2
  <2>4. ValidFor(m, a, i)
    <3> SUFFICES ASSUME ~ValidFor(m, a, i) PROVE FALSE
      OBVIOUS
    <3>1. PICK j \in 1..n : j > a /\ ValidFor(m, j, i)
      BY <1>0, <2>1
    <3>2. j \in Hits(l, i, n)
      BY <1>0, <1>1, <3>1
    <3>3. j <= a
      BY <2>1, <3>2
    <3> QED BY <2>1, <3>1, <3>3
  <2>5. a <= b
    BY <1>2, <2>1, <2>2, <2>4
  <2>6. a = b /\ a # 0
    BY <2>1, <2>2, <2>3, <2>5
  <2>7. m[a].val = l[a].val
    BY <1>0, <2>1, <2>4
  <2> QED BY <1>5, <2>6, <2>7 DEF Val, a, b
<1> QED BY <1>6, <1>7

\* Entries that read the same have the same newest entry of every item.
LEMMA ValSame == \A l, m, i, n : n \in Nat /\ SameEntries(l, m, n) =>
                      /\ Val(m, i, n) = Val(l, i, n)
                      /\ Newest(m, i, n) = Newest(l, i, n)
                      /\ (Hits(m, i, n) = {}) <=> (Hits(l, i, n) = {})
<1> SUFFICES ASSUME NEW l, NEW m, NEW i, NEW n \in Nat, SameEntries(l, m, n)
             PROVE  /\ Val(m, i, n) = Val(l, i, n)
                    /\ Newest(m, i, n) = Newest(l, i, n)
                    /\ (Hits(m, i, n) = {}) <=> (Hits(l, i, n) = {})
  OBVIOUS
<1>1. \A k \in 1..n : ValidFor(m, k, i) => ValidFor(l, k, i) /\ m[k].val = l[k].val
  BY DEF ValidFor, SameEntries
<1>2. \A k \in 1..n : ValidFor(l, k, i) /\ ~ValidFor(m, k, i) =>
                         \E j \in 1..n : j > k /\ ValidFor(m, j, i)
  BY DEF ValidFor, SameEntries
<1>3. Covers(l, m, i, n)
  BY <1>1, <1>2 DEF Covers
<1> QED BY <1>3, ValKeep

\* One more entry.
LEMMA ValStep ==
  ASSUME NEW l, NEW i, NEW n \in Nat
  PROVE  /\ Val(l, i, 0) = Absent /\ Hits(l, i, 0) = {} /\ Newest(l, i, 0) = 0
         /\ ValidFor(l, n + 1, i) => /\ Val(l, i, n + 1) = l[n + 1].val
                                     /\ Hits(l, i, n + 1) # {}
         /\ ~ValidFor(l, n + 1, i) => /\ Val(l, i, n + 1) = Val(l, i, n)
                                      /\ Newest(l, i, n + 1) = Newest(l, i, n)
                                      /\ Hits(l, i, n + 1) = Hits(l, i, n)
<1>1. Hits(l, i, 0) = {}
  BY DEF Hits
<1>2. Newest(l, i, 0) = 0 /\ Val(l, i, 0) = Absent
  BY <1>1, NewestIs DEF Val
<1>3. ASSUME ValidFor(l, n + 1, i)
      PROVE  Val(l, i, n + 1) = l[n + 1].val /\ Hits(l, i, n + 1) # {}
  <2>1. n + 1 \in Hits(l, i, n + 1) /\ \A j \in Hits(l, i, n + 1) : j \in 1..(n + 1)
    BY <1>3 DEF Hits
  <2>2. n + 1 \in Nat
    OBVIOUS
  <2>3. Newest(l, i, n + 1) \in Hits(l, i, n + 1) /\ n + 1 <= Newest(l, i, n + 1)
    BY <2>1, <2>2, NewestIs
  <2>4. Newest(l, i, n + 1) = n + 1
    BY <2>1, <2>3
  <2> QED BY <2>1, <2>4 DEF Val
<1>4. ASSUME ~ValidFor(l, n + 1, i)
      PROVE  /\ Val(l, i, n + 1) = Val(l, i, n) /\ Newest(l, i, n + 1) = Newest(l, i, n)
             /\ Hits(l, i, n + 1) = Hits(l, i, n)
  <2>1. Hits(l, i, n + 1) = Hits(l, i, n)
    BY <1>4 DEF Hits
  <2>2. Newest(l, i, n + 1) = Newest(l, i, n)
    BY <2>1 DEF Newest
  <2> QED BY <2>1, <2>2 DEF Val
<1> QED BY <1>1, <1>2, <1>3, <1>4

\* nv_index_read and the reads in these terms.
LEMMA Reading ==
  /\ \A s, i : IndexRead(s, i) = Newest(Idx(s), i, Len(Idx(s)))
  /\ \A s, i : ReadFrom(s, i) = Val(Idx(s), i, Len(Idx(s)))
<1>1. ASSUME NEW s, NEW i PROVE IndexRead(s, i) = Newest(Idx(s), i, Len(Idx(s)))
  BY DEF IndexRead, Newest, Top, Hits, ValidFor, Idx
<1>2. ASSUME NEW s, NEW i PROVE ReadFrom(s, i) = Val(Idx(s), i, Len(Idx(s)))
  BY <1>1 DEF ReadFrom, Val, Idx
<1> QED BY <1>1, <1>2

-----------------------------------------------------------------------------
(* What the programs do to a sector *)

\* The index entries of a sector.
LEMMA Lengths == TypeOK => \A s \in Sect : /\ Len(Idx(s)) \in Nat /\ Idx(s) \in Seq(Entry)
                                           /\ \A k \in 1..Len(Idx(s)) : Idx(s)[k] \in Entry
<1> SUFFICES ASSUME TypeOK, NEW s \in Sect
             PROVE  /\ Len(Idx(s)) \in Nat /\ Idx(s) \in Seq(Entry)
                    /\ \A k \in 1..Len(Idx(s)) : Idx(s)[k] \in Entry
  OBVIOUS
<1>1. Idx(s) \in Seq(Entry)
  BY DEF TypeOK, Sector, Idx
<1> QED BY <1>1, ElementOfSeq, LenProperties

\* There are two sectors.
LEMMA Sides ==
  ASSUME NEW s \in Sect
  PROVE  /\ Other(s) \in Sect /\ Other(s) # s /\ Other(Other(s)) = s
         /\ \A r \in Sect : r = s \/ r = Other(s)
BY DEF Sect, Other

\* the entries of sector s after a step that appends e, or programs entry k
Appended(s, e) ==
  /\ Len(Idx(s)') = Len(Idx(s)) + 1
  /\ \A k \in 1..Len(Idx(s)) : Idx(s)'[k] = Idx(s)[k]
  /\ Idx(s)'[Len(Idx(s)) + 1] = e

Changed(s, k) ==
  /\ Len(Idx(s)') = Len(Idx(s))
  /\ \A j \in 1..Len(Idx(s)) : j # k => Idx(s)'[j] = Idx(s)[j]

\* The program of a new index entry.
LEMMA Appending ==
  ASSUME TypeOK, NEW s \in Sect, NEW e \in Entry, flash' = [flash EXCEPT ![s].idx = Append(@, e)]
  PROVE  Appended(s, e) /\ Idx(Other(s))' = Idx(Other(s)) /\ SameHeaders
<1>1. Idx(s) \in Seq(Entry) /\ Len(Idx(s)) \in Nat
  BY Lengths
<1>2. Idx(s)' = Append(Idx(s), e)
  BY DEF Idx, TypeOK, Sector
<1> DEFINE l == Idx(s)
           m == Append(l, e)
<1>3. /\ Len(m) = Len(l) + 1 /\ \A k \in 1..Len(l) : m[k] = l[k]
      /\ m[Len(l) + 1] = e
  BY <1>1, AppendProperties
<1>4. Idx(Other(s))' = Idx(Other(s))
  BY Sides DEF Idx, TypeOK
<1>5. SameHeaders
  BY HeadersUntouched
<1> QED BY <1>2, <1>3, <1>4, <1>5 DEF Appended

\* The program of a field of an index entry touches no other entry, and no header.
LEMMA ProgramEffect ==
  ASSUME TypeOK, NEW s \in Sect, NEW k \in Nat,
         NEW v, NEW h, NEW st,
         \/ flash' = [flash EXCEPT ![s].idx[k].val = v]
         \/ flash' = [flash EXCEPT ![s].idx[k].hdr = h]
         \/ flash' = SetState(s, k, st)
  PROVE  Changed(s, k) /\ Idx(Other(s))' = Idx(Other(s)) /\ SameHeaders
<1>1. SameHeaders
  BY HeadersUntouched
<1> DEFINE l == Idx(s)
<1>2. PICK e : flash' = [flash EXCEPT ![s].idx = [l EXCEPT ![k] = e]]
  BY DEF SetState, Idx
<1>3. l \in Seq(Entry) /\ Len(l) \in Nat
  BY Lengths
<1>4. Idx(s)' = [l EXCEPT ![k] = e]
  BY <1>2 DEF Idx, TypeOK, Sector
<1> HIDE DEF l
<1>5. DOMAIN l = 1..Len(l) /\ Len([l EXCEPT ![k] = e]) = Len(l)
  BY <1>3, LenProperties
<1>6. \A j \in 1..Len(l) : j # k => [l EXCEPT ![k] = e][j] = l[j]
  BY <1>5
<1>7. Idx(Other(s))' = Idx(Other(s))
  BY <1>2, Sides DEF Idx, TypeOK
<1> QED BY <1>1, <1>4, <1>5, <1>6, <1>7 DEF Changed, l

\* The entry that is programmed.
LEMMA ValProgram ==
  ASSUME TypeOK, NEW s \in Sect, NEW k \in 1..Len(Idx(s)), NEW v,
         flash' = [flash EXCEPT ![s].idx[k].val = v]
  PROVE  /\ Changed(s, k) /\ Idx(Other(s))' = Idx(Other(s)) /\ SameHeaders
         /\ Idx(s)'[k].val = v /\ Idx(s)'[k].item = Idx(s)[k].item
         /\ Idx(s)'[k].state = Idx(s)[k].state
<1> DEFINE l == Idx(s)
<1>1. l \in Seq(Entry) /\ Len(l) \in Nat /\ l[k] \in Entry /\ k \in DOMAIN l /\ k \in Nat
  BY Lengths, LenProperties
<1>2. Idx(s)' = [l EXCEPT ![k] = [l[k] EXCEPT !.val = v]]
  BY DEF Idx, TypeOK, Sector
<1>3. Idx(s)'[k] = [l[k] EXCEPT !.val = v]
  BY <1>1, <1>2
<1>4. \A x \in Entry : /\ [x EXCEPT !.val = v].val = v /\ [x EXCEPT !.val = v].item = x.item
                       /\ [x EXCEPT !.val = v].state = x.state
  BY DEF Entry
<1>5. Changed(s, k) /\ Idx(Other(s))' = Idx(Other(s)) /\ SameHeaders
  BY <1>1, ProgramEffect
<1> HIDE DEF l
<1> QED BY <1>1, <1>3, <1>4, <1>5 DEF l

\* The same of its item header.
LEMMA HdrProgram ==
  ASSUME TypeOK, NEW s \in Sect, NEW k \in 1..Len(Idx(s)), NEW h,
         flash' = [flash EXCEPT ![s].idx[k].hdr = h]
  PROVE  /\ Changed(s, k) /\ Idx(Other(s))' = Idx(Other(s)) /\ SameHeaders
         /\ Idx(s)'[k].val = Idx(s)[k].val /\ Idx(s)'[k].item = Idx(s)[k].item
         /\ Idx(s)'[k].state = Idx(s)[k].state
<1> DEFINE l == Idx(s)
<1>1. l \in Seq(Entry) /\ Len(l) \in Nat /\ l[k] \in Entry /\ k \in DOMAIN l /\ k \in Nat
  BY Lengths, LenProperties
<1>2. Idx(s)' = [l EXCEPT ![k] = [l[k] EXCEPT !.hdr = h]]
  BY DEF Idx, TypeOK, Sector
<1>3. Idx(s)'[k] = [l[k] EXCEPT !.hdr = h]
  BY <1>1, <1>2
<1>4. \A x \in Entry : /\ [x EXCEPT !.hdr = h].val = x.val /\ [x EXCEPT !.hdr = h].item = x.item
                       /\ [x EXCEPT !.hdr = h].state = x.state
  BY DEF Entry
<1>5. Changed(s, k) /\ Idx(Other(s))' = Idx(Other(s)) /\ SameHeaders
  BY <1>1, ProgramEffect
<1> HIDE DEF l
<1> QED BY <1>1, <1>3, <1>4, <1>5 DEF l

\* The same of its used state.
LEMMA StateProgram ==
  ASSUME TypeOK, NEW s \in Sect, NEW k \in 1..Len(Idx(s)), NEW st, flash' = SetState(s, k, st)
  PROVE  /\ Changed(s, k) /\ Idx(Other(s))' = Idx(Other(s)) /\ SameHeaders
         /\ Idx(s)'[k].val = Idx(s)[k].val /\ Idx(s)'[k].item = Idx(s)[k].item
         /\ Idx(s)'[k].state = st
<1> DEFINE l == Idx(s)
<1>1. l \in Seq(Entry) /\ Len(l) \in Nat /\ l[k] \in Entry /\ k \in DOMAIN l /\ k \in Nat
  BY Lengths, LenProperties
<1>2. Idx(s)' = [l EXCEPT ![k] = [l[k] EXCEPT !.state = st]]
  BY DEF Idx, TypeOK, Sector, SetState
<1>3. Idx(s)'[k] = [l[k] EXCEPT !.state = st]
  BY <1>1, <1>2
<1>4. \A x \in Entry : /\ [x EXCEPT !.state = st].val = x.val /\ [x EXCEPT !.state = st].item = x.item
                       /\ [x EXCEPT !.state = st].state = st
  BY DEF Entry
<1>5. Changed(s, k) /\ Idx(Other(s))' = Idx(Other(s)) /\ SameHeaders
  BY <1>1, ProgramEffect
<1> HIDE DEF l
<1> QED BY <1>1, <1>3, <1>4, <1>5 DEF l

-----------------------------------------------------------------------------
(* The invariant of the store *)

\* Before the module has its first sector header no power is lost and no flash
\* operation refused.
FaultAssumption == Faults \cap {"crash", "refuse"} = {} \/ "early" \notin Faults

\* Items are removed where no flash operation is cut short or refused.
Clean == Removable # {} /\ Faults \cap {"crash", "refuse"} = {}

MapAssumption == FaultAssumption /\ (Removable = {} \/ Clean)

\* Items other than the one being written are in the sector being filled what
\* they are among the first n entries of the sector in use.
Copied(n) ==
  \A i \in Item \ {op.item} :
    /\ Val(Idx(Other(op.sect)), i, op.pos) = Val(Idx(op.sect), i, n)
    /\ (Hits(Idx(Other(op.sect)), i, op.pos) = {}) <=> (Hits(Idx(op.sect), i, n) = {})

MoveDone == Formatted /\ op.upd => Copied(Len(Idx(op.sect)))

\* while an item is programmed, and when it is complete
ItemPcs == {"payload", "itemhdr", "state"}
DonePcs == {"delete", "firsthdr", "newhdr"}

\* only the last entry of a sector may be torn
LastTorn == \A s \in Sect : \A k \in 1..Len(Idx(s)) : Idx(s)[k].state = "TORN" => k = Len(Idx(s))

\* before the module has a header, it holds at most the item being written
Fresh ==
  ~Formatted =>
    /\ \A s \in Sect : /\ flash[s].flag = "IDLE"
                       /\ \/ Len(Idx(s)) = 0
                          \/ op.pc \in ItemPcs \cup DonePcs /\ s = Target /\ Len(Idx(s)) = 1
    /\ op.pc # "delete"

RequestOK ==
  /\ op.pc = "remove" => Removable # {} /\ op.val = Absent
  /\ op.pc \notin {"idle", "remove"} => op.val \in Value

\* while items are copied, unless the erase was refused and the copy will fail
Copying ==
  /\ op.pc \in {"erase", "dedup"} => op.pos = 0
  /\ op.pc = "copy" =>
       /\ op.scan \in 1..(Len(Idx(op.sect)) + 1)
       /\ ~Formatted => op.pos = 0
       /\ Formatted /\ Len(Idx(Other(op.sect))) = op.pos =>
            /\ Copied(op.scan - 1)
            /\ \A k \in 1..op.pos : /\ Idx(Other(op.sect))[k].state = "VALID_SINGLE"
                                    /\ Idx(Other(op.sect))[k].item # op.item

Indexing ==
  op.pc = "index" /\ Len(Idx(Target)) = op.pos =>
    /\ \A k \in 1..op.pos : Idx(Target)[k].state # "TORN"
    /\ MoveDone

Writing ==
  op.pc \in ItemPcs \cup DonePcs =>
    /\ op.pos >= 1 /\ Len(Idx(Target)) = op.pos
    /\ Idx(Target)[op.pos].item = op.item
    /\ op.pc # "payload" => Idx(Target)[op.pos].val = op.val
    /\ Idx(Target)[op.pos].state = IF op.pc \in DonePcs THEN "VALID_SINGLE" ELSE "OPERATION"
    /\ MoveDone
    /\ op.pc \in ItemPcs => op.del = Newest(Idx(Target), op.item, op.pos)
    /\ op.pc = "delete" => op.del \in 1..(op.pos - 1) /\ Idx(Target)[op.del].item = op.item

\* when the new sector has its header, it holds what is being written
Moved == op.pc = "oldhdr" => ReadFrom(Other(op.sect), op.item) = op.val

\* two valid entries of an item
Pair(l, k, j) == k < j /\ l[k].state = "VALID_SINGLE" /\ ValidFor(l, j, l[k].item)

\* then an item has one valid entry, or the two of which the older is about to
\* be invalidated
Single ==
  Clean =>
    \A s \in Sect : \A k, j \in 1..Len(Idx(s)) :
      Pair(Idx(s), k, j) => op.pc = "delete" /\ s = Target /\ k = op.del /\ j = op.pos

StoreInv == LastTorn /\ Fresh /\ RequestOK /\ Copying /\ Indexing /\ Writing /\ Moved /\ Single

-----------------------------------------------------------------------------
(* What the steps do to the store *)

StoreSame == \A i \in Item : View(i)' = View(i)
StoreApplied == \A i \in Item : View(i)' = IF i = op.item THEN op.val ELSE View(i)

OthersSame == \A i \in Item : i # op.item => View(i)' = View(i)

\* a request goes on, or ends; it succeeds only when it has taken effect
Kept ==
  /\ StoreSame \/ StoreApplied
  /\ op'.pc # "idle" => op'.item = op.item /\ op'.val = op.val
  /\ op'.pc = "idle" /\ op'.res = "NV_SUCC" => StoreApplied /\ Formatted'

\* What the type invariant says of a request in progress.
LEMMA OpFacts ==
  ASSUME TypeOK, op.pc # "idle"
  PROVE  /\ op \in Running /\ op.sect \in Sect /\ Other(op.sect) \in Sect /\ Other(op.sect) # op.sect
         /\ Target \in Sect /\ op.seq \in 0..3 /\ op.upd \in BOOLEAN
         /\ Target = IF op.upd THEN Other(op.sect) ELSE op.sect
         /\ op.pos \in Nat /\ op.scan \in Nat /\ op.del \in Nat
         /\ op.item \in Item /\ op.val \in Value \cup {Absent} /\ op.res = "none"
         /\ \A s \in Sect : s = op.sect \/ s = Other(op.sect)
<1>1. op \in Running
  BY DEF TypeOK, Resting, Rest
<1> QED
  BY <1>1, Sides DEF Running, Sect, Target

\* A request that goes on to its next step.
LEMMA GotoKeeps ==
  ASSUME op \in Running, NEW p, Goto(p)
  PROVE  /\ op'.pc = p /\ op'.item = op.item /\ op'.val = op.val /\ op'.sect = op.sect
         /\ op'.seq = op.seq /\ op'.upd = op.upd /\ op'.pos = op.pos /\ op'.scan = op.scan
         /\ op'.del = op.del /\ op'.res = op.res /\ Target' = Target
BY DEF Goto, Running, Target, Other

\* A request that ends, or is tried again.
LEMMA ReturnKeeps ==
  ASSUME op \in Running, NEW r, Return(r)
  PROVE  \/ /\ op'.pc = "sector" /\ r = "NV_ITEM_CHECK_ERROR"
            /\ op'.item = op.item /\ op'.val = op.val
         \/ op'.pc = "idle" /\ op'.res = r
BY DEF Return, Running, Rest

\* what an item reads as
LEMMA Viewing ==
  TypeOK /\ HeaderInv =>
    \A i : /\ ~Formatted => View(i) = Absent
           /\ Formatted => View(i) = Val(Idx(CurrentSeq % 2), i, Len(Idx(CurrentSeq % 2)))
           /\ Formatted /\ op.pc \notin Between \cup {"oldhdr"} =>
                /\ View(i) = Val(Idx(op.sect), i, Len(Idx(op.sect)))
                /\ flash[op.sect].flag = "VALID"
           /\ op.pc = "oldhdr" =>
                /\ Formatted /\ CurrentSeq = (op.seq + 1) % 4
                /\ View(i) = Val(Idx(Other(op.sect)), i, Len(Idx(Other(op.sect))))
<1> SUFFICES ASSUME TypeOK, HeaderInv, NEW i
             PROVE  /\ ~Formatted => View(i) = Absent
                    /\ Formatted => View(i) = Val(Idx(CurrentSeq % 2), i, Len(Idx(CurrentSeq % 2)))
                    /\ Formatted /\ op.pc \notin Between \cup {"oldhdr"} =>
                         /\ View(i) = Val(Idx(op.sect), i, Len(Idx(op.sect)))
                         /\ flash[op.sect].flag = "VALID"
                    /\ op.pc = "oldhdr" =>
                         /\ Formatted /\ CurrentSeq = (op.seq + 1) % 4
                         /\ View(i) = Val(Idx(Other(op.sect)), i, Len(Idx(Other(op.sect))))
  OBVIOUS
<1>1. ~Formatted => View(i) = Absent
  BY DEF View
<1>2. Formatted => View(i) = Val(Idx(CurrentSeq % 2), i, Len(Idx(CurrentSeq % 2)))
  BY Reading DEF View
<1>3. ASSUME Formatted, op.pc \notin Between \cup {"oldhdr"}
      PROVE  /\ View(i) = Val(Idx(op.sect), i, Len(Idx(op.sect)))
             /\ flash[op.sect].flag = "VALID"
  <2>1. op.sect = op.seq % 2 /\ flash[op.sect].flag = "VALID" /\ CurrentSeq = op.seq
    BY <1>3 DEF HeaderInv, Between
  <2> QED BY <1>2, <1>3, <2>1
<1>4. ASSUME op.pc = "oldhdr"
      PROVE  /\ Formatted /\ CurrentSeq = (op.seq + 1) % 4
             /\ View(i) = Val(Idx(Other(op.sect)), i, Len(Idx(Other(op.sect))))
  <2> DEFINE a == op.sect
             b == Other(op.sect)
  <2>1. a \in Sect /\ b \in Sect /\ op.seq \in 0..3 /\ a = op.seq % 2 /\ Other(b) = a
    BY <1>4, OpFacts, Sides DEF HeaderInv
  <2>2. /\ flash[b].flag = "VALID" /\ flash[b].seq = (op.seq + 1) % 4
        /\ flash[a].flag = "VALID" => flash[a].seq = op.seq
    BY <1>4 DEF HeaderInv
  <2>3. Formatted /\ CurrentSeq = (op.seq + 1) % 4
    <3>1. CASE flash[a].flag # "VALID"
      BY <2>1, <2>2, <3>1, CurrentSeqCases DEF SeqCases
    <3>2. CASE flash[a].flag = "VALID"
      <4>1. Formatted /\ CurrentSeq = NewerSeq(flash[0].seq, flash[1].seq)
        BY <2>1, <2>2, <3>2, CurrentSeqCases DEF SeqCases
      <4>2. \/ /\ a = 0 /\ b = 1 /\ op.seq \in {0, 2}
               /\ flash[0].seq = op.seq /\ flash[1].seq = (op.seq + 1) % 4
            \/ /\ a = 1 /\ b = 0 /\ op.seq \in {1, 3}
               /\ flash[1].seq = op.seq /\ flash[0].seq = (op.seq + 1) % 4
        BY <2>1, <2>2, <3>2 DEF Other, Sect
      <4> QED BY <4>1, <4>2 DEF NewerSeq
    <3> QED BY <3>1, <3>2
  <2>4. CurrentSeq % 2 = b
    BY <2>1, <2>3 DEF Other, Sect
  <2> QED BY <1>2, <2>3, <2>4
<1> QED BY <1>1, <1>2, <1>3, <1>4

\* The same of the next state.
LEMMA ViewingNext ==
  TypeOK' /\ HeaderInv' =>
    (\A i : /\ ~Formatted => View(i) = Absent
            /\ Formatted => View(i) = Val(Idx(CurrentSeq % 2), i, Len(Idx(CurrentSeq % 2)))
            /\ Formatted /\ op.pc \notin Between \cup {"oldhdr"} =>
                 /\ View(i) = Val(Idx(op.sect), i, Len(Idx(op.sect)))
                 /\ flash[op.sect].flag = "VALID"
            /\ op.pc = "oldhdr" =>
                 /\ Formatted /\ CurrentSeq = (op.seq + 1) % 4
                 /\ View(i) = Val(Idx(Other(op.sect)), i, Len(Idx(Other(op.sect)))))'
BY Viewing, PTL

\* The index entries of a sector in the next state.
LEMMA LengthsNext ==
  TypeOK' => (\A s \in Sect : /\ Len(Idx(s)) \in Nat /\ Idx(s) \in Seq(Entry)
                              /\ \A k \in 1..Len(Idx(s)) : Idx(s)[k] \in Entry)'
BY Lengths, PTL

\* The headers and the valid entries of the sector in use are what they were.
LEMMA ViewKept ==
  ASSUME TypeOK, TypeOK', HeaderInv, HeaderInv', Formatted' = Formatted,
         Formatted => CurrentSeq' = CurrentSeq,
         \A i \in Item : Formatted =>
           Val(Idx(CurrentSeq % 2), i, Len(Idx(CurrentSeq % 2)))' =
             Val(Idx(CurrentSeq % 2), i, Len(Idx(CurrentSeq % 2)))
  PROVE  StoreSame
BY Viewing, ViewingNext DEF StoreSame

-----------------------------------------------------------------------------
(* The steps, one by one *)

Known == /\ TypeOK /\ TypeOK' /\ HeaderInv /\ HeaderInv' /\ Takeover
         /\ StoreInv /\ FaultAssumption

Steady == Fresh' /\ RequestOK' /\ Copying' /\ Indexing' /\ Writing' /\ Moved'
Going == Steady /\ Kept

\* A step that does not touch the flash.
LEMMA FlashSame ==
  ASSUME UNCHANGED flash
  PROVE  /\ Formatted' = Formatted /\ CurrentSeq' = CurrentSeq
         /\ \A s : Idx(s)' = Idx(s)
         /\ StoreSame /\ SameHeaders
BY DEF Formatted, CurrentSeq, ValidSect, NewerSeq, View, ReadFrom, IndexRead, Idx, StoreSame,
       SameHeaders

\* Before there is a header, nothing is there between two items.
LEMMA Nothing ==
  ASSUME StoreInv, ~Formatted, op.pc \notin ItemPcs \cup DonePcs
  PROVE  \A s \in Sect : flash[s].flag = "IDLE" /\ Len(Idx(s)) = 0
BY DEF StoreInv, Fresh

\* A request ends without success, or is tried again.
LEMMA Ends ==
  ASSUME Known, op.pc \notin {"idle", "remove"}, NEW r, Return(r), r # "NV_SUCC", StoreSame,
         ~Formatted' => \A s \in Sect : flash'[s].flag = "IDLE" /\ Len(Idx(s)') = 0
  PROVE  Going
<1>1. op \in Running /\ op.val \in Value
  BY OpFacts DEF Known, StoreInv, RequestOK
<1>2. \/ op'.pc = "sector" /\ op'.item = op.item /\ op'.val = op.val
      \/ op'.pc = "idle" /\ op'.res = r
  BY <1>1, ReturnKeeps
<1>3. op'.pc \in {"sector", "idle"} /\ RequestOK'
  BY <1>1, <1>2 DEF RequestOK
<1>4. Copying' /\ Indexing' /\ Writing' /\ Moved'
  BY <1>3 DEF Copying, Indexing, Writing, Moved, ItemPcs, DonePcs
<1>5. Fresh'
  BY <1>3 DEF Fresh, Idx
<1> QED BY <1>2, <1>3, <1>4, <1>5 DEF Going, Steady, Kept

\* nv_sector_read finds the sector in use, and only the other one loses its header.
LEMMA SectorReadGoes ==
  ASSUME Known, SectorReadForWrite
  PROVE  Going
<1>0. op \in Running /\ op.pc = "sector" /\ op.val \in Value
  BY OpFacts DEF Known, StoreInv, RequestOK, SectorReadForWrite
<1>1. PICK q \in SectorRead :
         /\ op' = [op EXCEPT !.pc = "locate", !.seq = q, !.sect = q % 2]
         /\ IF flash[Other(q % 2)].flag = "VALID"
              THEN Unchecked(SetFlag(Other(q % 2), "INVALID"))
              ELSE UNCHANGED flash
  BY DEF SectorReadForWrite
<1>2. /\ op'.pc = "locate" /\ op'.item = op.item /\ op'.val = op.val /\ op'.seq = q
      /\ q \in 0..3 /\ q % 2 \in Sect /\ Other(q % 2) \in Sect
  BY <1>0, <1>1, SectorReadType DEF Known, Running, Sect, Other
<1>3. \A s \in Sect : Idx(s)' = Idx(s)
  BY <1>1, <1>2 DEF Known, TypeOK, Sector, Unchecked, SetFlag, Idx
<1>4. CASE Formatted
  <2>1. q = CurrentSeq /\ Formatted'
    BY <1>1, <1>4 DEF Known, Takeover, SectorRead
  <2>2. CurrentSeq' = CurrentSeq
    BY <1>2, <2>1 DEF Known, HeaderInv
  <2>3. StoreSame
    BY <1>2, <1>3, <1>4, <2>1, <2>2, ViewKept DEF Known
  <2> QED
    BY <1>0, <1>2, <2>1, <2>3 DEF Going, Steady, Fresh, RequestOK, Copying, Indexing, Writing,
       Moved, Kept, ItemPcs, DonePcs
<1>5. CASE ~Formatted
  <2>1. UNCHANGED flash
    BY <1>1, <1>2, <1>5 DEF Formatted, ValidSect
  <2>2. StoreSame /\ ~Formatted'
    BY <1>5, <2>1, FlashSame
  <2>3. \A s \in Sect : flash'[s].flag = "IDLE" /\ Len(Idx(s)') = 0
    BY <1>0, <1>5, <2>1, FlashSame, Nothing DEF Known, ItemPcs, DonePcs
  <2> QED
    BY <1>0, <1>2, <2>2, <2>3 DEF Going, Steady, Fresh, RequestOK, Copying, Indexing, Writing,
       Moved, Kept, ItemPcs, DonePcs
<1> QED BY <1>4, <1>5

\* The sector in use takes the item, or its last entry is torn and it is moved.
LEMMA LocateGoes ==
  ASSUME Known, Locate
  PROVE  Going
<1> DEFINE u == op.force \/ NeedsUpdate(op.sect, op.item)
<1>0. op \in Running /\ op.pc = "locate" /\ op.val \in Value /\ op.sect \in Sect
  BY OpFacts DEF Known, StoreInv, RequestOK, Locate
<1>1. /\ UNCHANGED flash /\ op'.item = op.item /\ op'.val = op.val /\ op'.sect = op.sect
      /\ op'.upd = u /\ op'.pc = (IF u THEN "erase" ELSE "index")
      /\ op'.pos = (IF u THEN 0 ELSE Len(Idx(op.sect)))
  BY <1>0 DEF Locate, Running, Idx
<1>2. /\ StoreSame /\ Formatted' = Formatted /\ \A s : Idx(s)' = Idx(s)
  BY <1>1, FlashSame
<1>3. Fresh'
  BY <1>0, <1>1, <1>2, Nothing DEF Known, Fresh, ItemPcs, DonePcs
<1>4. Indexing'
  <2> SUFFICES ASSUME ~u PROVE Indexing'
    BY <1>1 DEF Indexing
  <2> DEFINE l == Idx(op.sect)
  <2>1. Target' = op.sect /\ op'.pos = Len(l) /\ ~op'.upd
    BY <1>1 DEF Target
  <2>2. Len(l) \in Nat /\ \A k \in 1..Len(l) : l[k].state = "TORN" => k = Len(l)
    BY <1>0, Lengths DEF Known, StoreInv, LastTorn
  <2>3. Len(l) > 0 => l[Len(l)].state # "TORN"
    BY DEF NeedsUpdate, Idx
  <2>4. \A k \in 1..Len(l) : l[k].state # "TORN"
    BY <2>2, <2>3
  <2>5. Idx(Target)' = l
    BY <1>2, <2>1 DEF Idx
  <2> QED BY <2>1, <2>4, <2>5 DEF Indexing, MoveDone
<1> HIDE DEF u
<1>5. Copying' /\ Writing' /\ Moved' /\ RequestOK'
  BY <1>0, <1>1 DEF Copying, Writing, Moved, RequestOK, ItemPcs, DonePcs
<1>6. Kept
  BY <1>1, <1>2 DEF Kept
<1> QED BY <1>3, <1>4, <1>5, <1>6 DEF Going, Steady

\* At the start of the copy both sides hold nothing.
LEMMA CopyBegins ==
  ASSUME TypeOK', op'.pc = "copy", op'.pos = 0, op'.scan = 1
  PROVE  Copying'
<1>1. op' \in Running /\ op'.sect \in Sect
  BY DEF TypeOK, Resting, Rest, Running
<1>2. Len(Idx(op.sect)') \in Nat
  BY <1>1, LengthsNext DEF Idx
<1>3. Copied(op.scan - 1)'
  <2>1. op'.scan - 1 = 0
    OBVIOUS
  <2>2. \A l, i : Val(l, i, 0) = Absent /\ Hits(l, i, 0) = {}
    BY ValStep
  <2> QED BY <2>1, <2>2 DEF Copied
<1> QED BY <1>2, <1>3 DEF Copying, Idx

\* The other sector is erased, or the erase refused; nothing is in use there.
LEMMA EraseGoes ==
  ASSUME Known, Erase
  PROVE  Going
<1>0. /\ op \in Running /\ op.pc = "erase" /\ op.val \in Value /\ op.sect \in Sect /\ op.pos = 0
      /\ Other(op.sect) \in Sect /\ Other(op.sect) # op.sect
  BY OpFacts DEF Known, StoreInv, RequestOK, Copying, Erase
<1>1. /\ op'.item = op.item /\ op'.val = op.val /\ op'.sect = op.sect /\ op'.seq = op.seq
      /\ op'.pos = 0
      /\ op'.pc = "dedup" \/ (op'.pc = "copy" /\ op'.scan = 1)
  BY <1>0 DEF Erase, Running
<1>2. \/ flash' = [flash EXCEPT ![Other(op.sect)] = BlankSector]
      \/ UNCHANGED flash
  BY DEF Erase, Unchecked
<1>3. /\ Idx(op.sect)' = Idx(op.sect) /\ flash'[op.sect] = flash[op.sect]
      /\ \/ flash'[Other(op.sect)] = flash[Other(op.sect)]
         \/ flash'[Other(op.sect)] = BlankSector
  BY <1>0, <1>1, <1>2 DEF Known, TypeOK, Idx
<1>4. Copying'
  BY <1>1, CopyBegins DEF Known, Copying
<1>5. Fresh' /\ StoreSame
  <2>1. CASE Formatted
    <3>1. Formatted'
      BY <2>1 DEF Known, Takeover
    <3>2. \A i : View(i) = Val(Idx(op.sect), i, Len(Idx(op.sect)))
      BY <1>0, <2>1, Viewing DEF Known, Between
    <3>3. \A i : View(i)' = Val(Idx(op.sect)', i, Len(Idx(op.sect)'))
      BY <1>1, <3>1, ViewingNext DEF Known, Between
    <3> QED BY <1>3, <3>1, <3>2, <3>3 DEF Fresh, StoreSame
  <2>2. CASE ~Formatted
    <3>1. \A s \in Sect : flash[s].flag = "IDLE" /\ Len(Idx(s)) = 0
      BY <1>0, <2>2, Nothing DEF Known, ItemPcs, DonePcs
    <3>2. \A s \in Sect : flash'[s].flag = "IDLE" /\ Len(Idx(s)') = 0
      BY <1>0, <1>3, <3>1, Sides DEF BlankSector, Idx
    <3>3. ~Formatted'
      BY <3>2 DEF Formatted, ValidSect
    <3>4. \A i : View(i) = Absent /\ View(i)' = Absent
      BY <2>2, <3>3 DEF View
    <3> QED BY <1>1, <3>2, <3>4 DEF Fresh, StoreSame
  <2> QED BY <2>1, <2>2
<1> QED
  BY <1>0, <1>1, <1>4, <1>5 DEF Going, Steady, RequestOK, Indexing, Writing, Moved, Kept,
     ItemPcs, DonePcs

\* nv_exceptionDataHandler invalidates only entries that have a newer one.
LEMMA DedupGoes ==
  ASSUME Known, Dedup \/ DedupDone
  PROVE  Going
<1>s. PICK s \in Sect : s = op.sect
  BY OpFacts DEF Known, Dedup, DedupDone
<1> DEFINE l == Idx(s)
<1>0. /\ op \in Running /\ op.pc = "dedup" /\ op.val \in Value /\ s \in Sect /\ op.pos = 0
      /\ op.scan \in Nat
  BY <1>s, OpFacts DEF Known, StoreInv, RequestOK, Copying, Dedup, DedupDone
<1>1. /\ op'.item = op.item /\ op'.val = op.val /\ op'.pos = 0 /\ op'.sect = op.sect
      /\ op'.pc = "dedup" \/ (op'.pc = "copy" /\ op'.scan = 1)
  BY <1>0 DEF Dedup, DedupDone, Running
<1>2. Copying'
  BY <1>1, CopyBegins DEF Known, Copying
<1>3. \/ UNCHANGED flash
      \/ /\ l[op.scan].state = "VALID_SINGLE" /\ IndexRead(s, l[op.scan].item) > op.scan
         /\ flash' = SetState(s, op.scan, "INVALID") /\ op.scan > 0
  BY <1>s DEF Dedup, DedupDone, Unchecked, Idx
<1>4. CASE UNCHANGED flash
  <2>1. StoreSame /\ Formatted' = Formatted /\ \A r : Idx(r)' = Idx(r)
    BY <1>4, FlashSame
  <2>2. Fresh'
    BY <1>s, <1>0, <1>1, <1>4, <2>1, Nothing DEF Known, Fresh, ItemPcs, DonePcs
  <2> QED
    BY <1>s, <1>0, <1>1, <1>2, <2>1, <2>2 DEF Going, Steady, RequestOK, Indexing, Writing,
       Moved, Kept, ItemPcs, DonePcs
<1>5. CASE /\ l[op.scan].state = "VALID_SINGLE" /\ IndexRead(s, l[op.scan].item) > op.scan
           /\ flash' = SetState(s, op.scan, "INVALID") /\ op.scan > 0
  <2> DEFINE k == op.scan
             n == Len(l)
             m == Idx(s)'
             j == IndexRead(s, l[k].item)
  <2>1. n \in Nat /\ k \in Nat /\ k > 0
    BY <1>s, <1>0, <1>5, Lengths DEF Known
  <2>2. j > k /\ ValidFor(l, j, l[k].item) /\ j \in 1..n
    <3>1. j = Newest(l, l[k].item, n)
      BY Reading
    <3>2. j > k /\ j # 0
      BY <1>5, <2>1, <3>1, NewestIs DEF Hits
    <3>3. j \in Hits(l, l[k].item, n)
      BY <2>1, <3>1, <3>2, NewestIs
    <3> QED BY <3>2, <3>3 DEF Hits
  <2>3. k \in 1..n
    BY <2>1, <2>2
  <2>4. /\ Changed(s, k) /\ SameHeaders /\ Idx(Other(s))' = Idx(Other(s))
        /\ m[k].state = "INVALID"
    <3>1. TypeOK /\ flash' = SetState(s, k, "INVALID") /\ k \in 1..Len(Idx(s))
      BY <1>5, <2>3 DEF Known
    <3> QED BY <1>s, <1>0, <3>1, StateProgram
  <2>5. \A i : Val(m, i, n) = Val(l, i, n)
    <3> SUFFICES ASSUME NEW i PROVE Val(m, i, n) = Val(l, i, n)
      OBVIOUS
    <3>1. \A a \in 1..n : a # k => m[a] = l[a]
      BY <2>4 DEF Changed
    <3>2. \A a \in 1..n : ValidFor(m, a, i) => ValidFor(l, a, i) /\ m[a].val = l[a].val
      BY <2>4, <3>1 DEF ValidFor
    <3>3. \A a \in 1..n : ValidFor(l, a, i) /\ ~ValidFor(m, a, i) => a = k /\ i = l[k].item
      BY <3>1 DEF ValidFor
    <3>4. i = l[k].item => ValidFor(m, j, i)
      BY <2>1, <2>2, <3>1 DEF ValidFor
    <3> HIDE DEF l, m, n, k, j
    <3>5. \A a \in 1..n : ValidFor(l, a, i) /\ ~ValidFor(m, a, i) =>
                             \E b \in 1..n : b > a /\ ValidFor(m, b, i)
      BY <2>2, <3>3, <3>4
    <3>6. /\ Val(m, i, n) = Val(l, i, n)
          /\ Newest(m, i, n) = Newest(l, i, n)
          /\ (Hits(m, i, n) = {}) <=> (Hits(l, i, n) = {})
      BY <2>1, <3>2, <3>5, ValKeep DEF Covers
    <3> QED BY <3>6
  <2>6. Len(m) = n /\ Formatted' = Formatted
    BY <2>4, SameHeadersKeep DEF Changed
  <2>7. Fresh' /\ StoreSame
    <3>1. CASE Formatted
      <4>1. \A i : View(i) = Val(l, i, n)
        BY <1>s, <1>0, <3>1, Viewing DEF Known, Between
      <4>2. \A i : View(i)' = Val(m, i, Len(m))
        BY <1>s, <1>1, <2>6, <3>1, ViewingNext DEF Known, Between
      <4> QED BY <2>5, <2>6, <3>1, <4>1, <4>2 DEF Fresh, StoreSame
    <3>2. CASE ~Formatted
      <4>1. n = 0
        BY <1>s, <1>0, <3>2, Nothing DEF Known, ItemPcs, DonePcs
      <4> QED BY <2>3, <4>1
    <3> QED BY <3>1, <3>2
  <2> QED
    BY <1>s, <1>0, <1>1, <1>2, <2>7 DEF Going, Steady, RequestOK, Indexing, Writing, Moved, Kept,
                                        ItemPcs, DonePcs
<1> QED BY <1>3, <1>4, <1>5

\* The sector in use keeps its headers, and its items or all but the one being
\* written.
LEMMA InPlace ==
  ASSUME Known, op.pc \notin Between \cup {"oldhdr"}, SameHeaders,
         NEW a \in Sect, a = op.sect
  PROVE  /\ Formatted' = Formatted
         /\ (Formatted => \A i \in Item : Val(Idx(a)', i, Len(Idx(a)')) = Val(Idx(a), i, Len(Idx(a))))
              => StoreSame
         /\ (Formatted => \A i \in Item : Val(Idx(a)', i, Len(Idx(a)')) =
                            IF i = op.item THEN op.val ELSE Val(Idx(a), i, Len(Idx(a))))
              => (Formatted => StoreApplied)
<1>1. Formatted' = Formatted /\ (Formatted => CurrentSeq' = CurrentSeq)
  BY SameHeadersKeep
<1>2. Formatted => CurrentSeq % 2 = a
  BY DEF Known, HeaderInv, Between
<1>3. \A i : Formatted => /\ View(i) = Val(Idx(a), i, Len(Idx(a)))
                          /\ View(i)' = Val(Idx(a)', i, Len(Idx(a)'))
  <2>1. \A i : Formatted => View(i) = Val(Idx(CurrentSeq % 2), i, Len(Idx(CurrentSeq % 2)))
    BY Viewing DEF Known
  <2>2. \A i : Formatted' => View(i)' = Val(Idx(CurrentSeq % 2), i, Len(Idx(CurrentSeq % 2)))'
    BY ViewingNext DEF Known
  <2> QED BY <1>1, <1>2, <2>1, <2>2 DEF Idx
<1>4. \A i : ~Formatted => View(i) = Absent /\ View(i)' = Absent
  BY <1>1 DEF View
<1> QED BY <1>1, <1>3, <1>4 DEF StoreSame, StoreApplied

\* Each copy adds to the other sector what the walk of the old one has passed.
LEMMA CopyGoes ==
  ASSUME Known, Copy
  PROVE  Going
<1>s. PICK a \in Sect, b \in Sect : a = op.sect /\ b = Other(op.sect) /\ a # b /\ Other(b) = a
  BY OpFacts, Sides DEF Known, Copy
<1>v. PICK src, tgt, n, p, e : /\ src = Idx(a) /\ tgt = Idx(b) /\ n = op.scan /\ p = op.pos
                               /\ e = src[n]
  OBVIOUS
<1>0. /\ op \in Running /\ op.pc = "copy" /\ op.val \in Value /\ op.item \in Item
      /\ n \in 1..Len(src) /\ p \in Nat /\ Len(src) \in Nat /\ Len(tgt) \in Nat
      /\ e \in Entry /\ Formatted /\ e.state # "TORN"
  <2>1. op \in Running /\ op.pc = "copy" /\ op.val \in Value /\ p \in Nat /\ op.item \in Item
    BY <1>v, OpFacts DEF Known, StoreInv, RequestOK, Copy
  <2>2. n \in 1..Len(src) /\ flash[a].flag = "VALID" /\ e.state # "TORN"
    BY <1>s, <1>v DEF Copy, CopyEnded, Idx
  <2> QED BY <1>v, <2>1, <2>2, Lengths DEF Known, Formatted, ValidSect
<1>1. ASSUME Len(tgt) = p
      PROVE  /\ \A i \in Item \ {op.item} :
                  /\ Val(tgt, i, p) = Val(src, i, n - 1)
                  /\ (Hits(tgt, i, p) = {}) <=> (Hits(src, i, n - 1) = {})
             /\ \A k \in 1..p : tgt[k].state = "VALID_SINGLE" /\ tgt[k].item # op.item
  BY <1>s, <1>v, <1>0, <1>1 DEF Known, StoreInv, Copying, Copied
<1>2. \A i : /\ ValidFor(src, n, i) => Val(src, i, n) = e.val /\ Hits(src, i, n) # {}
             /\ ~ValidFor(src, n, i) => /\ Val(src, i, n) = Val(src, i, n - 1)
                                        /\ Hits(src, i, n) = Hits(src, i, n - 1)
  <2>1. PICK q \in Nat : q + 1 = n /\ q = n - 1
    BY <1>0
  <2>2. \A i : /\ ValidFor(src, q + 1, i) => /\ Val(src, i, q + 1) = src[q + 1].val
                                             /\ Hits(src, i, q + 1) # {}
               /\ ~ValidFor(src, q + 1, i) => /\ Val(src, i, q + 1) = Val(src, i, q)
                                              /\ Hits(src, i, q + 1) = Hits(src, i, q)
    BY ValStep
  <2> QED BY <1>v, <2>1, <2>2
<1>3. ASSUME SameHeaders, Idx(a)' = Idx(a) PROVE StoreSame /\ Formatted'
  BY <1>s, <1>v, <1>0, <1>3, InPlace DEF Between
<1>4. ASSUME UNCHANGED flash PROVE SameHeaders /\ \A s : Idx(s)' = Idx(s)
  BY <1>4, FlashSame
<1>5. ASSUME NEW r, Return(r), r # "NV_SUCC", SameHeaders, Idx(a)' = Idx(a) PROVE Going
  BY <1>0, <1>3, <1>5, Ends
<1>6. CASE e.state = "VALID_SINGLE" /\ e.item # op.item /\ Len(tgt) = p
           /\ flash' = [flash EXCEPT ![b].idx = Append(@, e)]
           /\ op' = [op EXCEPT !.scan = @ + 1, !.pos = @ + 1]
  <2>v. PICK new : new = Idx(b)'
    OBVIOUS
  <2>1. Appended(b, e) /\ SameHeaders /\ Idx(a)' = Idx(a)
    BY <1>s, <1>v, <1>0, <1>6, Appending DEF Known
  <2>2. /\ op'.pc = "copy" /\ op'.item = op.item /\ op'.val = op.val /\ op'.sect = op.sect
        /\ op'.scan = n + 1 /\ op'.pos = p + 1
    BY <1>v, <1>0, <1>6 DEF Running
  <2>3. StoreSame /\ Formatted'
    BY <1>3, <2>1
  <2>4. Len(new) = p + 1 /\ new[p + 1] = e /\ \A k \in 1..p : new[k] = tgt[k]
    BY <1>v, <1>6, <2>v, <2>1 DEF Appended
  <2>5. \A i : /\ Val(new, i, p) = Val(tgt, i, p)
               /\ Newest(new, i, p) = Newest(tgt, i, p)
               /\ (Hits(new, i, p) = {}) <=> (Hits(tgt, i, p) = {})
    <3>1. SameEntries(tgt, new, p) /\ p \in Nat
      BY <1>0, <2>4 DEF SameEntries
    <3> QED BY <3>1, ValSame
  <2>6. \A i : /\ ValidFor(new, p + 1, i) => /\ Val(new, i, p + 1) = e.val
                                             /\ Hits(new, i, p + 1) # {}
               /\ ~ValidFor(new, p + 1, i) => /\ Val(new, i, p + 1) = Val(new, i, p)
                                              /\ Hits(new, i, p + 1) = Hits(new, i, p)
    <3>1. p \in Nat /\ new[p + 1] = e
      BY <1>0, <2>4
    <3> QED BY <3>1, ValStep
  <2>7. \A i : ValidFor(new, p + 1, i) <=> ValidFor(src, n, i)
    BY <1>v, <2>4 DEF ValidFor
  <2>8. \A i \in Item \ {op.item} :
          /\ Val(new, i, p + 1) = Val(src, i, n)
          /\ (Hits(new, i, p + 1) = {}) <=> (Hits(src, i, n) = {})
    <3> QED BY <1>1, <1>2, <1>6, <2>5, <2>6, <2>7
  <2>9. \A k \in 1..(p + 1) : new[k].state = "VALID_SINGLE" /\ new[k].item # op.item
    <3>1. \A k \in 1..(p + 1) : k \in 1..p \/ k = p + 1
      BY <1>0
    <3> QED BY <1>1, <1>6, <2>4, <3>1
  <2>10. Copying'
    <3>1. op'.sect = a /\ Other(op.sect)' = b /\ op'.scan - 1 = n /\ op'.scan \in 1..(Len(src) + 1)
      BY <1>s, <1>v, <1>0, <2>2 DEF Other
    <3>2. Copied(op.scan - 1)'
      BY <1>s, <1>v, <2>v, <2>1, <2>2, <2>8, <3>1 DEF Copied, Idx
    <3> QED BY <1>s, <1>v, <2>v, <2>1, <2>2, <2>3, <2>9, <3>1, <3>2 DEF Copying, Idx
  <2> QED
    BY <1>0, <2>2, <2>3, <2>10 DEF Going, Steady, Fresh, RequestOK, Indexing, Writing, Moved,
       Kept, ItemPcs, DonePcs
<1>7. CASE ~(e.state = "VALID_SINGLE" /\ e.item # op.item)
           /\ op' = [op EXCEPT !.scan = @ + 1] /\ UNCHANGED flash
  <2>1. /\ op'.pc = "copy" /\ op'.item = op.item /\ op'.val = op.val /\ op'.sect = op.sect
        /\ op'.scan = n + 1 /\ op'.pos = p
    BY <1>v, <1>0, <1>7 DEF Running
  <2>2. StoreSame /\ Formatted' /\ Idx(a)' = src /\ Idx(b)' = tgt
    BY <1>v, <1>3, <1>4, <1>7
  <2>3. \A i \in Item \ {op.item} : ~ValidFor(src, n, i)
    BY <1>v, <1>7 DEF ValidFor
  <2>4. Copying'
    <3>1. op'.sect = a /\ Other(op.sect)' = b /\ op'.scan - 1 = n /\ op'.scan \in 1..(Len(src) + 1)
      BY <1>s, <1>v, <1>0, <2>1 DEF Other
    <3>2. Len(tgt) = p => \A i \in Item \ {op.item} :
            /\ Val(tgt, i, p) = Val(src, i, n)
            /\ (Hits(tgt, i, p) = {}) <=> (Hits(src, i, n) = {})
      <4> QED BY <1>1, <1>2, <2>3
    <3>3. ASSUME Len(tgt) = p PROVE Copied(op.scan - 1)'
      BY <1>s, <1>v, <2>1, <2>2, <3>1, <3>2, <3>3 DEF Copied, Idx
    <3> QED BY <1>s, <1>v, <1>1, <2>1, <2>2, <3>1, <3>3 DEF Copying, Idx
  <2> QED
    BY <1>0, <2>1, <2>2, <2>4 DEF Going, Steady, Fresh, RequestOK, Indexing, Writing, Moved,
       Kept, ItemPcs, DonePcs
<1>8. CASE flash' = [flash EXCEPT ![b].idx = Append(@, NewEntry(e.item))]
           /\ Return("NV_CHECK_SUM_ERROR")
  <2>1. NewEntry(e.item) \in Entry
    BY <1>0 DEF NewEntry, Entry
  <2>2. SameHeaders /\ Idx(a)' = Idx(a)
    BY <1>s, <1>v, <1>8, <2>1, Appending DEF Known
  <2> QED BY <1>5, <1>8, <2>2
<1>9. CASE UNCHANGED flash /\ (Return("NV_ITEM_CHECK_ERROR") \/ Return("NV_CHECK_SUM_ERROR"))
  BY <1>4, <1>5, <1>9
<1> QED
  <2>1. \/ /\ e.state = "VALID_SINGLE" /\ e.item # op.item
           /\ \/ /\ Len(tgt) = p
                 /\ flash' = [flash EXCEPT ![b].idx = Append(@, e)]
                 /\ op' = [op EXCEPT !.scan = @ + 1, !.pos = @ + 1]
              \/ /\ Return("NV_ITEM_CHECK_ERROR") /\ UNCHANGED flash
              \/ /\ Return("NV_CHECK_SUM_ERROR")
                 /\ flash' = [flash EXCEPT ![b].idx = Append(@, NewEntry(e.item))]
        \/ /\ ~(e.state = "VALID_SINGLE" /\ e.item # op.item)
           /\ op' = [op EXCEPT !.scan = @ + 1] /\ UNCHANGED flash
    BY <1>s, <1>v DEF Copy, Idx
  <2> QED BY <1>6, <1>7, <1>8, <1>9, <2>1

\* When the copy is over, the other sector holds every item but the one being written.
LEMMA CopyDoneGoes ==
  ASSUME Known, CopyDone
  PROVE  Going
<1>s. PICK a \in Sect, b \in Sect : a = op.sect /\ b = Other(op.sect) /\ a # b /\ b = Target
  BY OpFacts, Sides DEF Known, CopyDone, HeaderInv
<1>v. PICK src, tgt, n, p : src = Idx(a) /\ tgt = Idx(b) /\ n = op.scan /\ p = op.pos
  OBVIOUS
<1>0. /\ op \in Running /\ op.pc = "copy" /\ op.val \in Value /\ p \in Nat /\ n \in Nat
      /\ Len(src) \in Nat /\ UNCHANGED flash
  BY <1>v, OpFacts, Lengths DEF Known, StoreInv, RequestOK, CopyDone
<1>1. /\ Formatted' = Formatted /\ StoreSame /\ \A s : Idx(s)' = Idx(s)
  BY <1>0, FlashSame
<1>2. ~Formatted' => \A s \in Sect : flash'[s].flag = "IDLE" /\ Len(Idx(s)') = 0
  BY <1>0, <1>1, Nothing DEF Known, ItemPcs, DonePcs
<1>3. CASE Return("NV_NOT_ENOUGH_SAPCE")
  BY <1>0, <1>1, <1>2, <1>3, Ends
<1>4. CASE Goto("index")
  <2>1. /\ op'.pc = "index" /\ op'.item = op.item /\ op'.val = op.val /\ op'.sect = op.sect
        /\ op'.pos = op.pos /\ op'.upd = op.upd /\ Target' = b
    BY <1>s, <1>0, <1>4, GotoKeeps
  <2>2. ASSUME Formatted, Len(tgt) = p
        PROVE  /\ Copied(Len(src))
               /\ \A k \in 1..p : tgt[k].state # "TORN"
    <3>1. /\ Copied(n - 1) /\ n \in 1..(Len(src) + 1)
          /\ \A k \in 1..p : tgt[k].state = "VALID_SINGLE"
      BY <1>s, <1>v, <1>0, <2>2 DEF Known, StoreInv, Copying
    <3>2. flash[a].flag = "VALID"
      BY <1>s, <1>0, <2>2, Viewing DEF Known, Between
    <3>3. n \in 1..Len(src) => src[n].state = "TORN" /\ n = Len(src)
      BY <1>s, <1>v, <1>0, <3>2 DEF CopyDone, CopyEnded, Known, StoreInv, LastTorn, Idx
    <3>4. CASE n = Len(src) + 1
      <4>1. n - 1 = Len(src)
        BY <1>0, <3>4
      <4> QED BY <3>1, <4>1
    <3>5. CASE n \in 1..Len(src)
      <4>1. PICK q \in Nat : q + 1 = n /\ q = n - 1
        BY <1>0, <3>5
      <4>2. \A i : ~ValidFor(src, q + 1, i)
        BY <3>3, <3>5, <4>1 DEF ValidFor
      <4>3. \A i : Val(src, i, q + 1) = Val(src, i, q) /\ Hits(src, i, q + 1) = Hits(src, i, q)
        BY <4>2, ValStep
      <4>4. Copied(q + 1)
        BY <1>s, <1>v, <3>1, <4>1, <4>3 DEF Copied
      <4> QED BY <3>1, <3>3, <3>5, <4>1, <4>4
    <3> QED BY <1>0, <3>1, <3>4, <3>5
  <2>3. ~Formatted => p = 0
    BY <1>v, <1>0 DEF Known, StoreInv, Copying
  <2>4. Idx(Target)' = tgt /\ op'.pos = p
    BY <1>s, <1>v, <1>1, <2>1 DEF Idx
  <2>5. Copied(Len(src)) => Copied(Len(Idx(op.sect)))'
    <3>1. Idx(op.sect)' = src /\ Idx(Other(op.sect))' = tgt /\ op'.pos = p /\ op'.item = op.item
      BY <1>s, <1>v, <1>1, <2>1 DEF Idx, Other
    <3> QED BY <1>s, <1>v, <3>1 DEF Copied
  <2>6. Indexing'
    <3>1. ASSUME Len(tgt) = p PROVE \A k \in 1..p : tgt[k].state # "TORN"
      BY <2>2, <2>3, <3>1
    <3>2. ASSUME Len(tgt) = p PROVE MoveDone'
      BY <1>1, <2>2, <2>5, <3>2 DEF MoveDone
    <3> QED BY <2>4, <3>1, <3>2 DEF Indexing
  <2> QED
    BY <1>0, <1>1, <1>2, <2>1, <2>6 DEF Going, Steady, Fresh, RequestOK, Copying, Writing,
       Moved, Kept, ItemPcs, DonePcs, Idx
<1> QED BY <1>3, <1>4 DEF CopyDone

\* One more entry that is not valid changes nothing.
LEMMA Extended == \A l, m, i, n :
  n \in Nat /\ (\A k \in 1..n : m[k] = l[k]) /\ m[n + 1].state # "VALID_SINGLE" =>
    /\ Val(m, i, n + 1) = Val(l, i, n)
    /\ Newest(m, i, n + 1) = Newest(l, i, n)
    /\ (Hits(m, i, n + 1) = {}) <=> (Hits(l, i, n) = {})
<1> SUFFICES ASSUME NEW l, NEW m, NEW i, NEW n \in Nat, \A k \in 1..n : m[k] = l[k],
                    m[n + 1].state # "VALID_SINGLE"
             PROVE  /\ Val(m, i, n + 1) = Val(l, i, n)
                    /\ Newest(m, i, n + 1) = Newest(l, i, n)
                    /\ (Hits(m, i, n + 1) = {}) <=> (Hits(l, i, n) = {})
  OBVIOUS
<1>1. ~ValidFor(m, n + 1, i)
  BY DEF ValidFor
<1>2. /\ Val(m, i, n + 1) = Val(m, i, n) /\ Newest(m, i, n + 1) = Newest(m, i, n)
      /\ Hits(m, i, n + 1) = Hits(m, i, n)
  BY <1>1, ValStep
<1>3. SameEntries(l, m, n)
  BY DEF SameEntries
<1>4. /\ Val(m, i, n) = Val(l, i, n) /\ Newest(m, i, n) = Newest(l, i, n)
      /\ (Hits(m, i, n) = {}) <=> (Hits(l, i, n) = {})
  BY <1>3, ValSame
<1> QED BY <1>2, <1>4

\* The new index entry is not valid yet, and what it supersedes is found before it.
LEMMA WriteIndexGoes ==
  ASSUME Known, WriteIndex
  PROVE  Going
<1>s. PICK a \in Sect, b \in Sect, t \in Sect :
        a = op.sect /\ b = Other(op.sect) /\ a # b /\ t = Target /\ t = (IF op.upd THEN b ELSE a)
        /\ (t # a => t = b)
  BY OpFacts, Sides DEF Known, WriteIndex
<1>v. PICK src, tgt, p : src = Idx(a) /\ tgt = Idx(t) /\ p = op.pos
  OBVIOUS
<1>0. /\ op \in Running /\ op.pc = "index" /\ op.val \in Value /\ op.item \in Item /\ p \in Nat
      /\ Len(src) \in Nat /\ Len(tgt) \in Nat /\ op.upd \in BOOLEAN
  BY <1>v, OpFacts, Lengths DEF Known, StoreInv, RequestOK, WriteIndex
<1>1. CASE UNCHANGED flash /\ Return("NV_ITEM_CHECK_ERROR")
  <2>1. Formatted' = Formatted /\ StoreSame /\ \A s : Idx(s)' = Idx(s)
    BY <1>1, FlashSame
  <2>2. ~Formatted' => \A s \in Sect : flash'[s].flag = "IDLE" /\ Len(Idx(s)') = 0
    BY <1>0, <1>1, <2>1, Nothing DEF Known, ItemPcs, DonePcs
  <2> QED BY <1>0, <1>1, <2>1, <2>2, Ends
<1>2. CASE /\ Len(tgt) = p
           /\ flash' = [flash EXCEPT ![t].idx = Append(@, NewEntry(op.item))]
           /\ op' = [op EXCEPT !.pc = "payload", !.pos = @ + 1,
                               !.del = IndexRead(Target, op.item)]
  <2>v. PICK new, e : new = Idx(t)' /\ e = NewEntry(op.item)
    OBVIOUS
  <2>0. e \in Entry /\ e.state = "OPERATION" /\ e.item = op.item
    BY <1>0, <2>v DEF NewEntry, Entry
  <2>1. Appended(t, e) /\ SameHeaders /\ Idx(Other(t))' = Idx(Other(t))
    BY <1>2, <2>v, <2>0, Appending DEF Known
  <2>2. /\ op'.pc = "payload" /\ op'.item = op.item /\ op'.val = op.val /\ op'.sect = op.sect
        /\ op'.upd = op.upd /\ op'.pos = p + 1 /\ op'.del = IndexRead(t, op.item) /\ Target' = t
    BY <1>s, <1>v, <1>0, <1>2 DEF Running, Target, Other
  <2>3. Len(new) = p + 1 /\ new[p + 1] = e /\ \A k \in 1..p : new[k] = tgt[k]
    BY <1>v, <1>2, <2>v, <2>1 DEF Appended
  <2>4. \A i : /\ Val(new, i, p + 1) = Val(tgt, i, p)
               /\ Newest(new, i, p + 1) = Newest(tgt, i, p)
               /\ (Hits(new, i, p + 1) = {}) <=> (Hits(tgt, i, p) = {})
    <3>1. p \in Nat /\ (\A k \in 1..p : new[k] = tgt[k]) /\ new[p + 1].state # "VALID_SINGLE"
      BY <1>0, <2>0, <2>3
    <3> QED BY <3>1, Extended
  <2>5. op'.del = Newest(new, op.item, p + 1)
    BY <1>v, <1>2, <2>2, <2>4, Reading
  <2>6. t # a => Idx(a)' = src
    BY <1>s, <1>v, <2>1 DEF Other, Sect
  <2>7. Formatted' = Formatted /\ StoreSame
    <3>1. t = a => \A i \in Item : Val(Idx(a)', i, Len(Idx(a)')) = Val(Idx(a), i, Len(Idx(a)))
      BY <1>v, <1>2, <2>v, <2>3, <2>4
    <3>2. t # a => \A i \in Item : Val(Idx(a)', i, Len(Idx(a)')) = Val(Idx(a), i, Len(Idx(a)))
      BY <1>v, <2>6
    <3> QED BY <1>s, <1>0, <2>1, <3>1, <3>2, InPlace DEF Between
  <2>8. MoveDone'
    <3> SUFFICES ASSUME Formatted, op.upd PROVE Copied(Len(Idx(op.sect)))'
      BY <2>2, <2>7 DEF MoveDone
    <3>1. t = b /\ op'.pos = p + 1 /\ op'.item = op.item /\ Idx(op.sect)' = src
          /\ Idx(Other(op.sect))' = new
      BY <1>s, <1>v, <2>v, <2>2, <2>6 DEF Idx, Other
    <3>2. Copied(Len(src))
      BY <1>s, <1>v, <1>0, <1>2 DEF Known, StoreInv, Indexing, MoveDone
    <3> QED BY <1>s, <1>v, <2>4, <3>1, <3>2 DEF Copied
  <2>9. Writing'
    <3>1. Idx(Target)' = new
      BY <2>v, <2>2 DEF Idx
    <3> QED BY <1>0, <2>0, <2>2, <2>3, <2>5, <2>8, <3>1 DEF Writing, ItemPcs, DonePcs
  <2>10. Fresh'
    <3> SUFFICES ASSUME ~Formatted PROVE Fresh'
      BY <2>2, <2>7 DEF Fresh
    <3>1. \A s \in Sect : flash[s].flag = "IDLE" /\ Len(Idx(s)) = 0
      BY <1>0, Nothing DEF Known, ItemPcs, DonePcs
    <3>2. p = 0
      BY <1>v, <1>2, <3>1
    <3>3. \A s \in Sect : s # t => Len(Idx(s)') = 0
      BY <2>1, <3>1, Sides
    <3>4. Len(Idx(t)') = 1
      BY <2>v, <2>3, <3>2
    <3>5. \A s \in Sect : flash'[s].flag = "IDLE"
      BY <2>1, <3>1 DEF SameHeaders
    <3>6. \A s \in Sect : Len(Idx(s)') = 0 \/ (s = t /\ Len(Idx(s)') = 1)
      BY <3>3, <3>4
    <3> QED BY <2>2, <3>5, <3>6 DEF Fresh, ItemPcs
  <2> QED
    BY <1>0, <2>2, <2>7, <2>9, <2>10 DEF Going, Steady, RequestOK, Copying, Indexing, Moved,
       Kept
<1> QED
  <2>1. \/ UNCHANGED flash /\ Return("NV_ITEM_CHECK_ERROR")
        \/ /\ Len(tgt) = p
           /\ flash' = [flash EXCEPT ![Target].idx = Append(@, NewEntry(op.item))]
           /\ op' = [op EXCEPT !.pc = "payload", !.pos = @ + 1, !.del = IndexRead(Target, op.item)]
    BY <1>s, <1>v DEF WriteIndex, Idx
  <2> QED BY <1>s, <1>1, <1>2, <2>1

\* A step on the entry being written, or on the one it supersedes, leaves the
\* other items in both sectors.
LEMMA ItemStep ==
  ASSUME Known, op.pc \in ItemPcs \cup DonePcs, SameHeaders,
         NEW t \in Sect, t = Target, Idx(Other(t))' = Idx(Other(t)),
         Len(Idx(t)') = Len(Idx(t)),
         \A i \in Item \ {op.item} :
           /\ Val(Idx(t)', i, Len(Idx(t))) = Val(Idx(t), i, Len(Idx(t)))
           /\ (Hits(Idx(t)', i, Len(Idx(t))) = {}) <=> (Hits(Idx(t), i, Len(Idx(t))) = {})
  PROVE  /\ Formatted' = Formatted
         /\ op'.sect = op.sect /\ op'.upd = op.upd /\ op'.pos = op.pos /\ op'.item = op.item =>
              /\ MoveDone'
              /\ op'.pc \in (ItemPcs \cup DonePcs) \ {"delete"} => Fresh'
<1>s. PICK a \in Sect, b \in Sect :
        a = op.sect /\ b = Other(op.sect) /\ a # b /\ t = (IF op.upd THEN b ELSE a)
        /\ (\A s \in Sect : s = a \/ s = b)
        /\ Other(b) = a
  BY OpFacts, Sides DEF Known, ItemPcs, DonePcs
<1>v. PICK src, tgt, p, new : src = Idx(a) /\ tgt = Idx(t) /\ p = op.pos /\ new = Idx(t)'
  OBVIOUS
<1>0. /\ op \in Running /\ op.item \in Item /\ p \in Nat
      /\ Len(src) \in Nat /\ Len(tgt) = p /\ op.upd \in BOOLEAN
  BY <1>v, OpFacts, Lengths DEF Known, StoreInv, Writing, ItemPcs, DonePcs
<1>1. Formatted' = Formatted
  BY SameHeadersKeep
<1> SUFFICES ASSUME op'.sect = op.sect, op'.upd = op.upd, op'.pos = op.pos, op'.item = op.item
             PROVE  MoveDone' /\ (op'.pc \in (ItemPcs \cup DonePcs) \ {"delete"} => Fresh')
  BY <1>1
<1>2. Target' = t
  BY DEF Target, Other
<1>3. MoveDone'
  <2> SUFFICES ASSUME Formatted, op.upd PROVE Copied(Len(Idx(op.sect)))'
    BY <1>1 DEF MoveDone
  <2>1. t = b /\ Idx(a)' = src
    BY <1>s, <1>v
  <2>2. Idx(op.sect)' = src /\ Idx(Other(op.sect))' = new
    BY <1>s, <1>v, <2>1 DEF Idx, Other
  <2>3. Copied(Len(src))
    BY <1>s, <1>v DEF Known, StoreInv, Writing, MoveDone
  <2> QED BY <1>s, <1>v, <1>0, <2>1, <2>2, <2>3 DEF Copied
<1>4. ASSUME op'.pc \in (ItemPcs \cup DonePcs) \ {"delete"}, ~Formatted PROVE Fresh'
  <2>1. \A s \in Sect : flash[s].flag = "IDLE" /\ (Len(Idx(s)) = 0 \/ (s = t /\ Len(Idx(s)) = 1))
    BY <1>4 DEF Known, StoreInv, Fresh
  <2>2. \A s \in Sect : Len(Idx(s)') = Len(Idx(s))
    BY Sides
  <2>3. \A s \in Sect : flash'[s].flag = "IDLE"
    BY <2>1 DEF SameHeaders
  <2>4. \A s \in Sect : Len(Idx(s)') = 0 \/ (s = t /\ Len(Idx(s)') = 1)
    BY <2>1, <2>2
  <2> QED BY <1>2, <1>4, <2>3, <2>4 DEF Fresh
<1> QED BY <1>1, <1>3, <1>4 DEF Fresh

\* The payload and the item header are programmed before the entry is valid.
LEMMA ItemGoes ==
  ASSUME Known, WritePayload \/ WriteItemHdr
  PROVE  Going
<1>s. PICK a \in Sect, t \in Sect :
        a = op.sect /\ t = Target /\ (t # a => Other(t) = a)
  BY OpFacts, Sides DEF Known, WritePayload, WriteItemHdr
<1>v. PICK tgt, p, new : tgt = Idx(t) /\ p = op.pos /\ new = Idx(t)'
  OBVIOUS
<1>0. /\ op \in Running /\ op.pc \in {"payload", "itemhdr"} /\ op.val \in Value /\ op.item \in Item
      /\ p \in Nat /\ p >= 1 /\ Len(tgt) = p
      /\ tgt[p].state = "OPERATION" /\ tgt[p].item = op.item
      /\ op.pc = "itemhdr" => tgt[p].val = op.val
      /\ op.del = Newest(tgt, op.item, p)
  BY <1>s, <1>v, OpFacts DEF Known, StoreInv, RequestOK, WritePayload, WriteItemHdr, Writing,
                              ItemPcs, DonePcs
<1>1. /\ Changed(t, p) /\ Idx(Other(t))' = Idx(Other(t)) /\ SameHeaders
      /\ new[p].item = tgt[p].item /\ new[p].state = tgt[p].state
      /\ new[p].val = op.val
  <2>0. p \in 1..Len(Idx(t)) /\ TypeOK
    BY <1>v, <1>0 DEF Known
  <2>1. CASE flash' = [flash EXCEPT ![t].idx[p].val = op.val]
    BY <1>v, <2>0, <2>1, ValProgram
  <2>2. CASE flash' = [flash EXCEPT ![t].idx[p].hdr = "OK"] /\ op.pc = "itemhdr"
    BY <1>v, <1>0, <2>0, <2>2, HdrProgram
  <2> QED BY <1>s, <1>v, <2>1, <2>2 DEF WritePayload, WriteItemHdr
<1>2. Len(new) = p /\ SameEntries(tgt, new, p)
  <2>1. Len(new) = p /\ \A k \in 1..p : k # p => new[k] = tgt[k]
    BY <1>v, <1>0, <1>1 DEF Changed
  <2> QED BY <1>0, <1>1, <2>1 DEF SameEntries
<1>3. \A i : /\ Val(new, i, p) = Val(tgt, i, p)
             /\ Newest(new, i, p) = Newest(tgt, i, p)
             /\ (Hits(new, i, p) = {}) <=> (Hits(tgt, i, p) = {})
  BY <1>0, <1>2, ValSame
<1>4. /\ op'.pc \in {"itemhdr", "state"} /\ op'.item = op.item /\ op'.val = op.val
      /\ op'.sect = op.sect /\ op'.upd = op.upd /\ op'.pos = p /\ op'.del = op.del /\ Target' = t
  BY <1>s, <1>v, <1>0, GotoKeeps DEF WritePayload, WriteItemHdr
<1>5. /\ Formatted' = Formatted
      /\ MoveDone' /\ Fresh'
  BY <1>s, <1>v, <1>0, <1>1, <1>2, <1>3, <1>4, ItemStep DEF ItemPcs, DonePcs
<1>6. StoreSame
  <2>1. \A i \in Item : Val(Idx(a)', i, Len(Idx(a)')) = Val(Idx(a), i, Len(Idx(a)))
    <3>1. CASE t = a
      BY <1>v, <1>0, <1>2, <1>3, <3>1
    <3>2. CASE t # a
      BY <1>s, <1>1, <3>2
    <3> QED BY <3>1, <3>2
  <2> QED BY <1>s, <1>0, <1>1, <2>1, InPlace DEF Between
<1>7. Writing'
  <2>1. Idx(Target)' = new
    BY <1>v, <1>4 DEF Idx
  <2> QED BY <1>0, <1>1, <1>2, <1>3, <1>4, <1>5, <2>1 DEF Writing, ItemPcs, DonePcs
<1> QED BY <1>0, <1>4, <1>5, <1>6, <1>7 DEF Going, Steady, RequestOK, Copying, Indexing, Moved, Kept

\* What is left to do when the entry is valid and the one before it is not.
LEMMA AfterGoes ==
  ASSUME Known, op.pc \in {"state", "delete"}, AfterItem,
         NEW t \in Sect, t = Target, Formatted' = Formatted,
         Formatted /\ ~op.upd => StoreApplied, ~Formatted \/ op.upd => StoreSame,
         Len(Idx(t)') = op.pos, Idx(t)'[op.pos].item = op.item, Idx(t)'[op.pos].val = op.val,
         Idx(t)'[op.pos].state = "VALID_SINGLE",
         op'.sect = op.sect /\ op'.upd = op.upd /\ op'.pos = op.pos /\ op'.item = op.item =>
           /\ MoveDone'
           /\ op'.pc \in (ItemPcs \cup DonePcs) \ {"delete"} => Fresh'
  PROVE  Going
<1>0. /\ op \in Running /\ op.val \in Value /\ op.item \in Item
      /\ op.pos \in Nat /\ op.pos >= 1 /\ Len(Idx(t)) = op.pos /\ op.upd \in BOOLEAN
  BY OpFacts DEF Known, StoreInv, RequestOK, Writing, ItemPcs, DonePcs
<1>1. ASSUME NEW p, p \in {"newhdr", "firsthdr"}, Goto(p) PROVE Going
  <2>1. /\ op'.pc = p /\ op'.item = op.item /\ op'.val = op.val /\ op'.sect = op.sect
        /\ op'.upd = op.upd /\ op'.pos = op.pos /\ Target' = t
    BY <1>0, <1>1, GotoKeeps
  <2>2. MoveDone' /\ Fresh'
    BY <1>1, <2>1 DEF DonePcs
  <2>3. Writing'
    <3>1. Idx(Target)' = Idx(t)'
      BY <2>1 DEF Idx
    <3> QED BY <1>0, <1>1, <2>1, <2>2, <3>1 DEF Writing, ItemPcs, DonePcs
  <2>4. Copying' /\ Indexing' /\ Moved' /\ RequestOK'
    BY <1>0, <1>1, <2>1 DEF RequestOK, Copying, Indexing, Moved
  <2> QED BY <1>1, <2>1, <2>2, <2>3, <2>4 DEF Going, Steady, Kept
<1>2. CASE ~op.upd /\ op.pos # 1 /\ Return("NV_SUCC")
  <2>1. Formatted /\ Formatted' /\ StoreApplied
    <3>1. ~Formatted => Len(Idx(t)) = 0 \/ Len(Idx(t)) = 1
      BY DEF Known, StoreInv, Fresh
    <3> QED BY <1>0, <1>2, <3>1
  <2>2. op'.pc = "idle"
    <3>1. \/ op'.pc = "sector" /\ "NV_SUCC" = "NV_ITEM_CHECK_ERROR"
          \/ op'.pc = "idle" /\ op'.res = "NV_SUCC"
      BY <1>0, <1>2, ReturnKeeps
    <3> QED BY <3>1
  <2> QED
    BY <1>0, <2>1, <2>2 DEF Going, Steady, Fresh, RequestOK, Copying, Indexing, Writing, Moved,
       Kept, ItemPcs, DonePcs
<1> QED
  <2>1. \/ Goto("newhdr") \/ Goto("firsthdr")
        \/ ~op.upd /\ op.pos # 1 /\ Return("NV_SUCC")
    BY DEF AfterItem
  <2> QED BY <1>1, <1>2, <2>1

\* The entry becomes valid: in place, that is when the request takes effect.
LEMMA WriteStateGoes ==
  ASSUME Known, WriteState
  PROVE  Going
<1>s. PICK a \in Sect, t \in Sect :
        a = op.sect /\ t = Target /\ (t # a => Other(t) = a) /\ t = (IF op.upd THEN Other(a) ELSE a)
        /\ Other(a) # a
  BY OpFacts, Sides DEF Known, WriteState
<1>v. PICK tgt, p, new : tgt = Idx(t) /\ p = op.pos /\ new = Idx(t)'
  OBVIOUS
<1>0. /\ op \in Running /\ op.pc = "state" /\ op.val \in Value /\ op.item \in Item
      /\ p \in Nat /\ p >= 1 /\ Len(tgt) = p /\ op.upd \in BOOLEAN /\ op.del \in Nat
      /\ tgt[p].state = "OPERATION" /\ tgt[p].item = op.item /\ tgt[p].val = op.val
      /\ op.del = Newest(tgt, op.item, p)
  BY <1>s, <1>v, OpFacts DEF Known, StoreInv, RequestOK, WriteState, Writing, ItemPcs, DonePcs
<1>1. /\ Changed(t, p) /\ Idx(Other(t))' = Idx(Other(t)) /\ SameHeaders
      /\ new[p].item = op.item /\ new[p].state = "VALID_SINGLE"
      /\ new[p].val = op.val
  <2>0. p \in 1..Len(Idx(t)) /\ TypeOK /\ flash' = SetState(t, p, "VALID_SINGLE")
    BY <1>s, <1>v, <1>0 DEF Known, WriteState
  <2> QED BY <1>v, <1>0, <2>0, StateProgram
<1>2. Len(new) = p /\ \A k \in 1..p : k # p => new[k] = tgt[k]
  BY <1>v, <1>0, <1>1 DEF Changed
<1>3. \A i : i # op.item =>
        /\ Val(new, i, p) = Val(tgt, i, p)
        /\ Newest(new, i, p) = Newest(tgt, i, p)
        /\ (Hits(new, i, p) = {}) <=> (Hits(tgt, i, p) = {})
  <2> SUFFICES ASSUME NEW i, i # op.item
               PROVE  /\ Val(new, i, p) = Val(tgt, i, p)
                      /\ Newest(new, i, p) = Newest(tgt, i, p)
                      /\ (Hits(new, i, p) = {}) <=> (Hits(tgt, i, p) = {})
    OBVIOUS
  <2>1. \A k \in 1..p : ValidFor(new, k, i) => ValidFor(tgt, k, i) /\ new[k].val = tgt[k].val
    BY <1>1, <1>2 DEF ValidFor
  <2>2. \A k \in 1..p : ValidFor(tgt, k, i) /\ ~ValidFor(new, k, i) =>
                           \E j \in 1..p : j > k /\ ValidFor(new, j, i)
    BY <1>0, <1>2 DEF ValidFor
  <2>3. p \in Nat
    BY <1>0
  <2>4. Covers(tgt, new, i, p)
    BY <2>1, <2>2 DEF Covers
  <2> QED BY <2>3, <2>4, ValKeep
<1>4. Val(new, op.item, p) = op.val
  <2>1. PICK q \in Nat : q + 1 = p
    <3>1. p - 1 \in Nat /\ (p - 1) + 1 = p
      BY <1>0
    <3> QED BY <3>1
  <2>2. ValidFor(new, q + 1, op.item)
    BY <1>1, <2>1 DEF ValidFor
  <2>3. Val(new, op.item, q + 1) = new[q + 1].val
    BY <2>2, ValStep
  <2> QED BY <1>1, <2>1, <2>3
<1>5. /\ Formatted' = Formatted
      /\ op'.sect = op.sect /\ op'.upd = op.upd /\ op'.pos = op.pos /\ op'.item = op.item =>
           /\ MoveDone'
           /\ op'.pc \in (ItemPcs \cup DonePcs) \ {"delete"} => Fresh'
  <2>1. /\ op.pc \in ItemPcs \cup DonePcs /\ t = Target /\ SameHeaders
        /\ Idx(Other(t))' = Idx(Other(t)) /\ Len(Idx(t)') = Len(Idx(t))
    BY <1>s, <1>v, <1>0, <1>1, <1>2 DEF ItemPcs, DonePcs
  <2>2. \A i \in Item \ {op.item} :
          /\ Val(Idx(t)', i, Len(Idx(t))) = Val(Idx(t), i, Len(Idx(t)))
          /\ (Hits(Idx(t)', i, Len(Idx(t))) = {}) <=> (Hits(Idx(t), i, Len(Idx(t))) = {})
    BY <1>v, <1>0, <1>3
  <2> QED BY <2>1, <2>2, ItemStep
<1>6. /\ Formatted /\ ~op.upd => StoreApplied
      /\ ~Formatted \/ op.upd => StoreSame
  <2>1. ~op.upd => \A i \in Item : Val(Idx(a)', i, Len(Idx(a)')) =
                     IF i = op.item THEN op.val ELSE Val(Idx(a), i, Len(Idx(a)))
    BY <1>s, <1>v, <1>0, <1>2, <1>3, <1>4
  <2>2. op.upd => \A i \in Item : Val(Idx(a)', i, Len(Idx(a)')) = Val(Idx(a), i, Len(Idx(a)))
    BY <1>s, <1>1
  <2>3. op.pc \notin Between \cup {"oldhdr"}
    BY <1>0 DEF Between
  <2> QED BY <1>s, <1>0, <1>1, <2>1, <2>2, <2>3, InPlace
<1>7. CASE op.del > 0 /\ Goto("delete")
  <2>1. /\ op'.pc = "delete" /\ op'.item = op.item /\ op'.val = op.val
        /\ op'.sect = op.sect /\ op'.upd = op.upd /\ op'.pos = p /\ op'.del = op.del /\ Target' = t
    BY <1>s, <1>v, <1>0, <1>7, GotoKeeps
  <2>2. op.del \in 1..p /\ ValidFor(tgt, op.del, op.item)
    <3>1. op.del \in Hits(tgt, op.item, p)
      BY <1>0, <1>7, NewestIs
    <3> QED BY <3>1 DEF Hits
  <2>3. op.del \in 1..(p - 1) /\ new[op.del].item = op.item
    BY <1>0, <1>2, <2>2 DEF ValidFor
  <2>4. Formatted
    <3>1. ~Formatted => Len(Idx(t)) = 0 \/ Len(Idx(t)) = 1
      BY <1>s DEF Known, StoreInv, Fresh
    <3> QED BY <1>v, <1>0, <2>3, <3>1
  <2>5. Writing'
    <3>1. Idx(Target)' = new
      BY <1>v, <2>1 DEF Idx
    <3> QED BY <1>v, <1>0, <1>1, <1>2, <1>5, <2>1, <2>3, <3>1 DEF Writing, ItemPcs, DonePcs
  <2>6. Fresh' /\ Copying' /\ Indexing' /\ Moved' /\ RequestOK'
    BY <1>0, <1>5, <2>1, <2>4 DEF Fresh, RequestOK, Copying, Indexing, Moved
  <2> QED BY <1>0, <1>6, <2>1, <2>4, <2>5, <2>6 DEF Going, Steady, Kept
<1>8. CASE AfterItem
  BY <1>s, <1>v, <1>0, <1>1, <1>2, <1>5, <1>6, <1>8, AfterGoes
<1> QED BY <1>7, <1>8 DEF WriteState

\* The entry that is invalidated has a newer one, of the same item.
LEMMA DeleteOldGoes ==
  ASSUME Known, DeleteOld
  PROVE  Going
<1>s. PICK a \in Sect, t \in Sect :
        a = op.sect /\ t = Target /\ (t # a => Other(t) = a) /\ t = (IF op.upd THEN Other(a) ELSE a)
        /\ Other(a) # a
  BY OpFacts, Sides DEF Known, DeleteOld
<1>v. PICK tgt, p, new, d : tgt = Idx(t) /\ p = op.pos /\ new = Idx(t)' /\ d = op.del
  OBVIOUS
<1>0. /\ op \in Running /\ op.pc = "delete" /\ op.val \in Value /\ op.item \in Item
      /\ p \in Nat /\ p >= 1 /\ Len(tgt) = p /\ op.upd \in BOOLEAN
      /\ tgt[p].state = "VALID_SINGLE" /\ tgt[p].item = op.item /\ tgt[p].val = op.val
      /\ d \in 1..(p - 1) /\ tgt[d].item = op.item /\ Formatted
  BY <1>s, <1>v, OpFacts DEF Known, StoreInv, RequestOK, DeleteOld, Writing, Fresh, ItemPcs, DonePcs
<1>1. /\ Changed(t, d) /\ Idx(Other(t))' = Idx(Other(t)) /\ SameHeaders
      /\ new[d].item = op.item /\ new[d].state = "INVALID"
  <2>0. d \in 1..Len(Idx(t)) /\ TypeOK /\ flash' = SetState(t, d, "INVALID")
    BY <1>s, <1>v, <1>0 DEF Known, DeleteOld
  <2> QED BY <1>v, <1>0, <2>0, StateProgram
<1>2. Len(new) = p /\ (\A k \in 1..p : k # d => new[k] = tgt[k]) /\ new[p] = tgt[p]
  BY <1>v, <1>0, <1>1 DEF Changed
<1>3. \A i : /\ Val(new, i, p) = Val(tgt, i, p)
             /\ Newest(new, i, p) = Newest(tgt, i, p)
             /\ (Hits(new, i, p) = {}) <=> (Hits(tgt, i, p) = {})
  <2> SUFFICES ASSUME NEW i
               PROVE  /\ Val(new, i, p) = Val(tgt, i, p)
                      /\ Newest(new, i, p) = Newest(tgt, i, p)
                      /\ (Hits(new, i, p) = {}) <=> (Hits(tgt, i, p) = {})
    OBVIOUS
  <2>1. \A k \in 1..p : ValidFor(new, k, i) => ValidFor(tgt, k, i) /\ new[k].val = tgt[k].val
    BY <1>1, <1>2 DEF ValidFor
  <2>2. \A k \in 1..p : ValidFor(tgt, k, i) /\ ~ValidFor(new, k, i) => k = d /\ i = op.item
    BY <1>0, <1>2 DEF ValidFor
  <2>3. ValidFor(new, p, op.item) /\ p > d /\ p \in 1..p
    BY <1>0, <1>2 DEF ValidFor
  <2>4. \A k \in 1..p : ValidFor(tgt, k, i) /\ ~ValidFor(new, k, i) =>
                           \E j \in 1..p : j > k /\ ValidFor(new, j, i)
    BY <2>2, <2>3
  <2>5. p \in Nat
    BY <1>0
  <2>6. Covers(tgt, new, i, p)
    BY <2>1, <2>4 DEF Covers
  <2> QED BY <2>5, <2>6, ValKeep
<1>4. Val(tgt, op.item, p) = op.val
  <2>1. PICK q \in Nat : q + 1 = p
    <3>1. p - 1 \in Nat /\ (p - 1) + 1 = p
      BY <1>0
    <3> QED BY <3>1
  <2>2. ValidFor(tgt, q + 1, op.item)
    BY <1>0, <2>1 DEF ValidFor
  <2>3. Val(tgt, op.item, q + 1) = tgt[q + 1].val
    BY <2>2, ValStep
  <2> QED BY <1>0, <2>1, <2>3
<1>5. /\ Formatted' = Formatted
      /\ op'.sect = op.sect /\ op'.upd = op.upd /\ op'.pos = op.pos /\ op'.item = op.item =>
           /\ MoveDone'
           /\ op'.pc \in (ItemPcs \cup DonePcs) \ {"delete"} => Fresh'
  <2>1. /\ op.pc \in ItemPcs \cup DonePcs /\ t = Target /\ SameHeaders
        /\ Idx(Other(t))' = Idx(Other(t)) /\ Len(Idx(t)') = Len(Idx(t))
    BY <1>s, <1>v, <1>0, <1>1, <1>2 DEF ItemPcs, DonePcs
  <2>2. \A i \in Item \ {op.item} :
          /\ Val(Idx(t)', i, Len(Idx(t))) = Val(Idx(t), i, Len(Idx(t)))
          /\ (Hits(Idx(t)', i, Len(Idx(t))) = {}) <=> (Hits(Idx(t), i, Len(Idx(t))) = {})
    BY <1>v, <1>0, <1>3
  <2> QED BY <2>1, <2>2, ItemStep
<1>6. /\ Formatted /\ ~op.upd => StoreApplied
      /\ ~Formatted \/ op.upd => StoreSame
  <2>1. ~op.upd => \A i \in Item : Val(Idx(a)', i, Len(Idx(a)')) =
                     IF i = op.item THEN op.val ELSE Val(Idx(a), i, Len(Idx(a)))
    BY <1>s, <1>v, <1>0, <1>2, <1>3, <1>4
  <2>2. op.upd => \A i \in Item : Val(Idx(a)', i, Len(Idx(a)')) = Val(Idx(a), i, Len(Idx(a)))
    BY <1>s, <1>1
  <2>3. op.pc \notin Between \cup {"oldhdr"}
    BY <1>0 DEF Between
  <2> QED BY <1>s, <1>0, <1>1, <2>1, <2>2, <2>3, InPlace
<1>7. AfterItem
  BY DEF DeleteOld
<1> QED BY <1>s, <1>v, <1>0, <1>1, <1>2, <1>5, <1>6, <1>7, AfterGoes

\* The item that is complete is what its sector holds of it.
LEMMA Complete ==
  ASSUME Known, op.pc \in DonePcs
  PROVE  /\ Val(Idx(Target), op.item, Len(Idx(Target))) = op.val
         /\ ~Formatted => \A i \in Item : i # op.item => Val(Idx(Target), i, Len(Idx(Target))) = Absent
<1>v. PICK tgt, p : tgt = Idx(Target) /\ p = op.pos
  OBVIOUS
<1>0. /\ p \in Nat /\ p >= 1 /\ Len(tgt) = p
      /\ tgt[p].state = "VALID_SINGLE" /\ tgt[p].item = op.item /\ tgt[p].val = op.val
      /\ ~Formatted => p = 1
  BY <1>v, OpFacts DEF Known, StoreInv, Writing, Fresh, ItemPcs, DonePcs
<1>1. PICK q \in Nat : q + 1 = p /\ (p = 1 => q = 0)
  <2>1. p - 1 \in Nat /\ (p - 1) + 1 = p /\ (p = 1 => p - 1 = 0)
    BY <1>0
  <2> QED BY <2>1
<1>2. ValidFor(tgt, q + 1, op.item) /\ \A i : i # op.item => ~ValidFor(tgt, q + 1, i)
  BY <1>0, <1>1 DEF ValidFor
<1>3. \A i : /\ ValidFor(tgt, q + 1, i) => Val(tgt, i, q + 1) = tgt[q + 1].val
             /\ ~ValidFor(tgt, q + 1, i) => Val(tgt, i, q + 1) = Val(tgt, i, q)
             /\ Val(tgt, i, 0) = Absent
  BY ValStep
<1> QED BY <1>v, <1>0, <1>1, <1>2, <1>3

\* The first header of a module makes its first item readable.
LEMMA FirstHdrGoes ==
  ASSUME Known, WriteFirstHdr
  PROVE  Going
<1>s. PICK a \in Sect : a = op.sect /\ Target = a /\ (\A s \in Sect : s = a \/ s = Other(a))
        /\ Other(a) \in Sect /\ Other(a) # a
  BY OpFacts, Sides DEF Known, WriteFirstHdr, HeaderInv
<1>0. /\ op \in Running /\ op.pc = "firsthdr" /\ Return("NV_SUCC")
      /\ op.val \in Value /\ op.item \in Item
  BY OpFacts DEF Known, WriteFirstHdr, StoreInv, RequestOK
<1>1. /\ Val(Idx(a), op.item, Len(Idx(a))) = op.val
      /\ ~Formatted => \A i \in Item : i # op.item => Val(Idx(a), i, Len(Idx(a))) = Absent
  BY <1>s, <1>0, Complete DEF DonePcs
<1>2. op'.pc = "idle"
  <2>1. \/ op'.pc = "sector" /\ "NV_SUCC" = "NV_ITEM_CHECK_ERROR"
        \/ op'.pc = "idle" /\ op'.res = "NV_SUCC"
    BY <1>0, ReturnKeeps
  <2> QED BY <2>1
<1>3. Formatted' /\ StoreApplied
  <2>1. CASE Formatted
    <3>1. \A i : View(i) = Val(Idx(a), i, Len(Idx(a))) /\ flash[a].flag = "VALID"
      BY <1>s, <1>0, <2>1, Viewing DEF Known, Between
    <3>2. UNCHANGED flash
      BY <1>s, <3>1 DEF WriteFirstHdr, Unchecked
    <3> QED BY <1>1, <2>1, <3>1, <3>2, FlashSame DEF StoreSame, StoreApplied
  <2>2. CASE ~Formatted
    <3>1. \A s \in Sect : flash[s].flag = "IDLE"
      BY <2>2 DEF Known, StoreInv, Fresh
    <3>2. ~CanFail("refuse")
      BY <2>2 DEF CanFail, Known, FaultAssumption
    <3>3. flash' = [flash EXCEPT ![a].flag = "VALID", ![a].seq = a]
      BY <1>s, <3>1, <3>2 DEF WriteFirstHdr, Unchecked
    <3>4. /\ flash'[a].flag = "VALID" /\ flash'[a].seq = a /\ Idx(a)' = Idx(a)
          /\ flash'[Other(a)].flag = "IDLE"
      BY <1>s, <3>1, <3>3 DEF Known, TypeOK, Sector, Idx
    <3>5. Formatted' /\ CurrentSeq' = a
      BY <1>s, <3>4 DEF Formatted, CurrentSeq, ValidSect, Sect
    <3>6. a % 2 = a
      BY DEF Sect
    <3>7. \A i : View(i)' = Val(Idx(a), i, Len(Idx(a)))
      <4>1. \A i : View(i)' = Val(Idx(CurrentSeq % 2), i, Len(Idx(CurrentSeq % 2)))'
        BY <3>5, ViewingNext DEF Known
      <4> QED BY <3>4, <3>5, <3>6, <4>1 DEF Idx
    <3>8. \A i : View(i) = Absent
      BY <2>2 DEF View
    <3> QED BY <1>1, <2>2, <3>5, <3>7, <3>8 DEF StoreApplied
  <2> QED BY <2>1, <2>2
<1> QED BY <1>2, <1>3 DEF Going, Steady, Fresh, RequestOK, Copying, Indexing, Writing, Moved, Kept,
                          ItemPcs, DonePcs

\* The new header makes the move, and the request with it, take effect.
LEMMA NewHdrGoes ==
  ASSUME Known, WriteNewHdr
  PROVE  Going
<1>s. PICK a \in Sect, b \in Sect : a = op.sect /\ b = Other(a) /\ Target = b /\ a # b
        /\ (\A s \in Sect : s = a \/ s = b)
  BY OpFacts, Sides DEF Known, WriteNewHdr, HeaderInv
<1>0. /\ op \in Running /\ op.pc = "newhdr" /\ op.upd
      /\ op.val \in Value /\ op.item \in Item
  BY OpFacts DEF Known, WriteNewHdr, StoreInv, RequestOK, HeaderInv
<1>1. /\ Val(Idx(b), op.item, Len(Idx(b))) = op.val
      /\ ~Formatted => \A i \in Item : i # op.item => Val(Idx(b), i, Len(Idx(b))) = Absent
  BY <1>s, <1>0, Complete DEF DonePcs
<1>2. CASE UNCHANGED flash /\ Return("NV_CHECK_SUM_ERROR") /\ flash[b].flag # "IDLE"
  <2>1. Formatted
    BY <1>2 DEF Known, StoreInv, Fresh
  <2>2. Formatted' /\ StoreSame
    BY <1>2, <2>1, FlashSame
  <2> QED BY <1>0, <1>2, <2>2, Ends
<1>3. CASE /\ flash' = [flash EXCEPT ![b].flag = "VALID", ![b].seq = (op.seq + 1) % 4]
           /\ Goto("oldhdr")
  <2>1. /\ op'.pc = "oldhdr" /\ op'.item = op.item /\ op'.val = op.val /\ op'.sect = op.sect
    BY <1>0, <1>3, GotoKeeps
  <2>2. \A s \in Sect : Idx(s)' = Idx(s)
    BY <1>s, <1>3 DEF Known, TypeOK, Sector, Idx
  <2>3. Formatted' /\ \A i : View(i)' = Val(Idx(b), i, Len(Idx(b)))
    <3>1. Formatted' /\ \A i : View(i)' = Val(Idx(Other(op.sect)), i, Len(Idx(Other(op.sect))))'
      BY <2>1, ViewingNext DEF Known
    <3>2. Idx(Other(op.sect))' = Idx(b)
      BY <1>s, <2>1, <2>2 DEF Idx, Other
    <3> QED BY <3>1, <3>2
  <2>4. StoreApplied
    <3>1. CASE Formatted
      <4>1. \A i : View(i) = Val(Idx(a), i, Len(Idx(a)))
        BY <1>s, <1>0, <3>1, Viewing DEF Known, Between
      <4>2. op.pos = Len(Idx(b))
        BY <1>s, <1>0 DEF Known, StoreInv, Writing, DonePcs
      <4>3. \A i \in Item \ {op.item} : Val(Idx(b), i, Len(Idx(b))) = Val(Idx(a), i, Len(Idx(a)))
        BY <1>s, <1>0, <3>1, <4>2 DEF Known, StoreInv, Writing, DonePcs, MoveDone, Copied
      <4> QED BY <1>1, <2>3, <4>1, <4>3 DEF StoreApplied
    <3>2. CASE ~Formatted
      <4>1. \A i : View(i) = Absent
        BY <3>2 DEF View
      <4> QED BY <1>1, <2>3, <3>2, <4>1 DEF StoreApplied
    <3> QED BY <3>1, <3>2
  <2>5. Moved'
    <3>1. View(op.item)' = op.val
      BY <1>1, <2>3, <2>1
    <3>2. (\A s, i : ReadFrom(s, i) = Val(Idx(s), i, Len(Idx(s))))'
      BY Reading, PTL
    <3>3. Idx(Other(op.sect))' = Idx(b)
      BY <1>s, <2>1, <2>2 DEF Idx, Other
    <3> QED BY <1>1, <2>1, <3>2, <3>3 DEF Moved
  <2> QED
    BY <1>0, <2>1, <2>3, <2>4, <2>5 DEF Going, Steady, Fresh, RequestOK, Copying, Indexing,
       Writing, Kept, ItemPcs, DonePcs
<1> QED
  <2>1. \/ UNCHANGED flash /\ Return("NV_CHECK_SUM_ERROR") /\ flash[Target].flag # "IDLE"
        \/ /\ flash' = [flash EXCEPT ![Target].flag = "VALID", ![Target].seq = (op.seq + 1) % 4]
           /\ Goto("oldhdr")
    BY DEF WriteNewHdr
  <2> QED BY <1>s, <1>2, <1>3, <2>1

\* The old header is no longer needed.
LEMMA OldHdrGoes ==
  ASSUME Known, InvalidateOldHdr
  PROVE  Going
<1>s. PICK a \in Sect, b \in Sect : a = op.sect /\ b = Other(a) /\ a # b /\ Other(b) = a
        /\ (\A s \in Sect : s = a \/ s = b)
  BY OpFacts, Sides DEF Known, InvalidateOldHdr
<1>0. /\ op \in Running /\ op.pc = "oldhdr" /\ Return("NV_SUCC")
      /\ op.val \in Value /\ op.item \in Item /\ op.seq \in 0..3
  BY OpFacts DEF Known, InvalidateOldHdr, StoreInv, RequestOK
<1>1. op'.pc = "idle"
  <2>1. \/ op'.pc = "sector" /\ "NV_SUCC" = "NV_ITEM_CHECK_ERROR"
        \/ op'.pc = "idle" /\ op'.res = "NV_SUCC"
    BY <1>0, ReturnKeeps
  <2> QED BY <2>1
<1>2. /\ Formatted /\ CurrentSeq = (op.seq + 1) % 4
      /\ flash[b].flag = "VALID" /\ flash[b].seq = (op.seq + 1) % 4
      /\ View(op.item) = op.val
  <2>1. View(op.item) = Val(Idx(b), op.item, Len(Idx(b)))
    BY <1>s, <1>0, Viewing DEF Known
  <2>2. Val(Idx(b), op.item, Len(Idx(b))) = op.val
    BY <1>s, <1>0, Reading DEF Known, StoreInv, Moved
  <2> QED BY <1>s, <1>0, <2>1, <2>2, Viewing DEF Known, HeaderInv
<1>3. Formatted' /\ StoreSame
  <2>1. CASE UNCHANGED flash
    BY <1>2, <2>1, FlashSame
  <2>2. CASE flash' = SetFlag(a, "INVALID")
    <3>1. /\ flash'[a].flag = "INVALID" /\ flash'[b].flag = "VALID" /\ flash'[b].seq = flash[b].seq
          /\ \A s \in Sect : Idx(s)' = Idx(s)
      BY <1>s, <1>2, <2>2 DEF Known, TypeOK, Sector, SetFlag, Idx
    <3>2. SeqCases'
      BY CurrentSeqCases, PTL DEF Known
    <3>3. Formatted' /\ CurrentSeq' = CurrentSeq
      BY <1>s, <1>2, <3>1, <3>2 DEF SeqCases, Other
    <3>4. CurrentSeq % 2 \in Sect
      BY <1>0, <1>2 DEF Sect
    <3> QED BY <1>2, <3>1, <3>3, <3>4, ViewKept DEF Known, Idx
  <2> QED BY <1>s, <2>1, <2>2 DEF InvalidateOldHdr, Unchecked
<1>4. StoreApplied
  BY <1>2, <1>3 DEF StoreSame, StoreApplied
<1> QED
  BY <1>1, <1>3, <1>4 DEF Going, Steady, Fresh, RequestOK, Copying, Indexing, Writing, Moved,
     Kept, ItemPcs, DonePcs

\* Only the item is disturbed; without faults it is gone, as it had one valid entry.
LEMMA RemoveGoes ==
  ASSUME Known, Remove
  PROVE  Steady /\ OthersSame /\ (Clean => Kept)
<1>0. /\ op \in Running /\ op.pc = "remove" /\ op.val = Absent /\ op.item \in Item
      /\ Clean => ~CanFail("refuse")
  BY OpFacts DEF Known, Remove, StoreInv, RequestOK, Clean, CanFail
<1>1. PICK q, a, k :
        /\ q \in SectorRead /\ a = q % 2 /\ k = IndexRead(a, op.item)
        /\ \/ k = 0 /\ UNCHANGED flash /\ Return("NV_ITEM_NOT_FOUND")
           \/ k # 0 /\ flash' = SetState(a, k, "INVALID") /\ Return("NV_SUCC")
           \/ ~Clean /\ UNCHANGED flash /\ Return("NV_SUCC")
  BY <1>0 DEF Remove, Unchecked
<1>2. q \in 0..3 /\ a \in Sect
  BY <1>1, SectorReadType DEF Known, Sect
<1>3. ~Formatted => \A s \in Sect : flash[s].flag = "IDLE" /\ Len(Idx(s)) = 0
  BY <1>0, Nothing DEF Known, ItemPcs, DonePcs
<1>4. op'.pc = "idle"
  <2>1. ASSUME NEW r, r # "NV_ITEM_CHECK_ERROR", Return(r) PROVE op'.pc = "idle"
    <3>1. \/ op'.pc = "sector" /\ r = "NV_ITEM_CHECK_ERROR"
          \/ op'.pc = "idle" /\ op'.res = r
      BY <1>0, <2>1, ReturnKeeps
    <3> QED BY <2>1, <3>1
  <2> QED BY <1>1, <2>1
<1>c. Steady <=> Fresh'
  BY <1>4 DEF Steady, RequestOK, Copying, Indexing, Writing, Moved, ItemPcs, DonePcs
<1>5. CASE UNCHANGED flash /\ (Return("NV_ITEM_NOT_FOUND") \/ ~Clean)
  <2>1. StoreSame /\ Formatted' = Formatted /\ \A s : Idx(s)' = Idx(s)
    BY <1>5, FlashSame
  <2>2. Clean => op'.res # "NV_SUCC"
    BY <1>5 DEF Return, Rest
  <2>3. Fresh'
    BY <1>3, <1>4, <1>5, <2>1 DEF Fresh
  <2> QED BY <1>c, <1>4, <2>1, <2>2, <2>3 DEF StoreSame, OthersSame, Kept
<1>6. CASE k # 0 /\ flash' = SetState(a, k, "INVALID")
  <2>v. PICK l, n, m : l = Idx(a) /\ n = Len(Idx(a)) /\ m = Idx(a)'
    OBVIOUS
  <2>0. n \in Nat
    BY <1>2, <2>v, Lengths DEF Known
  <2>1. k \in 1..n /\ ValidFor(l, k, op.item)
    <3>1. k = Newest(l, op.item, n)
      BY <1>1, <2>v, Reading
    <3>2. k \in Hits(l, op.item, n)
      BY <1>6, <2>0, <3>1, NewestIs
    <3> QED BY <3>2 DEF Hits
  <2>2. Changed(a, k) /\ SameHeaders /\ m[k].state = "INVALID"
    <3>1. k \in 1..Len(Idx(a)) /\ TypeOK
      BY <2>v, <2>1 DEF Known
    <3> QED BY <1>2, <1>6, <2>v, <3>1, StateProgram
  <2>3. Formatted /\ a = CurrentSeq % 2
    <3>1. Formatted
      BY <1>2, <1>3, <2>v, <2>0, <2>1
    <3> QED BY <1>1, <3>1 DEF SectorRead
  <2>4. Formatted' /\ CurrentSeq' = CurrentSeq
    BY <2>2, <2>3, SameHeadersKeep
  <2>5. Len(m) = n /\ \A j \in 1..n : j # k => m[j] = l[j]
    BY <2>v, <2>2 DEF Changed
  <2>6. Clean => \A j \in 1..n : ~ValidFor(m, j, op.item)
    <3> SUFFICES ASSUME Clean, NEW j \in 1..n, ValidFor(m, j, op.item) PROVE FALSE
      OBVIOUS
    <3>1. j # k /\ ValidFor(l, j, op.item)
      BY <2>2, <2>5 DEF ValidFor
    <3>2. Pair(l, k, j) \/ Pair(l, j, k)
      BY <2>0, <2>1, <3>1 DEF Pair, ValidFor
    <3> QED BY <1>0, <1>2, <2>v, <2>1, <3>2 DEF Known, StoreInv, Single
  <2>7. Clean => Val(m, op.item, n) = Absent
    <3>1. Clean => Hits(m, op.item, n) = {}
      BY <2>6 DEF Hits
    <3> QED BY <2>0, <3>1, NewestIs DEF Val
  <2>8. \A i : i # op.item => Val(m, i, n) = Val(l, i, n)
    <3> SUFFICES ASSUME NEW i, i # op.item PROVE Val(m, i, n) = Val(l, i, n)
      OBVIOUS
    <3>1. \A j \in 1..n : ValidFor(m, j, i) => ValidFor(l, j, i) /\ m[j].val = l[j].val
      BY <2>2, <2>5 DEF ValidFor
    <3>2. \A j \in 1..n : ValidFor(l, j, i) /\ ~ValidFor(m, j, i) =>
                             \E h \in 1..n : h > j /\ ValidFor(m, h, i)
      BY <2>1, <2>5 DEF ValidFor
    <3>3. Covers(l, m, i, n)
      BY <3>1, <3>2 DEF Covers
    <3> QED BY <2>0, <3>3, ValKeep
  <2>9. OthersSame /\ (Clean => StoreApplied)
    <3>1. \A i : View(i) = Val(l, i, n)
      BY <2>v, <2>3, Viewing DEF Known
    <3>2. \A i : View(i)' = Val(m, i, n)
      <4>1. \A i : View(i)' = Val(Idx(CurrentSeq % 2), i, Len(Idx(CurrentSeq % 2)))'
        BY <2>4, ViewingNext DEF Known
      <4> QED BY <2>v, <2>3, <2>4, <2>5, <4>1 DEF Idx
    <3> QED BY <1>0, <2>7, <2>8, <3>1, <3>2 DEF StoreApplied, OthersSame
  <2>10. Fresh'
    BY <2>4 DEF Fresh
  <2> QED BY <1>c, <1>4, <2>4, <2>9, <2>10 DEF Kept
<1> QED BY <1>1, <1>5, <1>6

\* A refused program ends the request, or has it tried again.
LEMMA RefusedGoes ==
  ASSUME Known, RefusedWrite
  PROVE  Going
<1>1. PICK p \in {"index", "payload", "itemhdr", "state", "delete", "newhdr"} : Refused(p)
  BY DEF RefusedWrite
<1>2. Formatted
  BY <1>1 DEF Refused, CanFail, Known, FaultAssumption
<1>3. Formatted' /\ StoreSame
  BY <1>1, <1>2, FlashSame DEF Refused
<1>4. PICK r \in {"NV_ITEM_CHECK_ERROR", "NV_CHECK_SUM_ERROR"} : Return(r)
  BY <1>1 DEF Refused
<1>5. op.pc \notin {"idle", "remove"}
  BY <1>1 DEF Refused
<1> QED BY <1>3, <1>4, <1>5, Ends

\* Power is lost: what was being programmed was not valid yet.
LEMMA CrashGoes ==
  ASSUME Known, Crash
  PROVE  Going
<1>0. Formatted /\ op'.pc = "idle" /\ op'.res = "reset" /\ op.pc # "idle"
  BY DEF Crash, CanFail, Known, FaultAssumption, Rest
<1>1. ASSUME Formatted', StoreSame PROVE Going
  BY <1>0, <1>1 DEF Going, Steady, Fresh, RequestOK, Copying, Indexing, Writing, Moved, Kept,
                    ItemPcs, DonePcs
<1>s. PICK a \in Sect, t \in Sect : a = op.sect /\ t = Target /\ (t # a => Other(t) = a)
        /\ (\A s \in Sect : s = t \/ s = Other(t)) /\ (t = a => ~op.upd) /\ op \in Running
  BY <1>0, OpFacts, Sides DEF Known
<1>v. PICK tgt, p, new : tgt = Idx(t) /\ p = op.pos /\ new = Idx(t)'
  OBVIOUS
<1>2. CASE UNCHANGED flash
  BY <1>0, <1>1, <1>2, FlashSame
<1>3. ASSUME SameHeaders, op.pc \notin Between \cup {"oldhdr"}, Idx(Other(t))' = Idx(Other(t)),
             \A i \in Item : Val(new, i, Len(new)) = Val(tgt, i, Len(tgt))
      PROVE  Going
  <2>1. \A i \in Item : Val(Idx(a)', i, Len(Idx(a)')) = Val(Idx(a), i, Len(Idx(a)))
    <3>1. CASE t = a
      BY <1>v, <1>3, <3>1
    <3>2. CASE t # a
      BY <1>s, <1>3, <3>2
    <3> QED BY <3>1, <3>2
  <2>2. Formatted' = Formatted /\ StoreSame
    BY <1>s, <1>3, <2>1, InPlace
  <2> QED BY <1>0, <1>1, <2>2
<1>4. CASE /\ op.pc = "index"
           /\ flash' = [flash EXCEPT ![t].idx = Append(@, [NewEntry(op.item) EXCEPT !.state = "TORN"])]
  <2>v. PICK e : e = [NewEntry(op.item) EXCEPT !.state = "TORN"]
    OBVIOUS
  <2>1. e \in Entry /\ e.state = "TORN"
    BY <1>0, <2>v, OpFacts DEF NewEntry, Entry, Known
  <2>2. Appended(t, e) /\ SameHeaders /\ Idx(Other(t))' = Idx(Other(t))
    BY <1>4, <2>v, <2>1, Appending DEF Known
  <2>3. PICK n \in Nat : n = Len(tgt)
    BY <1>v, Lengths DEF Known
  <2>4. Len(new) = n + 1 /\ (\A k \in 1..n : new[k] = tgt[k]) /\ new[n + 1].state # "VALID_SINGLE"
    BY <1>v, <2>1, <2>2, <2>3 DEF Appended
  <2>5. \A i \in Item : Val(new, i, Len(new)) = Val(tgt, i, Len(tgt))
    <3>1. \A i : /\ Val(new, i, n + 1) = Val(tgt, i, n)
                 /\ Newest(new, i, n + 1) = Newest(tgt, i, n)
                 /\ (Hits(new, i, n + 1) = {}) <=> (Hits(tgt, i, n) = {})
      BY <2>4, Extended
    <3> QED BY <2>3, <2>4, <3>1
  <2> QED BY <1>3, <1>4, <2>2, <2>5 DEF Between
<1>5. CASE op.pc = "itemhdr" /\ flash' = [flash EXCEPT ![t].idx[op.pos].hdr = "TORN"]
  <2>1. p \in Nat /\ p >= 1 /\ Len(tgt) = p
    BY <1>s, <1>v, <1>5, OpFacts DEF Known, StoreInv, Writing, ItemPcs, DonePcs
  <2>2. /\ Changed(t, p) /\ Idx(Other(t))' = Idx(Other(t)) /\ SameHeaders
        /\ new[p].item = tgt[p].item /\ new[p].state = tgt[p].state /\ new[p].val = tgt[p].val
    <3>1. p \in 1..Len(Idx(t)) /\ TypeOK /\ flash' = [flash EXCEPT ![t].idx[p].hdr = "TORN"]
      BY <1>v, <1>5, <2>1 DEF Known
    <3> QED BY <1>v, <3>1, HdrProgram
  <2>3. Len(new) = p /\ SameEntries(tgt, new, p)
    <3>1. Len(new) = p /\ \A k \in 1..p : k # p => new[k] = tgt[k]
      BY <1>v, <2>1, <2>2 DEF Changed
    <3> QED BY <2>2, <3>1 DEF SameEntries
  <2>4. \A i : Val(new, i, p) = Val(tgt, i, p)
    BY <2>1, <2>3, ValSame
  <2> QED BY <1>3, <1>5, <2>1, <2>2, <2>3, <2>4 DEF Between
<1>6. CASE /\ op.pc \in {"newhdr", "firsthdr"} /\ flash[t].flag = "IDLE"
           /\ flash' = SetFlag(t, "TORN")
  <2>1. /\ flash'[t].flag = "TORN" /\ flash'[Other(t)] = flash[Other(t)]
        /\ \A s \in Sect : Idx(s)' = Idx(s)
    BY <1>s, <1>6, Sides DEF Known, TypeOK, Sector, SetFlag, Idx
  <2>2. PICK r \in Sect : flash[r].flag = "VALID"
    BY <1>0 DEF Formatted, ValidSect
  <2>3. r = Other(t)
    BY <1>s, <1>6, <2>2
  <2>4. SeqCases /\ SeqCases'
    BY CurrentSeqCases, PTL DEF Known
  <2>5. /\ flash'[r].flag = "VALID" /\ flash'[r].seq = flash[r].seq
        /\ Other(r) = t /\ flash[t].flag # "VALID" /\ flash'[t].flag # "VALID"
    BY <1>6, <2>1, <2>2, <2>3, Sides
  <2>6. Formatted' /\ CurrentSeq' = CurrentSeq /\ CurrentSeq % 2 \in Sect
    BY <2>2, <2>4, <2>5 DEF SeqCases, Sect
  <2> QED BY <1>0, <1>1, <2>1, <2>6, ViewKept DEF Known, Idx
<1> QED
  <2>1. UNCHANGED flash \/ Torn
    BY DEF Crash
  <2> QED BY <1>s, <1>2, <1>4, <1>5, <1>6, <2>1 DEF Torn

-----------------------------------------------------------------------------
(* Torn entries and entries that are valid twice *)

OnlyLast(l) == \A k \in 1..Len(l) : l[k].state = "TORN" => k = Len(l)

\* m has no valid entry that l does not have
Fewer(l, m) ==
  \A k \in 1..Len(m) : m[k].state = "VALID_SINGLE" =>
    k \in 1..Len(l) /\ l[k].state = "VALID_SINGLE" /\ l[k].item = m[k].item

Lists == \A s \in Sect : OnlyLast(Idx(s)') /\ Fewer(Idx(s), Idx(s)')

\* A step that touches no index entry.
LEMMA ListsSame ==
  ASSUME Known, \A s \in Sect : Idx(s)' = Idx(s)
  PROVE  Lists
BY DEF Lists, OnlyLast, Fewer, Known, StoreInv, LastTorn

\* A step that touches the index entries of one sector.
LEMMA ListsBut ==
  ASSUME Known, NEW t \in Sect, Idx(Other(t))' = Idx(Other(t)), OnlyLast(Idx(t)')
  PROVE  /\ \A s \in Sect : OnlyLast(Idx(s)')
         /\ Fewer(Idx(t), Idx(t)') => Lists
<1>1. \A s \in Sect : OnlyLast(Idx(s)) /\ Fewer(Idx(s), Idx(s))
  BY DEF OnlyLast, Fewer, Known, StoreInv, LastTorn
<1>2. \A s \in Sect : s = t \/ s = Other(t)
  BY Sides
<1> QED BY <1>1, <1>2 DEF Lists

\* One more entry after entries that are whole.
LEMMA ListsAppended ==
  ASSUME Known, NEW t \in Sect, NEW e \in Entry,
         flash' = [flash EXCEPT ![t].idx = Append(@, e)],
         \A k \in 1..Len(Idx(t)) : Idx(t)[k].state # "TORN"
  PROVE  /\ \A s \in Sect : OnlyLast(Idx(s)')
         /\ e.state # "VALID_SINGLE" => Lists
<1>v. PICK l, m, n : l = Idx(t) /\ m = Idx(t)' /\ n = Len(l)
  OBVIOUS
<1>1. n \in Nat
  BY <1>v, Lengths DEF Known
<1>2. Appended(t, e) /\ Idx(Other(t))' = Idx(Other(t))
  BY Appending DEF Known
<1>3. Len(m) = n + 1 /\ m[n + 1] = e /\ (\A k \in 1..n : m[k] = l[k] /\ m[k].state # "TORN")
  BY <1>v, <1>2 DEF Appended
<1>4. \A k \in 1..(n + 1) : k \in 1..n \/ k = n + 1
  BY <1>1
<1>5. OnlyLast(m)
  BY <1>1, <1>3, <1>4 DEF OnlyLast
<1>6. e.state # "VALID_SINGLE" => Fewer(l, m)
  BY <1>v, <1>1, <1>3, <1>4 DEF Fewer
<1> QED BY <1>v, <1>2, <1>5, <1>6, ListsBut

\* An entry is programmed.
LEMMA ListsChanged ==
  ASSUME Known, NEW t \in Sect, NEW k \in 1..Len(Idx(t)),
         Changed(t, k), Idx(Other(t))' = Idx(Other(t)), Idx(t)'[k].item = Idx(t)[k].item,
         Idx(t)'[k].state \in {Idx(t)[k].state, "VALID_SINGLE", "INVALID"}
  PROVE  /\ \A s \in Sect : OnlyLast(Idx(s)')
         /\ Idx(t)'[k].state \in {Idx(t)[k].state, "INVALID"} => Lists
<1>v. PICK l, m, n : l = Idx(t) /\ m = Idx(t)' /\ n = Len(l)
  OBVIOUS
<1>1. n \in Nat /\ Len(m) = n /\ \A j \in 1..n : j # k => m[j] = l[j]
  BY <1>v, Lengths DEF Known, Changed
<1>2. \A j \in 1..n : l[j].state = "TORN" => j = n
  BY <1>v DEF Known, StoreInv, LastTorn
<1>3. m[k].item = l[k].item /\ m[k].state \in {l[k].state, "VALID_SINGLE", "INVALID"} /\ k \in 1..n
  BY <1>v
<1>4. OnlyLast(m)
  <2> SUFFICES ASSUME NEW j \in 1..n, m[j].state = "TORN" PROVE j = n
    BY <1>1 DEF OnlyLast
  <2>1. CASE j = k
    BY <1>2, <1>3, <2>1
  <2>2. CASE j # k
    BY <1>1, <1>2, <2>2
  <2> QED BY <2>1, <2>2
<1>5. m[k].state \in {l[k].state, "INVALID"} => Fewer(l, m)
  <2> SUFFICES ASSUME m[k].state \in {l[k].state, "INVALID"}, NEW j \in 1..n, m[j].state = "VALID_SINGLE"
               PROVE  l[j].state = "VALID_SINGLE" /\ l[j].item = m[j].item
    BY <1>v, <1>1 DEF Fewer
  <2>1. CASE j = k
    BY <1>3, <2>1
  <2>2. CASE j # k
    BY <1>1, <2>2
  <2> QED BY <2>1, <2>2
<1> QED BY <1>v, <1>4, <1>5, ListsBut

\* an entry found by nv_index_read, or named by an action, is made invalid
LEMMA ListsInvalid ==
  ASSUME Known, NEW t \in Sect, NEW k \in 1..Len(Idx(t)), flash' = SetState(t, k, "INVALID")
  PROVE  Lists
<1>1. /\ Changed(t, k) /\ Idx(Other(t))' = Idx(Other(t))
      /\ Idx(t)'[k].item = Idx(t)[k].item /\ Idx(t)'[k].state = "INVALID"
  BY StateProgram DEF Known
<1> QED BY <1>1, ListsChanged

\* what nv_index_read finds is an entry
LEMMA Found ==
  ASSUME TypeOK, NEW t \in Sect, NEW i, IndexRead(t, i) # 0
  PROVE  IndexRead(t, i) \in 1..Len(Idx(t)) /\ ValidFor(Idx(t), IndexRead(t, i), i)
<1>v. PICK l, n, k : l = Idx(t) /\ n = Len(l) /\ k = IndexRead(t, i)
  OBVIOUS
<1>1. n \in Nat /\ k = Newest(l, i, n) /\ k # 0
  BY <1>v, Lengths, Reading
<1>2. k \in Hits(l, i, n)
  BY <1>1, NewestIs
<1> QED BY <1>v, <1>2 DEF Hits

\* The copy of one live entry.
Put ==
  LET e == Idx(op.sect)[op.scan]
      t == Other(op.sect)
  IN /\ op.pc = "copy" /\ ~CopyEnded
     /\ e.state = "VALID_SINGLE" /\ e.item # op.item /\ Len(Idx(t)) = op.pos
     /\ flash' = [flash EXCEPT ![t].idx = Append(@, e)]

OnlyLasts == \A s \in Sect : OnlyLast(Idx(s)')

\* These steps program no index entry.
LEMMA HeadersOnly ==
  ASSUME TypeOK, \/ SectorReadForWrite \/ Locate \/ DedupDone \/ CopyDone \/ WriteFirstHdr
                 \/ WriteNewHdr \/ InvalidateOldHdr \/ RefusedWrite
  PROVE  \A s \in Sect : Idx(s)' = Idx(s)
<1>1. CASE UNCHANGED flash
  BY <1>1 DEF Idx
<1>2. CASE \E s, f : s \in Sect /\ flash' = SetFlag(s, f)
  BY <1>2 DEF TypeOK, Sector, SetFlag, Idx
<1>3. CASE \E s, f, q : s \in Sect /\ flash' = [flash EXCEPT ![s].flag = f, ![s].seq = q]
  BY <1>3 DEF TypeOK, Sector, Idx
<1>4. CASE SectorReadForWrite
  <2>1. PICK q \in SectorRead : IF flash[Other(q % 2)].flag = "VALID"
                                  THEN Unchecked(SetFlag(Other(q % 2), "INVALID"))
                                  ELSE UNCHANGED flash
    BY <1>4 DEF SectorReadForWrite
  <2>2. Other(q % 2) \in Sect
    BY SectorReadType DEF Sect, Other
  <2> QED BY <1>1, <1>2, <2>1, <2>2 DEF Unchecked
<1>5. CASE Locate \/ DedupDone \/ CopyDone
  BY <1>1, <1>5 DEF Locate, DedupDone, CopyDone
<1>6. CASE WriteFirstHdr \/ WriteNewHdr \/ InvalidateOldHdr
  <2>1. op.sect \in Sect /\ Target \in Sect
    BY <1>6, OpFacts DEF WriteFirstHdr, WriteNewHdr, InvalidateOldHdr
  <2>2. CASE WriteFirstHdr
    <3>1. \/ UNCHANGED flash
          \/ flash' = [flash EXCEPT ![op.sect].flag = "VALID", ![op.sect].seq = op.sect]
      BY <2>2 DEF WriteFirstHdr, Unchecked
    <3> QED BY <1>1, <1>3, <2>1, <3>1
  <2>3. CASE WriteNewHdr
    <3>1. \/ UNCHANGED flash
          \/ flash' = [flash EXCEPT ![Target].flag = "VALID", ![Target].seq = (op.seq + 1) % 4]
      BY <2>3 DEF WriteNewHdr
    <3> QED BY <1>1, <1>3, <2>1, <3>1
  <2>4. CASE InvalidateOldHdr
    <3>1. UNCHANGED flash \/ flash' = SetFlag(op.sect, "INVALID")
      BY <2>4 DEF InvalidateOldHdr, Unchecked
    <3> QED BY <1>1, <1>2, <2>1, <3>1
  <2> QED BY <1>6, <2>2, <2>3, <2>4
<1>7. CASE RefusedWrite
  BY <1>1, <1>7 DEF RefusedWrite, Refused
<1> QED BY <1>4, <1>5, <1>6, <1>7

\* They keep what the entries are.
LEMMA ListsHeaders ==
  ASSUME Known, \/ SectorReadForWrite \/ Locate \/ DedupDone \/ CopyDone \/ WriteFirstHdr
                \/ WriteNewHdr \/ InvalidateOldHdr \/ RefusedWrite
  PROVE  Lists
BY HeadersOnly, ListsSame DEF Known

\* The move to the other sector.
LEMMA ListsMove ==
  ASSUME Known, Erase \/ Dedup \/ Copy
  PROVE  OnlyLasts /\ (Lists \/ Put)
<1>s. PICK a \in Sect, b \in Sect : a = op.sect /\ b = Other(a) /\ Other(b) = a /\ a # b
  BY OpFacts, Sides DEF Known, Erase, Dedup, Copy
<1>0. Lists => OnlyLasts
  BY DEF Lists, OnlyLasts
<1>1. CASE UNCHANGED flash
  BY <1>0, <1>1, FlashSame, ListsSame
<1>2. CASE Erase
  <2>1. CASE flash' = [flash EXCEPT ![b] = BlankSector]
    <3>1. Idx(b)' = <<>> /\ Idx(a)' = Idx(a)
      BY <1>s, <2>1 DEF Known, TypeOK, Idx, BlankSector
    <3>2. OnlyLast(Idx(b)') /\ Fewer(Idx(b), Idx(b)')
      BY <3>1 DEF OnlyLast, Fewer
    <3> QED BY <1>s, <1>0, <3>1, <3>2, ListsBut
  <2> QED BY <1>s, <1>1, <1>2, <2>1 DEF Erase, Unchecked
<1>3. CASE Dedup
  <2>1. CASE /\ IndexRead(a, Idx(a)[op.scan].item) > op.scan
             /\ flash' = SetState(a, op.scan, "INVALID")
    <3>1. op.scan \in Nat /\ op.scan > 0 /\ Len(Idx(a)) \in Nat
      BY <1>3, OpFacts, Lengths DEF Known, Dedup
    <3>2. PICK j : j = IndexRead(a, Idx(a)[op.scan].item)
      OBVIOUS
    <3>3. j # 0 => j \in 1..Len(Idx(a))
      BY <3>2, Found DEF Known
    <3>4. op.scan \in 1..Len(Idx(a))
      BY <2>1, <3>1, <3>2, <3>3
    <3> QED BY <1>0, <2>1, <3>4, ListsInvalid
  <2> QED BY <1>s, <1>1, <1>3, <2>1 DEF Dedup, Unchecked, Idx
<1>4. CASE Copy
  <2>v. PICK e : e = Idx(a)[op.scan]
    OBVIOUS
  <2>0. /\ op.scan \in 1..Len(Idx(a)) /\ Formatted /\ op.pc = "copy"
        /\ e \in Entry /\ ~CopyEnded /\ op.pos \in Nat
    <3>1. op.scan \in 1..Len(Idx(a)) /\ flash[a].flag = "VALID"
      BY <1>s, <1>4 DEF Copy, CopyEnded, Idx
    <3> QED BY <1>4, <2>v, <3>1, Lengths, OpFacts DEF Copy, Known, Formatted, ValidSect
  <2>1. ASSUME Len(Idx(b)) = op.pos PROVE \A k \in 1..Len(Idx(b)) : Idx(b)[k].state # "TORN"
    BY <1>s, <2>0, <2>1 DEF Known, StoreInv, Copying
  <2>2. CASE /\ e.state = "VALID_SINGLE" /\ e.item # op.item /\ Len(Idx(b)) = op.pos
             /\ flash' = [flash EXCEPT ![b].idx = Append(@, e)]
    <3>1. OnlyLasts
      BY <2>0, <2>1, <2>2, ListsAppended DEF OnlyLasts
    <3> QED BY <1>s, <2>v, <2>0, <2>2, <3>1 DEF Put
  <2>3. CASE /\ Len(Idx(b)) = op.pos
             /\ flash' = [flash EXCEPT ![b].idx = Append(@, NewEntry(e.item))]
    <3>1. PICK f : f = NewEntry(e.item)
      OBVIOUS
    <3>2. f \in Entry /\ f.state # "VALID_SINGLE"
      BY <2>0, <3>1 DEF NewEntry, Entry
    <3>3. Lists
      BY <2>1, <2>3, <3>1, <3>2, ListsAppended
    <3> QED BY <1>0, <3>3
  <2>4. \/ UNCHANGED flash
        \/ /\ e.state = "VALID_SINGLE" /\ e.item # op.item /\ Len(Idx(b)) = op.pos
           /\ \/ flash' = [flash EXCEPT ![b].idx = Append(@, e)]
              \/ flash' = [flash EXCEPT ![b].idx = Append(@, NewEntry(e.item))]
    BY <1>s, <1>4, <2>v DEF Copy, Idx
  <2> QED BY <1>1, <2>2, <2>3, <2>4
<1> QED BY <1>2, <1>3, <1>4

\* The program of an item.
LEMMA ListsWrite ==
  ASSUME Known, WriteIndex \/ WritePayload \/ WriteItemHdr \/ WriteState \/ DeleteOld
  PROVE  OnlyLasts /\ (Lists \/ WriteState)
<1>s. PICK t \in Sect, p \in Nat : t = Target /\ p = op.pos
  BY OpFacts DEF Known, WriteIndex, WritePayload, WriteItemHdr, WriteState, DeleteOld
<1>0. Lists => OnlyLasts
  BY DEF Lists, OnlyLasts
<1>1. CASE UNCHANGED flash
  BY <1>0, <1>1, FlashSame, ListsSame
<1>2. CASE WriteIndex
  <2>1. \/ UNCHANGED flash
        \/ /\ Len(Idx(t)) = p
           /\ flash' = [flash EXCEPT ![t].idx = Append(@, NewEntry(op.item))]
    BY <1>s, <1>2 DEF WriteIndex, Idx
  <2>2. CASE /\ Len(Idx(t)) = p
             /\ flash' = [flash EXCEPT ![t].idx = Append(@, NewEntry(op.item))]
    <3>1. \A k \in 1..Len(Idx(t)) : Idx(t)[k].state # "TORN"
      BY <1>s, <1>2, <2>2 DEF Known, StoreInv, Indexing, WriteIndex
    <3>2. PICK f : f = NewEntry(op.item)
      OBVIOUS
    <3>3. f \in Entry /\ f.state # "VALID_SINGLE"
      BY <1>2, <3>2, OpFacts DEF NewEntry, Entry, WriteIndex, Known
    <3>4. Lists
      BY <2>2, <3>1, <3>2, <3>3, ListsAppended
    <3> QED BY <1>0, <3>4
  <2> QED BY <1>1, <2>1, <2>2
<1>3. ASSUME op.pc \in ItemPcs \cup DonePcs PROVE p \in 1..Len(Idx(t))
  BY <1>s, <1>3 DEF Known, StoreInv, Writing
<1>4. CASE WritePayload
  <2>1. p \in 1..Len(Idx(t)) /\ flash' = [flash EXCEPT ![t].idx[p].val = op.val] /\ TypeOK
    BY <1>s, <1>3, <1>4 DEF WritePayload, ItemPcs, Known
  <2>2. /\ Changed(t, p) /\ Idx(Other(t))' = Idx(Other(t))
        /\ Idx(t)'[p].item = Idx(t)[p].item /\ Idx(t)'[p].state = Idx(t)[p].state
    BY <2>1, ValProgram
  <2> QED BY <1>0, <2>1, <2>2, ListsChanged
<1>5. CASE WriteItemHdr
  <2>1. p \in 1..Len(Idx(t)) /\ flash' = [flash EXCEPT ![t].idx[p].hdr = "OK"] /\ TypeOK
    BY <1>s, <1>3, <1>5 DEF WriteItemHdr, ItemPcs, Known
  <2>2. /\ Changed(t, p) /\ Idx(Other(t))' = Idx(Other(t))
        /\ Idx(t)'[p].item = Idx(t)[p].item /\ Idx(t)'[p].state = Idx(t)[p].state
    BY <2>1, HdrProgram
  <2> QED BY <1>0, <2>1, <2>2, ListsChanged
<1>6. CASE WriteState
  <2>1. p \in 1..Len(Idx(t)) /\ flash' = SetState(t, p, "VALID_SINGLE") /\ TypeOK
    BY <1>s, <1>3, <1>6 DEF WriteState, ItemPcs, Known
  <2>2. /\ Changed(t, p) /\ Idx(Other(t))' = Idx(Other(t))
        /\ Idx(t)'[p].item = Idx(t)[p].item /\ Idx(t)'[p].state = "VALID_SINGLE"
    BY <2>1, StateProgram
  <2> QED BY <1>6, <2>1, <2>2, ListsChanged DEF OnlyLasts
<1>7. CASE DeleteOld
  <2>1. op.del \in 1..Len(Idx(t)) /\ flash' = SetState(t, op.del, "INVALID")
    BY <1>s, <1>3, <1>7 DEF DeleteOld, ItemPcs, DonePcs, Known, StoreInv, Writing
  <2> QED BY <1>0, <2>1, ListsInvalid
<1> QED BY <1>2, <1>4, <1>5, <1>6, <1>7

\* A removal, and a power loss.
LEMMA ListsRest ==
  ASSUME Known, Remove \/ Crash
  PROVE  OnlyLasts /\ Lists
<1>0. Lists => OnlyLasts
  BY DEF Lists, OnlyLasts
<1>1. CASE UNCHANGED flash
  BY <1>0, <1>1, FlashSame, ListsSame
<1>2. CASE Remove
  <2>1. PICK q, a, k :
          /\ q \in SectorRead /\ a = q % 2 /\ k = IndexRead(a, op.item)
          /\ UNCHANGED flash \/ (k # 0 /\ flash' = SetState(a, k, "INVALID"))
    BY <1>2 DEF Remove, Unchecked
  <2>2. a \in Sect
    BY <2>1, SectorReadType DEF Known, Sect
  <2>3. k # 0 => k \in 1..Len(Idx(a))
    BY <2>1, <2>2, Found DEF Known
  <2>4. CASE k # 0 /\ flash' = SetState(a, k, "INVALID")
    BY <1>0, <2>2, <2>3, <2>4, ListsInvalid
  <2> QED BY <1>1, <2>1, <2>4
<1>3. CASE Crash
  <2>s. PICK t \in Sect, p \in Nat : t = Target /\ p = op.pos
    BY <1>3, OpFacts DEF Known, Crash
  <2>1. CASE /\ op.pc = "index" /\ Len(Idx(t)) = p
             /\ flash' = [flash EXCEPT ![t].idx = Append(@, [NewEntry(op.item) EXCEPT !.state = "TORN"])]
    <3>1. \A k \in 1..Len(Idx(t)) : Idx(t)[k].state # "TORN"
      BY <2>s, <2>1 DEF Known, StoreInv, Indexing
    <3>2. PICK f : f = [NewEntry(op.item) EXCEPT !.state = "TORN"]
      OBVIOUS
    <3>3. f \in Entry /\ f.state # "VALID_SINGLE"
      BY <2>1, <3>2, OpFacts DEF NewEntry, Entry, Known
    <3>4. Lists
      BY <2>1, <3>1, <3>2, <3>3, ListsAppended
    <3> QED BY <1>0, <3>4
  <2>2. CASE op.pc = "itemhdr" /\ flash' = [flash EXCEPT ![t].idx[p].hdr = "TORN"]
    <3>1. p \in 1..Len(Idx(t)) /\ TypeOK
      BY <2>s, <2>2 DEF Known, StoreInv, Writing, ItemPcs
    <3>2. /\ Changed(t, p) /\ Idx(Other(t))' = Idx(Other(t))
          /\ Idx(t)'[p].item = Idx(t)[p].item /\ Idx(t)'[p].state = Idx(t)[p].state
      BY <2>2, <3>1, HdrProgram
    <3> QED BY <1>0, <3>1, <3>2, ListsChanged
  <2>3. CASE flash' = SetFlag(t, "TORN")
    <3>1. \A s \in Sect : Idx(s)' = Idx(s)
      BY <2>3 DEF Known, TypeOK, Sector, SetFlag, Idx
    <3> QED BY <1>0, <3>1, ListsSame
  <2> QED BY <1>1, <1>3, <2>s, <2>1, <2>2, <2>3 DEF Crash, Torn, Idx
<1> QED BY <1>2, <1>3

\* An item that is valid twice was valid twice.
LEMMA PairKept ==
  ASSUME NEW l, NEW m, Fewer(l, m), NEW k \in 1..Len(m), NEW j \in 1..Len(m), Pair(m, k, j)
  PROVE  k \in 1..Len(l) /\ j \in 1..Len(l) /\ Pair(l, k, j)
<1>1. /\ k < j /\ m[k].state = "VALID_SINGLE" /\ m[j].state = "VALID_SINGLE"
      /\ m[j].item = m[k].item
  BY DEF Pair, ValidFor
<1>2. /\ k \in 1..Len(l) /\ l[k].state = "VALID_SINGLE" /\ l[k].item = m[k].item
      /\ j \in 1..Len(l) /\ l[j].state = "VALID_SINGLE" /\ l[j].item = m[j].item
  BY <1>1 DEF Fewer
<1> QED BY <1>1, <1>2 DEF Pair, ValidFor

\* No other step makes an item valid twice.
LEMMA SingleLists ==
  ASSUME Known, Lists, op.pc # "delete"
  PROVE  Single'
<1> SUFFICES ASSUME Clean, NEW s \in Sect, NEW k \in 1..Len(Idx(s)'),
                    NEW j \in 1..Len(Idx(s)'), Pair(Idx(s)', k, j)
             PROVE  FALSE
  BY DEF Single
<1>1. k \in 1..Len(Idx(s)) /\ j \in 1..Len(Idx(s)) /\ Pair(Idx(s), k, j)
  BY PairKept DEF Lists
<1> QED BY <1>1 DEF Known, StoreInv, Single

\* The one item that is valid twice no longer is.
LEMMA SingleDelete ==
  ASSUME Known, DeleteOld
  PROVE  Single'
<1> SUFFICES ASSUME Clean, NEW s \in Sect, NEW k \in 1..Len(Idx(s)'),
                    NEW j \in 1..Len(Idx(s)'), Pair(Idx(s)', k, j)
             PROVE  FALSE
  BY DEF Single
<1>1. Lists
  BY ListsWrite DEF DeleteOld, WriteState
<1>2. k \in 1..Len(Idx(s)) /\ j \in 1..Len(Idx(s)) /\ Pair(Idx(s), k, j)
  BY <1>1, PairKept DEF Lists
<1>3. s = Target /\ k = op.del
  BY <1>2 DEF Known, StoreInv, Single
<1>4. flash' = SetState(s, k, "INVALID") /\ TypeOK
  BY <1>3 DEF DeleteOld, Known
<1>5. Idx(s)'[k].state = "INVALID"
  BY <1>2, <1>4, StateProgram
<1> QED BY <1>5 DEF Pair

\* When an item is valid, its previous entry, if there is one, is what is
\* invalidated next.
LEMMA SingleState ==
  ASSUME Known, WriteState
  PROVE  Single'
<1> SUFFICES ASSUME Clean, NEW s \in Sect, NEW k \in 1..Len(Idx(s)'),
                    NEW j \in 1..Len(Idx(s)'), Pair(Idx(s)', k, j)
             PROVE  op'.pc = "delete" /\ s = Target' /\ k = op'.del /\ j = op'.pos
  BY DEF Single
<1>s. PICK t \in Sect : t = Target /\ (s # t => s = Other(t))
  BY OpFacts, Sides DEF Known, WriteState
<1>v. PICK tgt, p, new : tgt = Idx(t) /\ p = op.pos /\ new = Idx(t)'
  OBVIOUS
<1>0. /\ op \in Running /\ op.pc = "state" /\ p \in Nat /\ p >= 1 /\ Len(tgt) = p
      /\ tgt[p].state = "OPERATION" /\ tgt[p].item = op.item
      /\ op.del = Newest(tgt, op.item, p) /\ op.del \in Nat
  BY <1>s, <1>v, OpFacts DEF Known, StoreInv, WriteState, Writing, ItemPcs, DonePcs
<1>1. /\ Changed(t, p) /\ Idx(Other(t))' = Idx(Other(t))
      /\ new[p].item = op.item /\ new[p].state = "VALID_SINGLE"
  <2>0. p \in 1..Len(Idx(t)) /\ TypeOK /\ flash' = SetState(t, p, "VALID_SINGLE")
    BY <1>s, <1>v, <1>0 DEF Known, WriteState
  <2> QED BY <1>v, <1>0, <2>0, StateProgram
<1>2. Len(new) = p /\ \A h \in 1..p : h # p => new[h] = tgt[h]
  BY <1>v, <1>0, <1>1 DEF Changed
<1>3. \A a, b \in 1..p : ~Pair(tgt, a, b)
  BY <1>s, <1>v, <1>0 DEF Known, StoreInv, Single
<1>4. CASE s # t
  BY <1>s, <1>0, <1>1, <1>4 DEF Known, StoreInv, Single
<1>5. CASE s = t
  <2>1. /\ k \in 1..p /\ j \in 1..p /\ k < j
        /\ new[k].state = "VALID_SINGLE" /\ new[j].state = "VALID_SINGLE" /\ new[j].item = new[k].item
    BY <1>v, <1>2, <1>5 DEF Pair, ValidFor
  <2>2. k # p /\ new[k] = tgt[k]
    BY <1>2, <2>1
  <2>3. j = p
    <3> SUFFICES ASSUME j # p PROVE FALSE
      OBVIOUS
    <3>1. Pair(tgt, k, j)
      BY <1>2, <2>1, <2>2 DEF Pair, ValidFor
    <3> QED BY <1>3, <2>1, <3>1
  <2>4. ValidFor(tgt, k, op.item) /\ k \in Hits(tgt, op.item, p)
    BY <1>1, <2>1, <2>2, <2>3 DEF ValidFor, Hits
  <2>5. op.del \in Hits(tgt, op.item, p) /\ k <= op.del
    BY <1>0, <2>4, NewestIs
  <2>6. op.del \in 1..p /\ ValidFor(tgt, op.del, op.item)
    BY <2>5 DEF Hits
  <2>7. k = op.del
    <3> SUFFICES ASSUME k # op.del PROVE FALSE
      OBVIOUS
    <3>1. Pair(tgt, k, op.del)
      BY <2>1, <2>4, <2>5, <2>6 DEF Pair, ValidFor
    <3> QED BY <1>3, <2>1, <2>6, <3>1
  <2>8. Goto("delete")
    BY <2>1, <2>7 DEF WriteState
  <2>9. op'.pc = "delete" /\ op'.del = op.del /\ op'.pos = p /\ Target' = t
    BY <1>s, <1>v, <1>0, <2>8, GotoKeeps
  <2> QED BY <1>5, <2>3, <2>7, <2>9
<1> QED BY <1>4, <1>5

\* An item is copied only from its one valid entry.
LEMMA SinglePut ==
  ASSUME Known, Put
  PROVE  Single'
<1> SUFFICES ASSUME Clean, NEW s \in Sect, NEW k \in 1..Len(Idx(s)'),
                    NEW j \in 1..Len(Idx(s)'), Pair(Idx(s)', k, j)
             PROVE  FALSE
  BY DEF Single
<1>s. PICK a \in Sect, b \in Sect : a = op.sect /\ b = Other(op.sect) /\ a # b /\ Other(b) = a
        /\ (s = a \/ s = b)
  BY OpFacts, Sides DEF Known, Put
<1>v. PICK src, tgt, n, p, e, new : /\ src = Idx(a) /\ tgt = Idx(b) /\ n = op.scan /\ p = op.pos
                                    /\ e = src[n] /\ new = Idx(b)'
  OBVIOUS
<1>0. /\ op.pc = "copy" /\ n \in 1..Len(src) /\ p \in Nat /\ Len(src) \in Nat /\ Len(tgt) = p
      /\ e \in Entry /\ Formatted /\ e.state = "VALID_SINGLE" /\ e.item # op.item /\ e.item \in Item
      /\ flash' = [flash EXCEPT ![b].idx = Append(@, e)]
  <2>1. op.pc = "copy" /\ p \in Nat
    BY <1>v, OpFacts DEF Known, Put
  <2>2. /\ n \in 1..Len(src) /\ flash[a].flag = "VALID" /\ Len(tgt) = p
        /\ e.state = "VALID_SINGLE" /\ e.item # op.item
        /\ flash' = [flash EXCEPT ![b].idx = Append(@, e)]
    BY <1>s, <1>v DEF Put, CopyEnded, Idx
  <2>3. e \in Entry /\ Len(src) \in Nat
    BY <1>v, <2>2, Lengths DEF Known
  <2> QED BY <2>1, <2>2, <2>3 DEF Formatted, ValidSect, Entry
<1>1. Appended(b, e) /\ Idx(a)' = Idx(a)
  BY <1>s, <1>0, Appending DEF Known
<1>2. Len(new) = p + 1 /\ new[p + 1] = e /\ \A h \in 1..p : new[h] = tgt[h]
  BY <1>v, <1>0, <1>1 DEF Appended
<1>3. \A h, g \in 1..p : ~Pair(tgt, h, g)
  BY <1>s, <1>v, <1>0 DEF Known, StoreInv, Single
<1>4. \A h, g \in 1..Len(src) : ~Pair(src, h, g)
  BY <1>s, <1>v, <1>0 DEF Known, StoreInv, Single
<1>5. CASE s = a
  BY <1>v, <1>1, <1>4, <1>5
<1>6. CASE s = b
  <2>1. /\ k \in 1..(p + 1) /\ j \in 1..(p + 1) /\ k < j
        /\ new[k].state = "VALID_SINGLE" /\ new[j].state = "VALID_SINGLE" /\ new[j].item = new[k].item
    BY <1>v, <1>2, <1>6 DEF Pair, ValidFor
  <2>2. k \in 1..p /\ new[k] = tgt[k]
    BY <1>0, <1>2, <2>1
  <2>3. j = p + 1
    <3> SUFFICES ASSUME j # p + 1 PROVE FALSE
      OBVIOUS
    <3>1. j \in 1..p /\ new[j] = tgt[j]
      BY <1>0, <1>2, <2>1
    <3>2. Pair(tgt, k, j)
      BY <2>1, <2>2, <3>1 DEF Pair, ValidFor
    <3> QED BY <1>3, <2>2, <3>1, <3>2
  <2>4. k \in Hits(tgt, e.item, p)
    BY <1>2, <2>1, <2>2, <2>3 DEF ValidFor, Hits
  <2>5. Hits(src, e.item, n - 1) # {}
    <3>1. Copied(n - 1)
      BY <1>s, <1>v, <1>0 DEF Known, StoreInv, Copying
    <3>2. (Hits(tgt, e.item, p) = {}) <=> (Hits(src, e.item, n - 1) = {})
      BY <1>s, <1>v, <1>0, <3>1 DEF Copied
    <3> QED BY <2>4, <3>2
  <2>6. PICK h \in 1..(n - 1) : ValidFor(src, h, e.item)
    BY <2>5 DEF Hits
  <2>7. h \in 1..Len(src) /\ Pair(src, h, n)
    BY <1>v, <1>0, <2>6 DEF Pair, ValidFor
  <2> QED BY <1>0, <1>4, <2>7
<1> QED BY <1>s, <1>5, <1>6

\* Every step of a request keeps the invariant.
LEMMA StepGoes ==
  ASSUME Known, Step \/ Crash
  PROVE  StoreInv' /\ OthersSame /\ (op.pc # "remove" \/ Clean => Kept)
<1>1. ASSUME ~Remove PROVE Steady /\ Kept /\ OthersSame
  <2>1. Going
    BY <1>1, SectorReadGoes, LocateGoes, EraseGoes, DedupGoes, CopyGoes, CopyDoneGoes,
       WriteIndexGoes, ItemGoes, WriteStateGoes, DeleteOldGoes, FirstHdrGoes, NewHdrGoes,
       OldHdrGoes, RefusedGoes, CrashGoes DEF Step
  <2>2. OthersSame
    BY <2>1 DEF Going, Kept, StoreSame, StoreApplied, OthersSame
  <2> QED BY <2>1, <2>2 DEF Going
<1>2. Lists => OnlyLasts
  BY DEF Lists, OnlyLasts
<1>3. /\ OnlyLasts
      /\ Lists \/ Put \/ WriteState
  BY <1>2, ListsHeaders, ListsMove, ListsWrite, ListsRest DEF Step
<1>4. Single'
  <2>1. CASE op.pc # "delete"
    BY <1>3, <2>1, SingleLists, SingleState, SinglePut
  <2>2. CASE op.pc = "delete" /\ Clean
    <3>1. ~CanFail("crash") /\ ~CanFail("refuse")
      BY <2>2 DEF Clean, CanFail
    <3>2. DeleteOld
      BY <2>2, <3>1 DEF Step, SectorReadForWrite, Locate, Erase, Dedup, DedupDone, Copy, CopyDone,
                        WriteIndex, WritePayload, WriteItemHdr, WriteState, WriteFirstHdr,
                        WriteNewHdr, InvalidateOldHdr, Remove, RefusedWrite, Refused, Crash
    <3> QED BY <3>2, SingleDelete
  <2>3. CASE ~Clean
    BY <2>3 DEF Single
  <2> QED BY <2>1, <2>2, <2>3
<1>5. LastTorn'
  BY <1>3 DEF OnlyLasts, OnlyLast, LastTorn
<1>6. ASSUME Remove PROVE Steady /\ OthersSame /\ (Clean => Kept) /\ op.pc = "remove"
  BY <1>6, RemoveGoes DEF Remove
<1> QED BY <1>1, <1>4, <1>5, <1>6 DEF Steady, StoreInv

\* A request begins.
LEMMA BeginGoes ==
  ASSUME Known, NEW i \in Item, NEW v, op.pc = "idle", UNCHANGED flash,
         \/ v \in Value /\ op' = [Idle EXCEPT !.pc = "sector", !.item = i, !.val = v]
         \/ i \in Removable /\ v = Absent /\ op' = [Idle EXCEPT !.pc = "remove", !.item = i]
  PROVE  /\ StoreInv' /\ StoreSame
         /\ op'.pc # "idle" /\ op'.item = i /\ op'.val = v /\ op'.res = "none"
<1>1. /\ op'.pc \in {"sector", "remove"} /\ op'.item = i /\ op'.val = v /\ op'.res = "none"
      /\ op'.pc = "remove" => Removable # {} /\ v = Absent
      /\ op'.pc = "sector" => v \in Value
  BY DEF Idle, Rest
<1>2. StoreSame /\ Formatted' = Formatted /\ \A s : Idx(s)' = Idx(s)
  BY FlashSame
<1>3. LastTorn'
  BY <1>2 DEF Known, StoreInv, LastTorn
<1>4. Fresh'
  <2>1. ~Formatted => \A s \in Sect : flash[s].flag = "IDLE" /\ Len(Idx(s)) = 0
    BY Nothing DEF Known, ItemPcs, DonePcs
  <2> QED BY <1>1, <1>2, <2>1 DEF Fresh
<1>5. Single'
  BY ListsSame, SingleLists, <1>2
<1>6. RequestOK' /\ Copying' /\ Indexing' /\ Writing' /\ Moved'
  BY <1>1 DEF RequestOK, Copying, Indexing, Writing, Moved, ItemPcs, DonePcs
<1> QED BY <1>1, <1>2, <1>3, <1>4, <1>5, <1>6 DEF StoreInv

\* A request begins, or is carried on.
LEMMA NextGoes ==
  ASSUME Known, Next
  PROVE  /\ StoreInv'
         /\ \/ \E i \in Item, v \in Value \cup {Absent} :
                 /\ op.pc = "idle" /\ StoreSame
                 /\ op'.pc # "idle" /\ op'.item = i /\ op'.val = v /\ op'.res = "none"
            \/ op.pc # "idle" /\ OthersSame /\ (op.pc # "remove" \/ Clean => Kept)
<1>1. CASE Step \/ Crash
  <2>1. op.pc # "idle"
    BY <1>1 DEF Step, SectorReadForWrite, Locate, Erase, Dedup, DedupDone, Copy, CopyDone,
                WriteIndex, WritePayload, WriteItemHdr, WriteState, DeleteOld, WriteFirstHdr,
                WriteNewHdr, InvalidateOldHdr, Remove, RefusedWrite, Refused, Crash
  <2> QED BY <1>1, <2>1, StepGoes
<1>2. ASSUME NEW i \in Item, NEW v \in Value, BeginWrite(i, v)
      PROVE  /\ StoreInv' /\ op.pc = "idle" /\ StoreSame
             /\ op'.pc # "idle" /\ op'.item = i /\ op'.val = v /\ op'.res = "none"
  BY <1>2, BeginGoes DEF BeginWrite
<1>3. ASSUME NEW i \in Removable, BeginRemove(i)
      PROVE  /\ StoreInv' /\ op.pc = "idle" /\ StoreSame
             /\ op'.pc # "idle" /\ op'.item = i /\ op'.val = Absent /\ op'.res = "none"
  <2>1. i \in Item
    BY NvAssumption
  <2> QED BY <1>3, <2>1, BeginGoes DEF BeginRemove
<1>4. Removable \subseteq Item
  BY NvAssumption
<1> QED BY <1>1, <1>2, <1>3, <1>4 DEF Next

\* What the module holds, in the order in which it is written, in every state.
THEOREM StoreInvariant ==
  ASSUME FaultAssumption
  PROVE  Spec => []StoreInv
<1>1. Init => StoreInv
  <2> SUFFICES ASSUME Init PROVE StoreInv
    OBVIOUS
  <2>1. \A s \in Sect : flash[s].flag = "IDLE" /\ Len(Idx(s)) = 0 /\ op.pc = "idle"
    BY DEF Init, BlankSector, Idle, Rest, Idx
  <2>2. op.pc = "idle"
    BY DEF Init, Idle, Rest
  <2> QED BY <2>1, <2>2 DEF StoreInv, LastTorn, Fresh, RequestOK, Copying, Indexing, Writing,
                            Moved, Single, ItemPcs, DonePcs
<1>2. /\ TypeOK /\ TypeOK' /\ HeaderInv /\ HeaderInv' /\ StoreInv /\ [Next]_vars => StoreInv'
  <2> SUFFICES ASSUME TypeOK, TypeOK', HeaderInv, HeaderInv', StoreInv, [Next]_vars
               PROVE  StoreInv'
    OBVIOUS
  <2>1. Known
    BY HeaderStep DEF Known
  <2>2. CASE Next
    BY <2>1, <2>2, NextGoes
  <2>3. CASE UNCHANGED vars
    <3>1. /\ Formatted' = Formatted /\ (\A s : Idx(s)' = Idx(s)) /\ UNCHANGED <<flash, op>>
      BY <2>3, FlashSame DEF vars
    <3>2. (\A n : Copied(n)' = Copied(n)) /\ Target' = Target
      BY <3>1 DEF Copied, Target, Other, Idx
    <3>3. Moved'
      <4>1. \A s, i : ReadFrom(s, i)' = ReadFrom(s, i)
        BY <3>1 DEF ReadFrom, IndexRead
      <4>2. Other(op.sect)' = Other(op.sect)
        BY <3>1 DEF Other
      <4> QED BY <3>1, <4>1, <4>2 DEF StoreInv, Moved
    <3>4. LastTorn' /\ Fresh' /\ RequestOK' /\ Single'
      BY <3>1, <3>2 DEF StoreInv, LastTorn, Fresh, RequestOK, Single
    <3>5. Copying' /\ Indexing' /\ Writing'
      BY <3>1, <3>2 DEF StoreInv, Copying, Indexing, Writing, MoveDone, Idx, Target, Other
    <3> QED BY <3>3, <3>4, <3>5 DEF StoreInv
  <2> QED BY <2>2, <2>3
<1> QED BY <1>1, <1>2, TypeCorrect, HeaderInvariant, PTL DEF Spec

\* A step of the store is a step of the map, or none that the map sees.
LEMMA MapStep ==
  ASSUME Known, MapAssumption, [Next]_vars
  PROVE  [Map!Next]_<<[i \in Item |-> View(i)],
                     IF op.pc = "idle" THEN [item |-> Absent, val |-> Absent]
                     ELSE [item |-> op.item, val |-> op.val],
                     op.res>>
<1> DEFINE st == [i \in Item |-> View(i)]
           pe == IF op.pc = "idle" THEN [item |-> Absent, val |-> Absent]
                 ELSE [item |-> op.item, val |-> op.val]
<1>a. Absent \notin Item
  BY NvAssumption
<1>s. StoreSame => st' = st
  BY DEF StoreSame
<1>1. CASE UNCHANGED vars
  <2>1. st' = st /\ pe' = pe /\ op'.res = op.res
    <3>1. UNCHANGED flash /\ op' = op
      BY <1>1 DEF vars
    <3> QED BY <1>s, <3>1, FlashSame
  <2> QED BY <2>1
<1>2. ASSUME NEW i \in Item, NEW v \in Value \cup {Absent},
             op.pc = "idle", StoreSame, op'.pc # "idle", op'.item = i, op'.val = v, op'.res = "none"
      PROVE  Map!Begin(i, v)
  <2>1. st' = st /\ pe = [item |-> Absent, val |-> Absent] /\ pe' = [item |-> i, val |-> v]
    BY <1>2, <1>s
  <2> QED BY <1>2, <2>1 DEF Map!Begin, Map!NoReq
<1>3. ASSUME op.pc # "idle", Kept PROVE Map!Apply \/ Map!End \/ (st' = st /\ pe' = pe /\ op'.res = op.res)
  <2>0. op.item \in Item /\ op.res = "none" /\ pe = [item |-> op.item, val |-> op.val]
    BY <1>3, OpFacts DEF Known
  <2>1. pe # [item |-> Absent, val |-> Absent]
    BY <1>a, <2>0
  <2>2. StoreApplied => st' = [st EXCEPT ![pe.item] = pe.val]
    BY <2>0 DEF StoreApplied
  <2>3. CASE op'.pc # "idle"
    <3>1. pe' = pe
      BY <1>3, <2>0, <2>3 DEF Kept
    <3>2. op'.res = op.res
      BY <2>0, <2>3 DEF Known, TypeOK, Running, Resting, Rest
    <3> QED BY <1>3, <1>s, <2>1, <2>2, <3>1, <3>2 DEF Kept, Map!Apply, Map!Applied, Map!NoReq
  <2>4. CASE op'.pc = "idle"
    <3>1. pe' = [item |-> Absent, val |-> Absent]
      BY <2>4
    <3>2. op'.res = "NV_SUCC" => StoreApplied
      BY <1>3, <2>4 DEF Kept
    <3> QED BY <1>3, <1>s, <2>1, <2>2, <3>1, <3>2 DEF Kept, Map!End, Map!Applied, Map!NoReq
  <2> QED BY <2>3, <2>4
<1>4. CASE Next
  <2>1. op.pc # "remove" \/ Clean
    BY DEF Known, StoreInv, RequestOK, MapAssumption
  <2> QED BY <1>2, <1>3, <1>4, <2>1, NextGoes DEF Map!Next
<1> QED BY <1>1, <1>4

\* The item store implements the map: a request is atomic across power loss and
\* refused flash operations, in place, in its retry and across the move to the
\* other sector, and no other item is disturbed.
THEOREM StoreIsMap ==
  ASSUME MapAssumption
  PROVE  Spec => MapSpec
<1>1. Init => Map!Init
  <2> SUFFICES ASSUME Init PROVE Map!Init
    OBVIOUS
  <2>1. ~Formatted /\ op.pc = "idle" /\ op.res = "none"
    BY DEF Init, BlankSector, Idle, Rest, Formatted, ValidSect
  <2>2. \A i : View(i) = Absent
    BY <2>1 DEF View
  <2> QED BY <2>1, <2>2 DEF Map!Init, Map!NoReq
<1>2. /\ TypeOK /\ TypeOK' /\ HeaderInv /\ HeaderInv' /\ StoreInv /\ [Next]_vars =>
        [Map!Next]_<<[i \in Item |-> View(i)],
                     IF op.pc = "idle" THEN [item |-> Absent, val |-> Absent]
                     ELSE [item |-> op.item, val |-> op.val],
                     op.res>>
  BY MapStep, HeaderStep DEF Known, MapAssumption
<1>3. FaultAssumption
  BY DEF MapAssumption
<1> QED
  BY <1>1, <1>2, <1>3, TypeCorrect, HeaderInvariant, StoreInvariant, PTL DEF Spec, MapSpec,
     Map!Spec

\* A request that returned NV_SUCC is what every later read of its item yields.
THEOREM SuccessLasts ==
  ASSUME MapAssumption
  PROVE  Spec => SuccessIsDurable
<1> DEFINE Durable == \A i \in Item, v \in Value \cup {Absent} :
             (op.item = i /\ op.val = v /\ op'.res = "NV_SUCC") =>
               \A q \in 0..3 : q \in SectorRead' => ReadFrom(q % 2, i)' = v
<1>1. /\ TypeOK /\ TypeOK' /\ HeaderInv /\ HeaderInv' /\ StoreInv /\ [Next]_vars => [Durable]_vars
  <2> SUFFICES ASSUME TypeOK, TypeOK', HeaderInv, HeaderInv', StoreInv, Next,
                      NEW i \in Item, NEW v \in Value \cup {Absent},
                      op.item = i, op.val = v, op'.res = "NV_SUCC",
                      NEW q \in 0..3, q \in SectorRead'
               PROVE  ReadFrom(q % 2, i)' = v
    OBVIOUS
  <2>1. Known /\ (op.pc # "remove" \/ Clean)
    BY HeaderStep DEF Known, MapAssumption, StoreInv, RequestOK
  <2>2. op.pc # "idle" /\ Kept
    BY <2>1, NextGoes
  <2>3. op'.pc = "idle"
    BY DEF TypeOK, Running, Resting, Rest
  <2>4. StoreApplied /\ Formatted'
    BY <2>2, <2>3 DEF Kept
  <2>5. q = CurrentSeq'
    BY <2>4 DEF SectorRead
  <2>6. View(i)' = v
    BY <2>4 DEF StoreApplied
  <2> QED BY <2>4, <2>5, <2>6 DEF View
<1> HIDE DEF Durable
<1>2. FaultAssumption
  BY DEF MapAssumption
<1> QED
  BY <1>1, <1>2, TypeCorrect, HeaderInvariant, StoreInvariant, PTL DEF Spec, SuccessIsDurable,
     Durable

\* Whatever is removed, and whatever is cut short or refused, an item changes only
\* while it is being written or removed.
THEOREM OthersUndisturbed ==
  ASSUME FaultAssumption
  PROVE  Spec => [][\A i \in Item : View(i)' # View(i) => op.pc # "idle" /\ op.item = i]_vars
<1> DEFINE Undisturbed == \A i \in Item : View(i)' # View(i) => op.pc # "idle" /\ op.item = i
<1>1. TypeOK /\ TypeOK' /\ HeaderInv /\ HeaderInv' /\ StoreInv /\ [Next]_vars => [Undisturbed]_vars
  BY NextGoes, HeaderStep DEF Known, OthersSame, StoreSame
<1> HIDE DEF Undisturbed
<1> QED BY <1>1, TypeCorrect, HeaderInvariant, StoreInvariant, PTL DEF Spec, Undisturbed

\* And a write that returned NV_SUCC is what every later read of its item yields.
THEOREM WriteLasts ==
  ASSUME FaultAssumption
  PROVE  Spec => [][\A i \in Item, v \in Value :
                      (op.item = i /\ op.val = v /\ op'.res = "NV_SUCC") =>
                        \A q \in 0..3 : q \in SectorRead' => ReadFrom(q % 2, i)' = v]_vars
<1> DEFINE Durable == \A i \in Item, v \in Value :
             (op.item = i /\ op.val = v /\ op'.res = "NV_SUCC") =>
               \A q \in 0..3 : q \in SectorRead' => ReadFrom(q % 2, i)' = v
<1>1. /\ TypeOK /\ TypeOK' /\ HeaderInv /\ HeaderInv' /\ StoreInv /\ [Next]_vars => [Durable]_vars
  <2> SUFFICES ASSUME TypeOK, TypeOK', HeaderInv, HeaderInv', StoreInv, Next,
                      NEW i \in Item, NEW v \in Value,
                      op.item = i, op.val = v, op'.res = "NV_SUCC",
                      NEW q \in 0..3, q \in SectorRead'
               PROVE  ReadFrom(q % 2, i)' = v
    OBVIOUS
  <2>1. Known /\ op.pc # "remove"
    BY HeaderStep, NvAssumption DEF Known, StoreInv, RequestOK
  <2>2. op.pc # "idle" /\ Kept
    BY <2>1, NextGoes
  <2>3. op'.pc = "idle"
    BY DEF TypeOK, Running, Resting, Rest
  <2>4. StoreApplied /\ Formatted'
    BY <2>2, <2>3 DEF Kept
  <2>5. q = CurrentSeq'
    BY <2>4 DEF SectorRead
  <2>6. View(i)' = v
    BY <2>4 DEF StoreApplied
  <2> QED BY <2>4, <2>5, <2>6 DEF View
<1> HIDE DEF Durable
<1> QED BY <1>1, TypeCorrect, HeaderInvariant, StoreInvariant, PTL DEF Spec, Durable

-----------------------------------------------------------------------------
(* Sums over finite sets *)

\* Of some subsets of a finite set one has none of the others inside.  Applied
\* to the counterexamples of a claim, this is induction over finite sets.
LEMMA Smallest ==
  ASSUME NEW S, IsFiniteSet(S), NEW B \in SUBSET (SUBSET S), B # {}
  PROVE  \E s \in B : IsFiniteSet(s) /\ \A t \in B : t \subseteq s => t = s
<1> DEFINE Size == {n \in Nat : \E s \in B : Cardinality(s) = n}
<1>1. \A s \in B : IsFiniteSet(s) /\ Cardinality(s) \in Nat
  BY FS_Subset, FS_CardinalityType
<1>2. PICK n \in Size : \A m \in Size : ~(<<m, n>> \in OpToRel(<, Nat))
  <2>1. Size # {} /\ Size \subseteq Nat
    BY <1>1
  <2> HIDE DEF Size
  <2> QED
    BY <2>1, NatLessThanWellFounded, WFMin
<1>3. \A m \in Size : ~(m < n)
  BY <1>2 DEF OpToRel
<1>4. PICK s \in B : Cardinality(s) = n
  OBVIOUS
<1>5. \A t \in B : t \subseteq s => t = s
  <2> SUFFICES ASSUME NEW t \in B, t \subseteq s PROVE t = s
    OBVIOUS
  <2>1. Cardinality(t) <= Cardinality(s) /\ (Cardinality(s) = Cardinality(t) => s = t)
    BY <1>1, FS_Subset
  <2>2. Cardinality(t) \in Size
    BY <1>1
  <2> QED
    BY <1>1, <1>3, <1>4, <2>1, <2>2
<1> QED
  BY <1>1, <1>5

Pick(s) == CHOOSE x \in s : TRUE

\* f sums up a over every subset of S
SumsUp(a, S, f) ==
  f = [s \in SUBSET S |-> IF s = {} THEN 0 ELSE a[Pick(s)] + f[s \ {Pick(s)}]]

Total(a, S) == (CHOOSE f : SumsUp(a, S, f))[S]

\* SumFunctionOnSet is what the function that sums up yields.
LEMMA SumIsTotal ==
  ASSUME NEW a, NEW S
  PROVE  SumFunctionOnSet(a, S) = Total(a, S)
BY Zenon DEF SumFunctionOnSet, FoldFunctionOnSet, MapThenFoldSet, Total, SumsUp, Pick

\* What is picked from a set is in it.
LEMMA Picked == \A s : s # {} => Pick(s) \in s
BY DEF Pick

\* Functions that sum up over different sets agree on the subsets of both.
LEMMA SumsAgree ==
  ASSUME NEW a, NEW S, NEW T, IsFiniteSet(S), NEW f, NEW g,
         SumsUp(a, S, f), SumsUp(a, T, g)
  PROVE  \A W : W \in SUBSET S /\ W \in SUBSET T => f[W] = g[W]
<1> DEFINE B == {W \in SUBSET S : W \in SUBSET T /\ f[W] # g[W]}
<1>1. SUFFICES ASSUME B # {} PROVE FALSE
  OBVIOUS
<1>2. PICK W \in B : \A V \in B : V \subseteq W => V = W
  <2>1. B \in SUBSET (SUBSET S)
    OBVIOUS
  <2> HIDE DEF B
  <2> QED
    BY <1>1, <2>1, Smallest
<1>3. /\ f[W] = IF W = {} THEN 0 ELSE a[Pick(W)] + f[W \ {Pick(W)}]
      /\ g[W] = IF W = {} THEN 0 ELSE a[Pick(W)] + g[W \ {Pick(W)}]
  BY Zenon DEF SumsUp
<1>4. W # {}
  BY <1>3
<1>5. f[W \ {Pick(W)}] # g[W \ {Pick(W)}]
  BY <1>3, <1>4
<1>6. W \ {Pick(W)} \in B
  BY <1>5
<1> QED
  BY <1>2, <1>4, <1>6, Picked

\* Over every finite set there is a function that sums up.
LEMMA SumsExist ==
  ASSUME NEW a, NEW S, IsFiniteSet(S)
  PROVE  SumsUp(a, S, CHOOSE f : SumsUp(a, S, f))
<1> DEFINE Sums(s) == \E f : SumsUp(a, s, f)
           B == {s \in SUBSET S : ~Sums(s)}
<1>1. SUFFICES ASSUME B # {} PROVE FALSE
  <2> SUFFICES Sums(S)
    BY Zenon
  <2> QED
    OBVIOUS
<1>2. \A s \in SUBSET S : IsFiniteSet(s)
  BY FS_Subset
<1>3. PICK s \in B : \A t \in B : t \subseteq s => t = s
  <2>1. B \in SUBSET (SUBSET S)
    OBVIOUS
  <2> HIDE DEF B
  <2> QED
    BY <1>1, <2>1, Smallest
<1>4. \A t \in SUBSET s : t # s => Sums(t)
  BY <1>3
<1> DEFINE F(t) == CHOOSE f : SumsUp(a, t, f)
           h == [t \in SUBSET s |-> IF t = {} THEN 0
                   ELSE a[Pick(t)] + F(t \ {Pick(t)})[t \ {Pick(t)}]]
<1>5. \A t \in SUBSET s : t # {} =>
         t \ {Pick(t)} \in SUBSET s /\ SumsUp(a, t \ {Pick(t)}, F(t \ {Pick(t)}))
  <2> TAKE t \in SUBSET s
  <2> HAVE t # {}
  <2> DEFINE u == t \ {Pick(t)}
  <2>1. u \in SUBSET s /\ u # s
    BY Picked
  <2>2. Sums(u)
    BY <1>4, <2>1
  <2>3. SumsUp(a, u, F(u))
    BY <2>2, Zenon
  <2> QED
    BY <2>1, <2>3
<1>6. \A t \in SUBSET s : t # {} =>
        h[t \ {Pick(t)}] = F(t \ {Pick(t)})[t \ {Pick(t)}]
  <2> TAKE t \in SUBSET s
  <2> HAVE t # {}
  <2> DEFINE u == t \ {Pick(t)}
  <2>1. u \in SUBSET s /\ SumsUp(a, u, F(u))
    BY <1>5
  <2> HIDE DEF u, F
  <2>2. F(u)[u] = IF u = {} THEN 0 ELSE a[Pick(u)] + F(u)[u \ {Pick(u)}]
    BY <2>1, Zenon DEF SumsUp
  <2>3. h[u] = IF u = {} THEN 0 ELSE a[Pick(u)] + F(u \ {Pick(u)})[u \ {Pick(u)}]
    BY <2>1
  <2>4. CASE u = {}
    BY <2>2, <2>3, <2>4 DEF u
  <2>5. CASE u # {}
    <3> DEFINE v == u \ {Pick(u)}
    <3>1. SumsUp(a, v, F(v))
      BY <1>5, <2>1, <2>5
    <3>2. IsFiniteSet(u)
      BY <1>2, <2>1
    <3>3. v \in SUBSET u /\ v \in SUBSET v
      OBVIOUS
    <3> HIDE DEF v
    <3>4. F(u)[v] = F(v)[v]
      BY <3>1, <3>2, <3>3, <2>1, SumsAgree
    <3> QED
      BY <2>2, <2>3, <2>5, <3>4 DEF u, v
  <2> QED
    BY <2>4, <2>5
<1>7. SumsUp(a, s, h)
  <2> SUFFICES h = [t \in SUBSET s |-> IF t = {} THEN 0 ELSE a[Pick(t)] + h[t \ {Pick(t)}]]
    BY Zenon DEF SumsUp
  <2> HIDE DEF F
  <2>1. \A t \in SUBSET s :
         (IF t = {} THEN 0 ELSE a[Pick(t)] + F(t \ {Pick(t)})[t \ {Pick(t)}])
         = (IF t = {} THEN 0 ELSE a[Pick(t)] + h[t \ {Pick(t)}])
    <3> TAKE t \in SUBSET s
    <3> HIDE DEF h
    <3> QED
      BY <1>6
  <2> QED
    BY <2>1, Zenon
<1> QED
  BY <1>7

\* A sum is the summand of the element that is picked and the sum of the rest.
LEMMA TotalPick ==
  ASSUME NEW a, NEW S, IsFiniteSet(S)
  PROVE  /\ S = {} => Total(a, S) = 0
         /\ S # {} => Total(a, S) = a[Pick(S)] + Total(a, S \ {Pick(S)})
<1> DEFINE f == CHOOSE f : SumsUp(a, S, f)
           U == S \ {Pick(S)}
           g == CHOOSE g : SumsUp(a, U, g)
<1>1. SumsUp(a, S, f) /\ Total(a, S) = f[S]
  BY SumsExist, Zenon DEF Total
<1>2. IsFiniteSet(U)
  BY FS_Subset
<1>3. SumsUp(a, U, g) /\ Total(a, U) = g[U]
  <2> HIDE DEF U
  <2> QED
    BY <1>2, SumsExist, Zenon DEF Total
<1>4. S \in SUBSET S /\ U \in SUBSET S /\ U \in SUBSET U
  OBVIOUS
<1> HIDE DEF f, g
<1>5. f[S] = IF S = {} THEN 0 ELSE a[Pick(S)] + f[U]
  BY <1>1, <1>4, Zenon DEF SumsUp
<1>6. f[U] = g[U]
  <2> HIDE DEF U
  <2> QED
    BY <1>1, <1>3, <1>4, SumsAgree
<1> QED
  BY <1>1, <1>3, <1>5, <1>6

\* A sum of integers is an integer, and any element may be taken out of it.
LEMMA TotalStep ==
  ASSUME NEW a, NEW S, IsFiniteSet(S), \A x \in S : a[x] \in Int
  PROVE  /\ Total(a, S) \in Int
         /\ \A x \in S : Total(a, S) = a[x] + Total(a, S \ {x})
<1> DEFINE Fine(s) == /\ Total(a, s) \in Int
                      /\ \A x \in s : Total(a, s) = a[x] + Total(a, s \ {x})
           B == {s \in SUBSET S : ~Fine(s)}
<1>1. SUFFICES ASSUME B # {} PROVE FALSE
  <2> SUFFICES Fine(S)
    OBVIOUS
  <2> HIDE DEF Fine
  <2> QED
    OBVIOUS
<1>2. PICK s \in B : IsFiniteSet(s) /\ \A t \in B : t \subseteq s => t = s
  <2>1. B \in SUBSET (SUBSET S)
    OBVIOUS
  <2> HIDE DEF B
  <2> QED
    BY <1>1, <2>1, Smallest
<1>3. \A t \in SUBSET s : t # s => Fine(t)
  <2> HIDE DEF Fine
  <2> QED
    BY <1>2
<1>4. s # {}
  <2> SUFFICES ASSUME s = {} PROVE FALSE
    OBVIOUS
  <2>1. Total(a, s) = 0
    BY <1>2, TotalPick
  <2> QED
    BY <1>2, <2>1
<1> DEFINE p == Pick(s)
<1>5. p \in s
  BY <1>4, Picked
<1>6. Total(a, s) = a[p] + Total(a, s \ {p})
  BY <1>2, <1>4, TotalPick
<1> HIDE DEF p
<1>7. Total(a, s \ {p}) \in Int /\ a[p] \in Int
  <2>1. Fine(s \ {p})
    <3> HIDE DEF Fine
    <3> QED
      BY <1>3, <1>5
  <2> QED
    BY <1>5, <2>1
<1>8. \A x \in s : Total(a, s) = a[x] + Total(a, s \ {x})
  <2> SUFFICES ASSUME NEW x \in s, x # p
               PROVE  Total(a, s) = a[x] + Total(a, s \ {x})
    BY <1>6
  <2>1. (s \ {p}) \ {x} = (s \ {x}) \ {p}
    OBVIOUS
  <2> DEFINE w == (s \ {x}) \ {p}
  <2>2. Fine(s \ {p}) /\ Fine(s \ {x}) /\ Fine(w)
    <3> HIDE DEF Fine
    <3> QED
      BY <1>3, <1>5
  <2>3. Total(a, s \ {p}) = a[x] + Total(a, w)
    BY <2>1, <2>2
  <2>4. Total(a, s \ {x}) = a[p] + Total(a, w)
    BY <1>5, <2>2
  <2>5. a[x] \in Int /\ Total(a, w) \in Int
    BY <2>2
  <2> HIDE DEF w
  <2> QED
    BY <1>6, <1>7, <2>3, <2>4, <2>5
<1>9. Total(a, s) \in Int
  BY <1>6, <1>7
<1> QED
  BY <1>2, <1>8, <1>9

\* Sums of equal summands are equal.
LEMMA TotalSame ==
  ASSUME NEW a, NEW b, NEW S, IsFiniteSet(S), \A x \in S : a[x] = b[x]
  PROVE  Total(a, S) = Total(b, S)
<1> DEFINE B == {s \in SUBSET S : Total(a, s) # Total(b, s)}
<1>1. SUFFICES ASSUME B # {} PROVE FALSE
  OBVIOUS
<1>2. PICK s \in B : IsFiniteSet(s) /\ \A t \in B : t \subseteq s => t = s
  <2>1. B \in SUBSET (SUBSET S)
    OBVIOUS
  <2> HIDE DEF B
  <2> QED
    BY <1>1, <2>1, Smallest
<1>3. s # {}
  BY <1>2, TotalPick
<1> DEFINE u == s \ {Pick(s)}
<1>4. Pick(s) \in s
  BY <1>3, Picked
<1>5. /\ Total(a, s) = a[Pick(s)] + Total(a, u)
      /\ Total(b, s) = b[Pick(s)] + Total(b, u)
  BY <1>2, <1>3, TotalPick
<1>6. Total(a, u) # Total(b, u)
  BY <1>4, <1>5
<1>7. u \in B
  BY <1>6
<1> QED
  BY <1>2, <1>4, <1>7

\* A sum of natural numbers is one.
LEMMA TotalNat ==
  ASSUME NEW a, NEW S, IsFiniteSet(S), \A x \in S : a[x] \in Nat
  PROVE  Total(a, S) \in Nat
<1> DEFINE B == {s \in SUBSET S : Total(a, s) \notin Nat}
<1>1. SUFFICES ASSUME B # {} PROVE FALSE
  OBVIOUS
<1>2. PICK s \in B : IsFiniteSet(s) /\ \A t \in B : t \subseteq s => t = s
  <2>1. B \in SUBSET (SUBSET S)
    OBVIOUS
  <2> HIDE DEF B
  <2> QED
    BY <1>1, <2>1, Smallest
<1>3. s # {}
  <2> SUFFICES ASSUME s = {} PROVE FALSE
    OBVIOUS
  <2>1. Total(a, s) = 0
    BY <1>2, TotalPick
  <2> QED
    BY <1>2, <2>1
<1> DEFINE u == s \ {Pick(s)}
<1>4. Pick(s) \in s
  BY <1>3, Picked
<1>5. Total(a, s) = a[Pick(s)] + Total(a, u)
  BY <1>2, <1>3, TotalPick
<1>6. Total(a, u) \notin Nat
  BY <1>4, <1>5
<1>7. u \in B
  BY <1>6
<1> QED
  BY <1>2, <1>4, <1>7

\* If the elements of S have partners of their own in T that weigh at least as
\* much, T weighs at least as much.
LEMMA TotalInjects ==
  ASSUME NEW a, NEW b, NEW g, NEW S, NEW T, IsFiniteSet(S), IsFiniteSet(T),
         \A x \in S : /\ a[x] \in Nat
                      /\ g[x] \in T
                      /\ a[x] <= b[g[x]],
         \A x \in T : b[x] \in Nat,
         \A x, y \in S : g[x] = g[y] => x = y
  PROVE  Total(a, S) <= Total(b, T)
<1> DEFINE More(s) == \A t \in SUBSET T : (\A x \in s : g[x] \in t) => Total(a, s) <= Total(b, t)
           B == {s \in SUBSET S : ~More(s)}
<1>1. SUFFICES ASSUME B # {} PROVE FALSE
  <2> SUFFICES More(S)
    OBVIOUS
  <2> HIDE DEF More
  <2> QED
    OBVIOUS
<1>2. PICK s \in B : IsFiniteSet(s) /\ \A t \in B : t \subseteq s => t = s
  <2>1. B \in SUBSET (SUBSET S)
    OBVIOUS
  <2> HIDE DEF B
  <2> QED
    BY <1>1, <2>1, Smallest
<1>3. PICK t \in SUBSET T : /\ \A x \in s : g[x] \in t
                            /\ ~(Total(a, s) <= Total(b, t))
  BY <1>2
<1>4. IsFiniteSet(t) /\ Total(b, t) \in Nat
  BY FS_Subset, TotalNat
<1>5. s # {}
  <2> SUFFICES ASSUME s = {} PROVE FALSE
    OBVIOUS
  <2>1. Total(a, s) = 0
    BY <1>2, TotalPick
  <2> QED
    BY <1>3, <1>4, <2>1
<1> DEFINE p == Pick(s)
           u == s \ {p}
           v == t \ {g[p]}
<1>6. p \in s /\ p \in S /\ a[p] \in Nat /\ b[g[p]] \in Nat /\ a[p] <= b[g[p]]
  BY <1>5, Picked
<1>7. Total(a, s) = a[p] + Total(a, u)
  BY <1>2, <1>5, TotalPick
<1> HIDE DEF p
<1>8. Total(b, t) = b[g[p]] + Total(b, v)
  BY <1>3, <1>4, <1>6, TotalStep
<1>9. More(u)
  <2>1. u \in SUBSET S /\ u # s /\ u \subseteq s
    BY <1>6
  <2> HIDE DEF More, u
  <2> QED
    BY <1>2, <2>1
<1>10. v \in SUBSET T /\ \A x \in u : g[x] \in v
  BY <1>3, <1>6
<1>11. Total(a, u) <= Total(b, v)
  <2> HIDE DEF u, v
  <2> QED
    BY <1>9, <1>10
<1>12. IsFiniteSet(u) /\ IsFiniteSet(v) /\ (\A x \in u : a[x] \in Nat) /\ (\A x \in v : b[x] \in Nat)
  BY <1>2, <1>4, FS_Subset
<1> HIDE DEF u, v
<1>13. Total(a, u) \in Nat /\ Total(b, v) \in Nat
  BY <1>12, TotalNat
<1> QED
  BY <1>3, <1>6, <1>7, <1>8, <1>11, <1>13

-----------------------------------------------------------------------------
(* The space that the contents of a sector take *)

\* Aligning a size to 4 bytes does not make it smaller.
LEMMA AlignedIs ==
  ASSUME NEW n \in Nat
  PROVE  Aligned(n) \in Nat /\ n <= Aligned(n)
BY DEF Aligned

\* nv_flash contents are laid out entry after entry.
LEMMA UsedStep ==
  ASSUME NEW s, NEW n \in Nat, \A k \in 1..n : Idx(s)[k].item \in Item
  PROVE  /\ Used(s, n) \in Nat
         /\ n = 0 => Used(s, n) = 0
         /\ n > 0 => Used(s, n) = Aligned(ItemSize[Idx(s)[n].item]) + Used(s, n - 1)
<1> DEFINE W(k) == Aligned(ItemSize[Idx(s)[k].item])
           A == [k \in 1..n |-> W(k)]
           B == [k \in 1..(n - 1) |-> W(k)]
<1>1. \A k \in 1..n : W(k) \in Nat
  BY NvAssumption, AlignedIs
<1>2. Used(s, n) = SumFunctionOnSet(A, 1..n) /\ Used(s, n - 1) = SumFunctionOnSet(B, 1..(n - 1))
  BY DEF Used, Idx
<1>3. Used(s, n) = Total(A, 1..n) /\ Used(s, n - 1) = Total(B, 1..(n - 1))
  BY <1>2, SumIsTotal
<1>4. IsFiniteSet(1..n) /\ IsFiniteSet(1..(n - 1))
  BY FS_Interval
<1>5. \A k \in 1..n : A[k] \in Nat /\ A[k] = W(k)
  BY <1>1
<1>6. \A k \in 1..(n - 1) : A[k] = B[k]
  <2>1. \A k \in 1..(n - 1) : k \in 1..n
    OBVIOUS
  <2> HIDE DEF W
  <2> QED
    BY <2>1
<1> HIDE DEF A, B
<1>7. Total(A, 1..n) \in Nat
  BY <1>4, <1>5, TotalNat
<1>8. n = 0 => Total(A, 1..n) = 0
  <2> SUFFICES ASSUME n = 0 PROVE Total(A, 1..n) = 0
    OBVIOUS
  <2>1. 1..n = {}
    OBVIOUS
  <2> QED
    BY <1>4, <2>1, TotalPick
<1>9. ASSUME n > 0 PROVE Total(A, 1..n) = W(n) + Total(B, 1..(n - 1))
  <2>1. n \in 1..n /\ (1..n) \ {n} = 1..(n - 1)
    BY <1>9
  <2>2. Total(A, 1..n) = A[n] + Total(A, 1..(n - 1))
    BY <1>4, <1>5, <2>1, TotalStep
  <2>3. Total(A, 1..(n - 1)) = Total(B, 1..(n - 1))
    BY <1>4, <1>6, TotalSame
  <2> HIDE DEF W
  <2> QED
    BY <1>5, <2>1, <2>2, <2>3
<1> HIDE DEF W
<1>10. n > 0 => Used(s, n) = W(n) + Used(s, n - 1)
  BY <1>3, <1>9
<1> QED
  BY <1>3, <1>7, <1>8, <1>10 DEF W

-----------------------------------------------------------------------------
(* Without a power loss: a sector is moved only when it is full *)

NoTorn == \A s \in Sect : \A k \in 1..Len(Idx(s)) : Idx(s)[k].state # "TORN"

\* A program that touches no index entry, one more entry, and a field of one.
LEMMA WholeAfter ==
  ASSUME TypeOK, NoTorn, NEW t \in Sect
  PROVE  /\ (\A s \in Sect : Idx(s)' = Idx(s)) => NoTorn'
         /\ flash' = [flash EXCEPT ![t] = BlankSector] => NoTorn'
         /\ \A e \in Entry : flash' = [flash EXCEPT ![t].idx = Append(@, e)] /\ e.state # "TORN"
              => NoTorn'
         /\ \A k \in Nat : \A v : flash' = [flash EXCEPT ![t].idx[k].val = v] => NoTorn'
         /\ \A k \in Nat : \A h : flash' = [flash EXCEPT ![t].idx[k].hdr = h] => NoTorn'
         /\ \A k \in Nat : \A st : flash' = SetState(t, k, st) /\ st # "TORN" => NoTorn'
<1>1. (\A s \in Sect : Idx(s)' = Idx(s)) => NoTorn'
  BY DEF NoTorn
<1>2. \A s \in Sect : s = t \/ s = Other(t)
  BY Sides
<1>3. ASSUME flash' = [flash EXCEPT ![t] = BlankSector] PROVE NoTorn'
  <2>1. \A s \in Sect : Idx(s)' = Idx(s) \/ Idx(s)' = <<>>
    BY <1>3 DEF Idx, TypeOK, BlankSector
  <2>2. Len(<<>>) = 0
    OBVIOUS
  <2> QED
    BY <2>1, <2>2 DEF NoTorn
<1>4. ASSUME NEW e \in Entry, e.state # "TORN", flash' = [flash EXCEPT ![t].idx = Append(@, e)]
      PROVE  NoTorn'
  <2>1. Appended(t, e) /\ Idx(Other(t))' = Idx(Other(t))
    BY <1>4, Appending
  <2>2. Len(Idx(t)) \in Nat
    BY Lengths
  <2>3. \A k \in 1..Len(Idx(t)') : Idx(t)'[k].state # "TORN"
    <3> TAKE k \in 1..Len(Idx(t)')
    <3>1. k \in 1..Len(Idx(t)) \/ k = Len(Idx(t)) + 1
      BY <2>1, <2>2 DEF Appended
    <3> QED
      BY <1>4, <2>1, <3>1 DEF Appended, NoTorn
  <2> QED
    BY <1>2, <2>1, <2>3 DEF NoTorn
<1>5. ASSUME NEW k \in Nat, NEW v, NEW h, NEW st, st # "TORN",
             \/ flash' = [flash EXCEPT ![t].idx[k].val = v]
             \/ flash' = [flash EXCEPT ![t].idx[k].hdr = h]
             \/ flash' = SetState(t, k, st)
      PROVE  NoTorn'
  <2>1. Changed(t, k) /\ Idx(Other(t))' = Idx(Other(t))
    BY <1>5, ProgramEffect
  <2>2. ASSUME k \in 1..Len(Idx(t)) PROVE Idx(t)'[k].state \in {Idx(t)[k].state, st}
    <3>1. CASE flash' = [flash EXCEPT ![t].idx[k].val = v]
      BY <2>2, <3>1, ValProgram
    <3>2. CASE flash' = [flash EXCEPT ![t].idx[k].hdr = h]
      BY <2>2, <3>2, HdrProgram
    <3>3. CASE flash' = SetState(t, k, st)
      BY <2>2, <3>3, StateProgram
    <3> QED
      BY <1>5, <3>1, <3>2, <3>3
  <2>3. \A j \in 1..Len(Idx(t)') : Idx(t)'[j].state # "TORN"
    <3> TAKE j \in 1..Len(Idx(t)')
    <3>1. j \in 1..Len(Idx(t))
      BY <2>1 DEF Changed
    <3> QED
      BY <1>5, <2>1, <2>2, <3>1 DEF Changed, NoTorn
  <2> QED
    BY <1>2, <2>1, <2>3 DEF NoTorn
<1>6. ASSUME NEW k \in Nat, NEW v, flash' = [flash EXCEPT ![t].idx[k].val = v] PROVE NoTorn'
  <2>1. "INVALID" # "TORN"
    OBVIOUS
  <2> QED
    BY <1>5, <1>6, <2>1
<1>7. ASSUME NEW k \in Nat, NEW h, flash' = [flash EXCEPT ![t].idx[k].hdr = h] PROVE NoTorn'
  <2>1. "INVALID" # "TORN"
    OBVIOUS
  <2> QED
    BY <1>5, <1>7, <2>1
<1>8. ASSUME NEW k \in Nat, NEW st, flash' = SetState(t, k, st), st # "TORN" PROVE NoTorn'
  BY <1>5, <1>8
<1> QED
  BY <1>1, <1>3, <1>4, <1>6, <1>7, <1>8

\* Only a power loss tears an entry.
LEMMA WholeStep ==
  ASSUME TypeOK, NoTorn, "crash" \notin Faults, [Next]_vars
  PROVE  NoTorn'
<1>1. CASE UNCHANGED flash
  <2>1. \A s \in Sect : Idx(s)' = Idx(s)
    BY <1>1 DEF Idx
  <2> QED
    BY <2>1 DEF NoTorn
<1>2. CASE SectorReadForWrite \/ Locate \/ DedupDone \/ CopyDone \/ WriteFirstHdr
             \/ WriteNewHdr \/ InvalidateOldHdr \/ RefusedWrite
  BY <1>2, HeadersOnly DEF NoTorn
<1>s. ASSUME op.pc # "idle"
      PROVE  /\ op.sect \in Sect /\ Other(op.sect) \in Sect /\ Target \in Sect
             /\ op.pos \in Nat /\ op.scan \in Nat /\ op.del \in Nat
             /\ NewEntry(op.item) \in Entry /\ NewEntry(op.item).state # "TORN"
  <2>1. op.item \in Item
    BY <1>s, OpFacts
  <2>2. NewEntry(op.item) \in Entry /\ NewEntry(op.item).state # "TORN"
    BY <2>1 DEF NewEntry, Entry
  <2> QED
    BY <1>s, <2>2, OpFacts
<1>3. CASE Erase
  BY <1>1, <1>3, <1>s, WholeAfter DEF Erase, Unchecked
<1>4. CASE Dedup
  <2>1. UNCHANGED flash \/ flash' = SetState(op.sect, op.scan, "INVALID")
    BY <1>4 DEF Dedup, Unchecked
  <2> QED
    BY <1>1, <1>4, <1>s, <2>1, WholeAfter DEF Dedup
<1>5. CASE Copy
  <2> DEFINE e == flash[op.sect].idx[op.scan]
  <2>1. /\ op.scan \in 1..Len(Idx(op.sect)) /\ op.pc = "copy"
    BY <1>5 DEF Copy, CopyEnded, Idx
  <2>2. e \in Entry /\ e.state # "TORN"
    BY <1>s, <2>1, Lengths DEF Idx, NoTorn
  <2>3. NewEntry(e.item) \in Entry /\ NewEntry(e.item).state # "TORN"
    BY <2>2 DEF NewEntry, Entry
  <2>4. \/ UNCHANGED flash
        \/ \E f \in {e, NewEntry(e.item)} :
              flash' = [flash EXCEPT ![Other(op.sect)].idx = Append(@, f)]
    BY <1>5 DEF Copy
  <2> HIDE DEF e
  <2> QED
    BY <1>1, <1>s, <2>1, <2>2, <2>3, <2>4, WholeAfter
<1>6. CASE WriteIndex
  <2>1. \/ UNCHANGED flash
        \/ flash' = [flash EXCEPT ![Target].idx = Append(@, NewEntry(op.item))]
    BY <1>6 DEF WriteIndex
  <2> QED
    BY <1>1, <1>6, <1>s, <2>1, WholeAfter DEF WriteIndex
<1>7. CASE WritePayload \/ WriteItemHdr \/ WriteState \/ DeleteOld
  <2>1. "VALID_SINGLE" # "TORN" /\ "INVALID" # "TORN" /\ op.pc # "idle"
    BY <1>7 DEF WritePayload, WriteItemHdr, WriteState, DeleteOld
  <2>2. CASE WritePayload
    BY <1>s, <2>1, <2>2, WholeAfter DEF WritePayload
  <2>3. CASE WriteItemHdr
    BY <1>s, <2>1, <2>3, WholeAfter DEF WriteItemHdr
  <2>4. CASE WriteState
    BY <1>s, <2>1, <2>4, WholeAfter DEF WriteState
  <2>5. CASE DeleteOld
    BY <1>s, <2>1, <2>5, WholeAfter DEF DeleteOld
  <2> QED
    BY <1>7, <2>2, <2>3, <2>4, <2>5
<1>8. CASE Remove
  <2>1. PICK q \in SectorRead : \/ UNCHANGED flash
                                \/ flash' = SetState(q % 2, IndexRead(q % 2, op.item), "INVALID")
    BY <1>8 DEF Remove, Unchecked
  <2>2. q % 2 \in Sect
    BY SectorReadType DEF Sect
  <2>3. IndexRead(q % 2, op.item) \in Nat
    BY <2>2, IndexReadType
  <2> QED
    BY <1>1, <2>1, <2>2, <2>3, WholeAfter
<1>9. ~Crash
  BY DEF Crash, CanFail
<1>10. \A i, v : BeginWrite(i, v) \/ BeginRemove(i) => UNCHANGED flash
  BY DEF BeginWrite, BeginRemove
<1> QED
  BY <1>1, <1>2, <1>3, <1>4, <1>5, <1>6, <1>7, <1>8, <1>9, <1>10 DEF Next, Step, vars

\* Where no power is lost a sector is moved only when it is full, or in the one
\* retry that an index check error calls for, whatever else goes wrong.
THEOREM FullBeforeChanged ==
  ASSUME "crash" \notin Faults
  PROVE  Spec => ChangedWhenFull
<1>1. Init => NoTorn
  <2>1. Len(<<>>) = 0
    OBVIOUS
  <2> QED
    BY <2>1 DEF Init, NoTorn, Idx, BlankSector
<1>2. TypeOK /\ NoTorn /\ [Next]_vars => NoTorn'
  BY WholeStep
<1>3. ASSUME TypeOK, NoTorn, op.pc = "locate", op'.pc = "erase", ~op.force, [Next]_vars
      PROVE  LET n == Len(flash[op.sect].idx)
             IN n = IdxNum \/ NoRoom(op.sect, n, ItemSize[op.item])
  <2> DEFINE n == Len(flash[op.sect].idx)
             last == flash[op.sect].idx[n]
  <2>1. op \in Running /\ op.sect \in Sect /\ op.item \in Item
    BY <1>3, OpFacts
  <2>2. Locate
    BY <1>3, <2>1 DEF Next, Step, SectorReadForWrite, Locate, Erase, Dedup, DedupDone, Copy, CopyDone,
         WriteIndex, WritePayload, WriteItemHdr, WriteState, DeleteOld, WriteFirstHdr,
         WriteNewHdr, InvalidateOldHdr, Remove, RefusedWrite, Refused, Crash, Rest,
         BeginWrite, BeginRemove, vars
  <2>3. NeedsUpdate(op.sect, op.item)
    BY <1>3, <2>1, <2>2 DEF Locate, Running
  <2>4. n \in Nat /\ n > 0 /\ n \in 1..n /\ last.item \in Item /\ last.state # "TORN"
        /\ \A k \in 1..n : Idx(op.sect)[k].item \in Item
    <3>1. n \in Nat /\ n > 0
      BY <1>3, <2>1, <2>3, Lengths DEF NeedsUpdate, Idx
    <3>2. \A k \in 1..n : Idx(op.sect)[k].item \in Item
      <4>1. \A k \in 1..Len(Idx(op.sect)) : Idx(op.sect)[k] \in Entry
        BY <1>3, <2>1, Lengths
      <4> QED
        BY <4>1 DEF Entry, Idx
    <3> QED
      BY <1>3, <2>1, <3>1, <3>2 DEF NoTorn, Idx
  <2>5. CASE NoRoom(op.sect, n - 1, ItemSize[last.item] + ItemSize[op.item])
    <3>1. Used(op.sect, n - 1) + (ItemSize[last.item] + ItemSize[op.item]) > ContextSize
      BY <2>5 DEF NoRoom
    <3>2. Used(op.sect, n) = Aligned(ItemSize[last.item]) + Used(op.sect, n - 1)
      BY <2>4, UsedStep DEF Idx
    <3>3. Used(op.sect, n - 1) \in Nat
      <4>1. n - 1 \in Nat /\ \A k \in 1..(n - 1) : Idx(op.sect)[k].item \in Item
        BY <2>4
      <4> QED
        BY <4>1, UsedStep
    <3>4. /\ ItemSize[last.item] \in Nat /\ ItemSize[op.item] \in Nat /\ ContextSize \in Nat
          /\ Aligned(ItemSize[last.item]) \in Nat /\ ItemSize[last.item] <= Aligned(ItemSize[last.item])
      BY <2>1, <2>4, NvAssumption, AlignedIs
    <3> HIDE DEF n, last
    <3>5. Used(op.sect, n) + ItemSize[op.item] > ContextSize
      BY <3>1, <3>2, <3>3, <3>4
    <3> QED
      BY <3>5 DEF NoRoom, n
  <2> QED
    BY <2>3, <2>4, <2>5 DEF NeedsUpdate
<1> QED
  BY <1>1, <1>2, <1>3, TypeCorrect, PTL DEF Spec, ChangedWhenFull

-----------------------------------------------------------------------------
(* With power losses only: what the move to the other sector keeps *)

\* Flash operations are not refused, and there is room for the duplicate table.
Unrefused == Faults \cap {"refuse", "noheap"} = {}

Fits == op.pc \notin {"idle", "remove"} => ItemSize[op.item] <= ContextSize

\* after entry n of the sector in use there is at most one valid entry per item,
\* and it is the newest
OneEach(n) ==
  \A k, j \in 1..Len(Idx(op.sect)) : k > n => ~Pair(Idx(op.sect), k, j)

Sifted ==
  /\ op.pc = "erase" => op.pos = 0
  /\ op.pc = "dedup" =>
       /\ op.pos = 0 /\ Len(Idx(Other(op.sect))) = 0
       /\ op.scan \in 0..Len(Idx(op.sect)) /\ OneEach(op.scan)

\* the copies are of different items, other than the one being written, that
\* are valid below the entry being looked at
Compact ==
  op.pc = "copy" =>
    /\ op.scan \in 1..(Len(Idx(op.sect)) + 1)
    /\ OneEach(0)
    /\ Len(Idx(Other(op.sect))) = op.pos
    /\ op.pos > 0 => flash[op.sect].flag = "VALID"
    /\ \A p \in 1..op.pos :
         /\ Idx(Other(op.sect))[p].item # op.item
         /\ \E k \in 1..(op.scan - 1) : ValidFor(Idx(op.sect), k, Idx(Other(op.sect))[p].item)
    /\ \A p, q \in 1..op.pos :
         Idx(Other(op.sect))[p].item = Idx(Other(op.sect))[q].item => p = q

SpaceInv == Fits /\ Sifted /\ Compact

\* A request goes on with its item, or ends.
LEMMA ItemKept ==
  ASSUME TypeOK, Step \/ Crash
  PROVE  /\ op.pc # "idle"
         /\ \/ op'.pc = "idle"
            \/ op'.item = op.item /\ op.pc # "remove" /\ op'.pc # "remove"
         /\ op'.pc = "erase" => op'.pos = 0
         /\ ~(Erase \/ Dedup \/ DedupDone \/ Copy) => op'.pc \notin {"dedup", "copy"}
<1>0. op.pc # "idle"
  BY DEF Step, SectorReadForWrite, Locate, Erase, Dedup, DedupDone, Copy, CopyDone,
         WriteIndex, WritePayload, WriteItemHdr, WriteState, DeleteOld, WriteFirstHdr,
         WriteNewHdr, InvalidateOldHdr, Remove, RefusedWrite, Refused, Crash
<1>1. op \in Running
  BY <1>0, OpFacts
<1> DEFINE Goal == /\ \/ op'.pc = "idle"
                      \/ op'.item = op.item /\ op.pc # "remove" /\ op'.pc # "remove"
                   /\ op'.pc = "erase" => op'.pos = 0
                   /\ ~(Erase \/ Dedup \/ DedupDone \/ Copy) => op'.pc \notin {"dedup", "copy"}
<1>2. ASSUME NEW r, Return(r), op.pc # "remove" PROVE Goal
  BY <1>1, <1>2, ReturnKeeps
<1>3. ASSUME NEW p, Goto(p), op.pc # "remove", p \notin {"erase", "remove", "dedup", "copy"} PROVE Goal
  BY <1>1, <1>3, GotoKeeps
<1>4. ASSUME AfterItem, op.pc # "remove" PROVE Goal
  BY <1>2, <1>3, <1>4 DEF AfterItem
<1> HIDE DEF Goal
<1>5. ASSUME SectorReadForWrite \/ Locate PROVE Goal
  BY <1>1, <1>5 DEF SectorReadForWrite, Locate, Running, Goal
<1>6. ASSUME Erase \/ Dedup \/ DedupDone PROVE Goal
  BY <1>1, <1>6 DEF Erase, Dedup, DedupDone, Running, Goal
<1>7. ASSUME Copy PROVE Goal
  <2>1. op.pc = "copy"
    BY <1>7 DEF Copy
  <2>2. \/ \E r : Return(r)
        \/ op' = [op EXCEPT !.scan = @ + 1]
        \/ op' = [op EXCEPT !.scan = @ + 1, !.pos = @ + 1]
    BY <1>7 DEF Copy
  <2> QED
    BY <1>1, <1>2, <1>7, <2>1, <2>2 DEF Running, Goal
<1>8. ASSUME CopyDone PROVE Goal
  BY <1>2, <1>3, <1>8 DEF CopyDone
<1>9. ASSUME WriteIndex PROVE Goal
  <2>1. \/ \E r : Return(r)
        \/ op' = [op EXCEPT !.pc = "payload", !.pos = @ + 1, !.del = IndexRead(Target, op.item)]
    BY <1>9 DEF WriteIndex
  <2>2. op.pc = "index"
    BY <1>9 DEF WriteIndex
  <2> QED
    BY <1>1, <1>2, <2>1, <2>2 DEF Running, Goal
<1>10. ASSUME WritePayload \/ WriteItemHdr PROVE Goal
  BY <1>3, <1>10 DEF WritePayload, WriteItemHdr
<1>11. ASSUME WriteState \/ DeleteOld PROVE Goal
  BY <1>3, <1>4, <1>11 DEF WriteState, DeleteOld
<1>12. ASSUME WriteFirstHdr \/ InvalidateOldHdr PROVE Goal
  BY <1>2, <1>12 DEF WriteFirstHdr, InvalidateOldHdr
<1>13. ASSUME WriteNewHdr PROVE Goal
  BY <1>2, <1>3, <1>13 DEF WriteNewHdr
<1>14. ASSUME Remove PROVE Goal
  <2>1. \E r \in {"NV_ITEM_NOT_FOUND", "NV_SUCC"} : Return(r)
    BY <1>14 DEF Remove
  <2> QED
    BY <1>1, <2>1, ReturnKeeps DEF Goal, Remove
<1>15. ASSUME RefusedWrite PROVE Goal
  BY <1>2, <1>15 DEF RefusedWrite, Refused
<1>16. ASSUME Crash PROVE Goal
  BY <1>16 DEF Crash, Rest, Goal
<1> QED
  BY <1>0, <1>5, <1>6, <1>7, <1>8, <1>9, <1>10, <1>11, <1>12, <1>13, <1>14, <1>15, <1>16
     DEF Step, Goal

\* nv_index_read finds the newest valid entry of an item that has one.
LEMMA Readable ==
  ASSUME TypeOK, NEW s \in Sect, NEW i, NEW k \in 1..Len(Idx(s)), ValidFor(Idx(s), k, i)
  PROVE  /\ IndexRead(s, i) \in 1..Len(Idx(s)) /\ k <= IndexRead(s, i)
         /\ ValidFor(Idx(s), IndexRead(s, i), i)
<1>v. PICK l, n : l = Idx(s) /\ n = Len(l)
  OBVIOUS
<1>1. n \in Nat /\ IndexRead(s, i) = Newest(l, i, n)
  BY <1>v, Lengths, Reading
<1>2. k \in Hits(l, i, n)
  BY <1>v DEF Hits
<1>3. Newest(l, i, n) \in Hits(l, i, n) /\ k <= Newest(l, i, n)
  BY <1>1, <1>2, NewestIs
<1> QED
  BY <1>v, <1>1, <1>3 DEF Hits

\* The other sector is erased, and every entry of the sector in use lies ahead.
LEMMA EraseSifts ==
  ASSUME TypeOK, SpaceInv, Unrefused, Erase
  PROVE  Sifted' /\ op'.pc = "dedup"
<1>1. op \in Running /\ op.sect \in Sect /\ Other(op.sect) \in Sect /\ Other(op.sect) # op.sect
  BY OpFacts DEF Erase
<1>2. flash' = [flash EXCEPT ![Other(op.sect)] = BlankSector]
  BY DEF Erase, Unchecked, CanFail, Unrefused
<1>3. /\ op'.pc = "dedup" /\ op'.scan = Len(Idx(op.sect)) /\ op'.sect = op.sect /\ op'.pos = 0
  BY <1>1 DEF Erase, Unrefused, Running, Idx, SpaceInv, Sifted
<1>4. /\ Idx(op.sect)' = Idx(op.sect)
      /\ Idx(Other(op.sect))' = <<>>
  BY <1>1, <1>2, <1>3 DEF Idx, TypeOK, BlankSector, Other
<1>5. Len(Idx(op.sect)) \in Nat
  BY <1>1, Lengths
<1>6. OneEach(op.scan)'
  BY <1>3, <1>4, <1>5 DEF OneEach
<1>7. Len(<<>>) = 0
  OBVIOUS
<1> QED
  BY <1>3, <1>4, <1>5, <1>6, <1>7 DEF Sifted

\* An entry that has a newer one is invalidated, so that one per item is left.
LEMMA DedupSifts ==
  ASSUME TypeOK, SpaceInv, Unrefused, Dedup
  PROVE  Sifted' /\ op'.pc = "dedup"
<1>s. PICK a \in Sect, b \in Sect : a = op.sect /\ b = Other(op.sect) /\ a # b /\ Other(a) = b
  BY OpFacts DEF Dedup
<1>v. PICK l, n, k : l = Idx(a) /\ n = Len(l) /\ k = op.scan
  OBVIOUS
<1>1. /\ op \in Running /\ n \in Nat /\ k \in 1..n /\ op.pos = 0 /\ Len(Idx(b)) = 0
      /\ \A i, j \in 1..n : i > k => ~Pair(l, i, j)
  <2>1. op \in Running /\ op.pc = "dedup" /\ op.scan > 0 /\ n \in Nat
    BY <1>s, <1>v, OpFacts, Lengths DEF Dedup
  <2>2. op.scan \in 0..n
    BY <1>s, <1>v, <2>1 DEF SpaceInv, Sifted
  <2> QED
    BY <1>s, <1>v, <2>1, <2>2 DEF SpaceInv, Sifted, OneEach
<1>2. op'.pc = "dedup" /\ op'.scan = k - 1 /\ op'.sect = a /\ op'.pos = 0
  BY <1>s, <1>v, <1>1 DEF Dedup, Running
<1> DEFINE m == Idx(a)'
           later == l[k].state = "VALID_SINGLE" /\ IndexRead(a, l[k].item) > k
<1>3. flash' = IF later THEN SetState(a, k, "INVALID") ELSE flash
  BY <1>s, <1>v DEF Dedup, Unchecked, CanFail, Unrefused, Idx
<1>4. /\ Len(m) = n /\ Idx(b)' = Idx(b)
      /\ \A j \in 1..n : j # k => m[j] = l[j]
      /\ m[k].state = IF later THEN "INVALID" ELSE l[k].state
      /\ m[k].item = l[k].item
  <2>1. CASE later
    <3>1. TypeOK /\ k \in 1..Len(Idx(a)) /\ flash' = SetState(a, k, "INVALID")
      BY <1>v, <1>1, <1>3, <2>1
    <3>2. /\ Changed(a, k) /\ Idx(b)' = Idx(b)
          /\ Idx(a)'[k].state = "INVALID" /\ Idx(a)'[k].item = Idx(a)[k].item
      BY <1>s, <3>1, StateProgram
    <3> QED
      BY <1>v, <2>1, <3>2 DEF Changed
  <2>2. CASE ~later
    BY <1>v, <1>3, <2>2 DEF Idx
  <2> QED
    BY <2>1, <2>2
<1>5. \A i, j \in 1..n : i > k - 1 => ~Pair(m, i, j)
  <2> SUFFICES ASSUME NEW i \in 1..n, NEW j \in 1..n, i > k - 1, Pair(m, i, j) PROVE FALSE
    OBVIOUS
  <2> HIDE DEF later, m
  <2>1. i < j /\ j # k /\ m[j] = l[j]
    BY <1>1, <1>4 DEF Pair
  <2>2. l[i].state = "VALID_SINGLE" /\ l[i].item = m[i].item
    BY <1>4 DEF Pair
  <2>3. Pair(l, i, j)
    BY <2>1, <2>2 DEF Pair, ValidFor
  <2>4. i = k
    BY <1>1, <2>3
  <2>5. ValidFor(l, j, l[k].item) /\ j > k
    BY <2>3, <2>4 DEF Pair
  <2>6. IndexRead(a, l[k].item) > k
    <3>1. j <= IndexRead(a, l[k].item) /\ IndexRead(a, l[k].item) \in 1..n
      BY <1>s, <1>v, <2>5, Readable
    <3> QED
      BY <1>1, <2>5, <3>1
  <2>7. later
    BY <2>2, <2>4, <2>6 DEF later
  <2> QED
    BY <1>4, <2>4, <2>7 DEF Pair
<1>6. OneEach(op.scan)'
  BY <1>2, <1>4, <1>5 DEF OneEach
<1>7. Other(op.sect)' = b /\ k - 1 \in 0..n
  BY <1>s, <1>1, <1>2 DEF Other
<1>8. Len(Idx(Other(op.sect)))' = 0 /\ Len(Idx(op.sect))' = n
  BY <1>1, <1>2, <1>4, <1>7 DEF Idx
<1> QED
  BY <1>2, <1>6, <1>7, <1>8 DEF Sifted

\* The copy begins with one valid entry per item in the sector in use.
LEMMA DedupDoneCompact ==
  ASSUME TypeOK, SpaceInv, DedupDone
  PROVE  Compact' /\ op'.pc = "copy"
<1>1. op \in Running /\ op.sect \in Sect /\ op.pc = "dedup" /\ op.scan = 0 /\ UNCHANGED flash
  BY OpFacts DEF DedupDone
<1>2. op'.pc = "copy" /\ op'.scan = 1 /\ op'.sect = op.sect /\ op'.pos = op.pos
  BY <1>1 DEF DedupDone, Running
<1>3. /\ op.pos = 0 /\ Len(Idx(Other(op.sect))) = 0 /\ OneEach(0) /\ Len(Idx(op.sect)) \in Nat
  BY <1>1, Lengths DEF SpaceInv, Sifted
<1>4. /\ Other(op.sect)' = Other(op.sect) /\ Idx(op.sect)' = Idx(op.sect)
      /\ Idx(Other(op.sect))' = Idx(Other(op.sect))
  BY <1>1, <1>2 DEF Idx, Other
<1>5. OneEach(0)'
  BY <1>2, <1>3, <1>4 DEF OneEach
<1> QED
  BY <1>2, <1>3, <1>4, <1>5 DEF Compact

\* An entry that is copied is the only valid one of its item, so that its item is
\* not among the copies.
LEMMA CopyCompact ==
  ASSUME TypeOK, SpaceInv, Unrefused, Copy
  PROVE  Compact' /\ op'.pc = "copy"
<1>s. PICK a \in Sect, b \in Sect : a = op.sect /\ b = Other(op.sect) /\ a # b /\ Other(b) = a
  BY OpFacts, Sides DEF Copy
<1>v. PICK src, tgt, n, p, e, new : /\ src = Idx(a) /\ tgt = Idx(b) /\ n = op.scan /\ p = op.pos
                                    /\ e = src[n] /\ new = Idx(b)'
  OBVIOUS
<1>0. /\ op \in Running /\ op.pc = "copy" /\ n \in 1..Len(src) /\ p \in Nat /\ Len(src) \in Nat
      /\ Len(tgt) = p /\ e \in Entry /\ flash[a].flag = "VALID"
  <2>1. op \in Running /\ op.pc = "copy" /\ p \in Nat
    BY <1>v, OpFacts DEF Copy
  <2>2. n \in 1..Len(src) /\ flash[a].flag = "VALID"
    BY <1>s, <1>v DEF Copy, CopyEnded, Idx
  <2>3. e \in Entry /\ Len(src) \in Nat
    BY <1>v, <2>2, Lengths
  <2> QED
    BY <1>s, <1>v, <2>1, <2>2, <2>3 DEF SpaceInv, Compact
<1>1. /\ \A i, j \in 1..Len(src) : ~Pair(src, i, j)
      /\ \A q \in 1..p : /\ tgt[q].item # op.item
                         /\ \E k \in 1..(n - 1) : ValidFor(src, k, tgt[q].item)
      /\ \A q, r \in 1..p : tgt[q].item = tgt[r].item => q = r
  BY <1>s, <1>v, <1>0 DEF SpaceInv, Compact, OneEach
<1> DEFINE live == e.state = "VALID_SINGLE" /\ e.item # op.item
<1>2. /\ op'.pc = "copy" /\ op'.sect = a /\ op'.item = op.item /\ op'.scan = n + 1
      /\ op'.pos = IF live THEN p + 1 ELSE p
      /\ flash' = IF live THEN [flash EXCEPT ![b].idx = Append(@, e)] ELSE flash
  <2>1. ~CanFail("refuse")
    BY DEF CanFail, Unrefused
  <2>2. CASE live
    <3>1. /\ op' = [op EXCEPT !.scan = @ + 1, !.pos = @ + 1]
          /\ flash' = [flash EXCEPT ![b].idx = Append(@, e)]
      BY <1>s, <1>v, <1>0, <2>1, <2>2 DEF Copy, Idx
    <3> QED
      BY <1>s, <1>v, <1>0, <2>2, <3>1 DEF Running
  <2>3. CASE ~live
    <3>1. op' = [op EXCEPT !.scan = @ + 1] /\ flash' = flash
      BY <1>s, <1>v, <1>0, <2>3 DEF Copy, Idx
    <3> QED
      BY <1>s, <1>v, <1>0, <2>3, <3>1 DEF Running
  <2> QED
    BY <2>2, <2>3
<1> HIDE DEF live
<1>3. /\ Idx(a)' = src /\ flash'[a].flag = "VALID"
      /\ Len(new) = op'.pos
      /\ \A q \in 1..p : new[q] = tgt[q]
      /\ live => new[p + 1] = e
  <2>1. CASE live
    <3>1. Appended(b, e) /\ Idx(a)' = Idx(a) /\ SameHeaders
      BY <1>s, <1>0, <1>2, <2>1, Appending
    <3> QED
      BY <1>s, <1>v, <1>0, <1>2, <2>1, <3>1 DEF Appended, SameHeaders
  <2>2. CASE ~live
    BY <1>s, <1>v, <1>0, <1>2, <2>2 DEF Idx
  <2> QED
    BY <2>1, <2>2
<1>4. \A q \in 1..op'.pos : q \in 1..p \/ (live /\ q = p + 1)
  BY <1>0, <1>2
<1>5. live => /\ ValidFor(src, n, e.item) /\ e.item # op.item
              /\ \A q \in 1..p : tgt[q].item # e.item
  <2> SUFFICES ASSUME live
               PROVE  \A q \in 1..p : tgt[q].item # e.item
    BY <1>v DEF live, ValidFor
  <2> SUFFICES ASSUME NEW q \in 1..p, tgt[q].item = e.item PROVE FALSE
    OBVIOUS
  <2>1. PICK k \in 1..(n - 1) : ValidFor(src, k, e.item)
    BY <1>1
  <2>2. Pair(src, k, n) /\ k \in 1..Len(src)
    BY <1>v, <1>0, <2>1 DEF Pair, ValidFor, live
  <2> QED
    BY <1>0, <1>1, <2>2
<1>6. \A q \in 1..op'.pos :
        /\ new[q].item # op.item
        /\ \E k \in 1..n : ValidFor(src, k, new[q].item)
  <2> TAKE q \in 1..op'.pos
  <2>1. CASE q \in 1..p
    <3>1. PICK k \in 1..(n - 1) : ValidFor(src, k, tgt[q].item)
      BY <1>1, <2>1
    <3>2. k \in 1..n
      BY <1>0
    <3> QED
      BY <1>1, <1>3, <2>1, <3>1, <3>2
  <2>2. CASE live /\ q = p + 1
    <3>1. n \in 1..n
      BY <1>0
    <3> QED
      BY <1>3, <1>5, <2>2, <3>1
  <2> QED
    BY <1>4, <2>1, <2>2
<1>7. \A q, r \in 1..op'.pos : new[q].item = new[r].item => q = r
  <2> TAKE q, r \in 1..op'.pos
  <2> HAVE new[q].item = new[r].item
  <2>1. CASE q \in 1..p /\ r \in 1..p
    BY <1>1, <1>3, <2>1
  <2>2. CASE live /\ (q = p + 1 \/ r = p + 1)
    BY <1>3, <1>4, <1>5, <2>2
  <2> QED
    BY <1>4, <2>1, <2>2
<1>8. OneEach(0)'
  BY <1>1, <1>2, <1>3 DEF OneEach
<1>9. Other(op.sect)' = b
  BY <1>s, <1>2 DEF Other
<1>10. Idx(Other(op.sect))' = new /\ Idx(op.sect)' = src
  BY <1>v, <1>2, <1>3, <1>9 DEF Idx
<1>11. op'.scan \in 1..(Len(src) + 1) /\ op'.scan - 1 = n
  BY <1>0, <1>2
<1> QED
  BY <1>2, <1>3, <1>6, <1>7, <1>8, <1>10, <1>11 DEF Compact

\* Every step keeps the invariant of the move.
LEMMA SpaceStep ==
  ASSUME TypeOK, SpaceInv, Unrefused, [Next]_vars
  PROVE  SpaceInv'
<1>1. CASE Step \/ Crash
  <2>1. Fits'
    BY <1>1, ItemKept DEF SpaceInv, Fits
  <2>2. CASE Erase
    <3>1. Sifted' /\ op'.pc = "dedup"
      BY <2>2, EraseSifts
    <3> QED
      BY <2>1, <3>1 DEF SpaceInv, Compact
  <2>3. CASE Dedup
    <3>1. Sifted' /\ op'.pc = "dedup"
      BY <2>3, DedupSifts
    <3> QED
      BY <2>1, <3>1 DEF SpaceInv, Compact
  <2>4. CASE DedupDone
    <3>1. Compact' /\ op'.pc = "copy"
      BY <2>4, DedupDoneCompact
    <3> QED
      BY <2>1, <3>1 DEF SpaceInv, Sifted
  <2>5. CASE Copy
    <3>1. Compact' /\ op'.pc = "copy"
      BY <2>5, CopyCompact
    <3> QED
      BY <2>1, <3>1 DEF SpaceInv, Sifted
  <2>6. CASE ~(Erase \/ Dedup \/ DedupDone \/ Copy)
    <3>1. op'.pc \notin {"dedup", "copy"} /\ (op'.pc = "erase" => op'.pos = 0)
      BY <1>1, <2>6, ItemKept
    <3> QED
      BY <2>1, <3>1 DEF SpaceInv, Sifted, Compact
  <2> QED
    BY <2>2, <2>3, <2>4, <2>5, <2>6
<1>2. ASSUME NEW i \in Item, NEW v \in Value, BeginWrite(i, v) PROVE SpaceInv'
  BY <1>2 DEF BeginWrite, Idle, Rest, SpaceInv, Fits, Sifted, Compact
<1>3. ASSUME NEW i, BeginRemove(i) PROVE SpaceInv'
  BY <1>3 DEF BeginRemove, Idle, Rest, SpaceInv, Fits, Sifted, Compact
<1>4. CASE UNCHANGED vars
  <2>1. UNCHANGED <<flash, op>>
    BY <1>4 DEF vars
  <2>2. (\A s : Idx(s)' = Idx(s)) /\ (\A n : OneEach(n)' = OneEach(n)) /\ Other(op.sect)' = Other(op.sect)
    BY <2>1 DEF Idx, OneEach, Other
  <2>3. Idx(Other(op.sect))' = Idx(Other(op.sect)) /\ Idx(op.sect)' = Idx(op.sect)
    BY <2>1, <2>2 DEF Idx
  <2> QED
    BY <2>1, <2>2, <2>3 DEF SpaceInv, Fits, Sifted, Compact
<1> QED
  BY <1>1, <1>2, <1>3, <1>4 DEF Next

\* What the sector in use holds when the copies have not left room for the item.
LEMMA RefusedFull ==
  ASSUME TypeOK, HeaderInv, SpaceInv, [Next]_vars,
         op.pc = "copy", op'.res = "NV_NOT_ENOUGH_SAPCE"
  PROVE  LET others == LiveIn(CurrentSeq % 2) \ {op.item}
         IN \/ Cardinality(others) >= IdxNum
            \/ SumFunctionOnSet([i \in others |-> Aligned(ItemSize[i])], others)
                 + ItemSize[op.item] > ContextSize
<1>1. CopyDone /\ (op.pos = IdxNum \/ NoRoom(Target, op.pos, ItemSize[op.item]))
  <2>1. op \in Running /\ op.res = "none"
    BY OpFacts
  <2>2. ASSUME NEW r, Return(r), r # "NV_NOT_ENOUGH_SAPCE" PROVE FALSE
    BY <2>1, <2>2 DEF Return, Running, Rest
  <2>3. ~Copy
    BY <2>1, <2>2 DEF Copy, Running
  <2>4. ~Crash
    BY DEF Crash, Rest
  <2>5. CopyDone
    BY <2>1, <2>3, <2>4 DEF Next, Step, SectorReadForWrite, Locate, Erase, Dedup, DedupDone,
       WriteIndex, WritePayload, WriteItemHdr, WriteState, DeleteOld, WriteFirstHdr,
       WriteNewHdr, InvalidateOldHdr, Remove, RefusedWrite, Refused, BeginWrite, BeginRemove, vars
  <2>6. ~Goto("index")
    BY <2>1, GotoKeeps
  <2> QED
    BY <2>5, <2>6 DEF CopyDone
<1>s. PICK a \in Sect, b \in Sect : a = op.sect /\ b = Other(op.sect) /\ a # b /\ b = Target
  BY OpFacts DEF HeaderInv
<1>v. PICK src, tgt, p, n : src = Idx(a) /\ tgt = Idx(b) /\ p = op.pos /\ n = Len(src)
  OBVIOUS
<1>2. /\ p \in Nat /\ op.item \in Item /\ Len(tgt) = p /\ n \in Nat
      /\ \A k \in 1..n : src[k] \in Entry
      /\ \A k \in 1..p : tgt[k].item \in Item
  <2>1. Len(tgt) = p
    BY <1>s, <1>v DEF SpaceInv, Compact
  <2>2. \A k \in 1..Len(tgt) : tgt[k] \in Entry
    BY <1>v, Lengths
  <2> QED
    BY <1>v, <2>1, <2>2, OpFacts, Lengths DEF Entry
<1>3. /\ \A q \in 1..p : tgt[q].item # op.item /\ \E k \in 1..n : ValidFor(src, k, tgt[q].item)
      /\ \A q, r \in 1..p : tgt[q].item = tgt[r].item => q = r
  <2>1. op.scan - 1 \in 0..n
    BY <1>s, <1>v, <1>2 DEF SpaceInv, Compact
  <2>2. \A k \in 1..(op.scan - 1) : k \in 1..n
    BY <1>2, <2>1
  <2>3. \A q \in 1..p : /\ tgt[q].item # op.item
                        /\ \E k \in 1..(op.scan - 1) : ValidFor(src, k, tgt[q].item)
    BY <1>s, <1>v DEF SpaceInv, Compact
  <2>4. \A q, r \in 1..p : tgt[q].item = tgt[r].item => q = r
    BY <1>s, <1>v DEF SpaceInv, Compact
  <2> QED
    BY <2>2, <2>3, <2>4
<1>4. p > 0
  <2> SUFFICES ASSUME p = 0 PROVE FALSE
    BY <1>2
  <2>1. Used(b, 0) = 0
    BY UsedStep
  <2>2. ItemSize[op.item] <= ContextSize /\ ItemSize[op.item] \in Nat /\ ContextSize \in Nat /\ IdxNum # 0
    BY <1>2, NvAssumption DEF SpaceInv, Fits
  <2> QED
    BY <1>1, <1>s, <1>v, <2>1, <2>2 DEF NoRoom
<1>5. CurrentSeq % 2 = a
  <2>1. flash[a].flag = "VALID"
    BY <1>s, <1>v, <1>4 DEF SpaceInv, Compact
  <2>2. Formatted
    BY <2>1 DEF Formatted, ValidSect
  <2> QED
    BY <1>s, <2>2 DEF HeaderInv
<1> DEFINE others == LiveIn(a) \ {op.item}
           g == [q \in 1..p |-> tgt[q].item]
           x == [q \in 1..p |-> Aligned(ItemSize[tgt[q].item])]
           y == [i \in others |-> Aligned(ItemSize[i])]
<1>6. \A q \in 1..p : g[q] \in others
  <2> TAKE q \in 1..p
  <2>1. PICK k \in 1..n : ValidFor(src, k, tgt[q].item)
    BY <1>3
  <2>2. IndexRead(a, tgt[q].item) > 0
    BY <1>v, <2>1, Readable
  <2> QED
    BY <1>2, <1>3, <2>2 DEF LiveIn
<1>7. IsFiniteSet(others)
  <2> DEFINE h == [i \in LiveIn(a) |-> IndexRead(a, i)]
  <2>1. \A i \in LiveIn(a) : /\ IndexRead(a, i) \in 1..n
                             /\ src[IndexRead(a, i)].item = i
    BY <1>v, Found DEF LiveIn, ValidFor
  <2>2. h \in Injection(LiveIn(a), 1..n)
    BY <2>1 DEF Injection, IsInjective
  <2>3. IsFiniteSet(1..n)
    BY <1>2, FS_Interval
  <2> HIDE DEF h
  <2>4. IsFiniteSet(LiveIn(a))
    BY <2>2, <2>3, FS_Injection
  <2> QED
    BY <2>4, FS_Subset
<1>8. ASSUME p = IdxNum PROVE Cardinality(others) >= IdxNum
  <2>1. g \in Injection(1..p, others)
    BY <1>3, <1>6 DEF Injection, IsInjective
  <2>2. Cardinality(1..p) = p
    BY <1>2, FS_Interval
  <2> HIDE DEF g, others
  <2>3. Cardinality(1..p) <= Cardinality(others)
    BY <1>7, <2>1, FS_Injection
  <2> QED
    BY <1>8, <2>2, <2>3
<1>9. ASSUME NoRoom(b, p, ItemSize[op.item])
      PROVE  SumFunctionOnSet(y, others) + ItemSize[op.item] > ContextSize
  <2>1. Used(b, p) = SumFunctionOnSet(x, 1..p) /\ Used(b, p) + ItemSize[op.item] > ContextSize
    BY <1>v, <1>9 DEF NoRoom, Used, Idx
  <2>2. /\ \A q \in 1..p : x[q] \in Nat /\ x[q] <= y[g[q]]
        /\ \A i \in others : y[i] \in Nat
    <3>1. \A i \in Item : Aligned(ItemSize[i]) \in Nat
      BY NvAssumption, AlignedIs
    <3>2. others \subseteq Item
      BY DEF LiveIn
    <3>3. \A q \in 1..p : x[q] = y[g[q]] /\ x[q] \in Nat
      BY <1>2, <1>6, <3>1
    <3>4. \A i \in others : y[i] \in Nat
      BY <3>1, <3>2
    <3> HIDE DEF x, y, g, others
    <3> QED
      BY <3>3, <3>4
  <2>3. IsFiniteSet(1..p)
    BY <1>2, FS_Interval
  <2>4. \A q, r \in 1..p : g[q] = g[r] => q = r
    BY <1>3
  <2>5. ItemSize[op.item] \in Nat /\ ContextSize \in Nat
    BY <1>2, NvAssumption
  <2> HIDE DEF x, y, g, others
  <2>6. Total(x, 1..p) <= Total(y, others) /\ Total(x, 1..p) \in Nat /\ Total(y, others) \in Nat
    BY <1>6, <1>7, <2>2, <2>3, <2>4, TotalInjects, TotalNat
  <2> QED
    BY <2>1, <2>5, <2>6, SumIsTotal
<1> QED
  BY <1>1, <1>s, <1>v, <1>5, <1>8, <1>9

\* Where only power losses strike, a write is refused only if the live items and
\* the new one fill a fresh sector: what overwritten, removed and half-written
\* items took is reclaimed.
THEOREM SpaceIsReclaimed ==
  ASSUME Unrefused
  PROVE  Spec => RefusalJustified
<1>1. Init => SpaceInv
  BY DEF Init, Idle, Rest, SpaceInv, Fits, Sifted, Compact
<1>2. TypeOK /\ SpaceInv /\ [Next]_vars => SpaceInv'
  BY SpaceStep
<1>3. TypeOK /\ HeaderInv /\ SpaceInv /\ [Next]_vars =>
        (op.pc = "copy" /\ op'.res = "NV_NOT_ENOUGH_SAPCE" =>
           LET others == LiveIn(CurrentSeq % 2) \ {op.item}
           IN \/ Cardinality(others) >= IdxNum
              \/ SumFunctionOnSet([i \in others |-> Aligned(ItemSize[i])], others)
                   + ItemSize[op.item] > ContextSize)
  BY RefusedFull
<1> QED
  BY <1>1, <1>2, <1>3, TypeCorrect, HeaderInvariant, PTL DEF Spec, RefusalJustified
=============================================================================
