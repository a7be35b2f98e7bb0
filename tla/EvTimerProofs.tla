---------------------------- MODULE EvTimerProofs ----------------------------
(***************************************************************************)
(* Proofs about EvTimer, for any number of slots, users and calls in a     *)
(* pass, and for all constants that satisfy TimerAssumption.               *)
(*                                                                         *)
(* The hard part of ev_timer.c is that callbacks change the list that      *)
(* ev_timer_executeCB walks.  What makes it right is an order: every timer *)
(* that is due stands at the walk's timer or behind it.  A post puts its   *)
(* timer in front, where nothing is due, a cancel keeps the order of the   *)
(* others, and a callback cannot take its own timer away, so the order     *)
(* survives the callback; after it the walk goes one further, or back to   *)
(* the head, before which there is nothing.                                *)
(***************************************************************************)
EXTENDS EvTimer, FiniteSetTheorems, SequenceTheorems, TLAPS

-----------------------------------------------------------------------------
(* The timers *)

\* x stands in s at y or before it
Upto(s, x, y) == \E i, j \in DOMAIN s : i <= j /\ s[i] = x /\ s[j] = y

\* every timer that is due stands at the walk's timer or behind it
DueAhead == \A e \in Listed : evt[e].timeout = 0 => Upto(list, walk.cur, e)

\* whose callback a timer has
CallbacksOK ==
  /\ \A s \in StaticUser : evt[s].cb = s /\ ~evt[s].used
  /\ \A e \in Slots : e \in Listed => evt[e].cb \in PoolUser

\* where the walk may stand
WalkOK == /\ WalkOnList
          /\ walk.pc = "call" => walk.cur # NULL
          /\ walk.pc = "main" => walk.cur = NULL

TimerIInv ==
  TimerTypeOK /\ PoolMatchesList /\ CallbacksOK /\ WalkOK /\ HandlesExact /\ DueAhead

-----------------------------------------------------------------------------
(* Sequences *)

\* The list without its p-th element, and a list with one more in front.
LEMMA ListIndices ==
  ASSUME NEW S, NEW s \in Seq(S)
  PROVE  /\ Len(s) \in Nat /\ DOMAIN s = 1..Len(s) /\ \A k \in 1..Len(s) : s[k] \in S
         /\ \A p \in 1..Len(s) :
              LET r == SubSeq(s, 1, p - 1) \o SubSeq(s, p + 1, Len(s)) IN
              /\ r \in Seq(S) /\ DOMAIN r = 1..(Len(s) - 1)
              /\ \A k \in 1..(Len(s) - 1) : r[k] = IF k < p THEN s[k] ELSE s[k + 1]
         /\ \A e \in S :
              LET r == <<e>> \o s IN
              /\ r \in Seq(S) /\ DOMAIN r = 1..(Len(s) + 1)
              /\ \A k \in 1..(Len(s) + 1) : r[k] = IF k = 1 THEN e ELSE s[k - 1]
<1>1. Len(s) \in Nat /\ DOMAIN s = 1..Len(s) /\ \A k \in 1..Len(s) : s[k] \in S
  BY LenProperties, ElementOfSeq
<1> DEFINE n == Len(s)
<1>2. n \in Nat
  BY <1>1
<1>3. ASSUME NEW p \in 1..n
      PROVE  LET r == SubSeq(s, 1, p - 1) \o SubSeq(s, p + 1, n) IN
             /\ r \in Seq(S) /\ DOMAIN r = 1..(n - 1)
             /\ \A k \in 1..(n - 1) : r[k] = IF k < p THEN s[k] ELSE s[k + 1]
  <2> DEFINE a == SubSeq(s, 1, p - 1)
             b == SubSeq(s, p + 1, n)
             c == a \o b
  <2>1. /\ a \in Seq(S) /\ Len(a) = IF 1 <= p - 1 THEN (p - 1) - 1 + 1 ELSE 0
        /\ \A k \in 1..((p - 1) - 1 + 1) : a[k] = s[1 + k - 1]
    <3>1. 1 \in Int /\ p - 1 \in Int /\ \A k \in 1..(p - 1) : s[k] \in S
      BY <1>1, <1>2
    <3> QED BY <3>1, SubSeqProperties
  <2>2. /\ b \in Seq(S) /\ Len(b) = IF p + 1 <= n THEN n - (p + 1) + 1 ELSE 0
        /\ \A k \in 1..(n - (p + 1) + 1) : b[k] = s[(p + 1) + k - 1]
    <3>1. p + 1 \in Int /\ n \in Int /\ \A k \in (p + 1)..n : s[k] \in S
      BY <1>1, <1>2
    <3> QED BY <3>1, SubSeqProperties
  <2>3. /\ c \in Seq(S) /\ Len(c) = Len(a) + Len(b)
        /\ \A k \in 1..(Len(a) + Len(b)) : c[k] = IF k <= Len(a) THEN a[k] ELSE b[k - Len(a)]
    BY <2>1, <2>2, ConcatProperties
  <2> HIDE DEF n, a, b, c
  <2>4. Len(a) = p - 1 /\ Len(b) = n - p
    BY <1>2, <2>1, <2>2
  <2>5. Len(c) = n - 1
    BY <1>2, <2>3, <2>4
  <2>6. DOMAIN c = 1..(n - 1)
    BY <2>3, <2>5, LenProperties
  <2>7. ASSUME NEW k \in 1..(n - 1)
        PROVE  c[k] = IF k < p THEN s[k] ELSE s[k + 1]
    <3>1. c[k] = IF k <= p - 1 THEN a[k] ELSE b[k - (p - 1)]
      BY <1>2, <2>3, <2>4
    <3>2. CASE k < p
      <4>1. k <= p - 1 /\ k \in 1..((p - 1) - 1 + 1) /\ 1 + k - 1 = k
        BY <1>2, <3>2
      <4>2. a[k] = s[k]
        BY <2>1, <4>1
      <4> QED BY <3>1, <3>2, <4>1, <4>2
    <3>3. CASE ~(k < p)
      <4> DEFINE j == k - (p - 1)
      <4>1. ~(k <= p - 1) /\ j \in 1..(n - (p + 1) + 1) /\ (p + 1) + j - 1 = k + 1
        BY <1>2, <3>3
      <4>2. b[j] = s[k + 1]
        BY <2>2, <4>1
      <4> QED BY <3>1, <3>3, <4>1, <4>2
    <3> QED BY <3>2, <3>3
  <2> QED BY <2>3, <2>6, <2>7 DEF c, a, b
<1>4. ASSUME NEW e \in S
      PROVE  LET r == <<e>> \o s IN
             /\ r \in Seq(S) /\ DOMAIN r = 1..(n + 1)
             /\ \A k \in 1..(n + 1) : r[k] = IF k = 1 THEN e ELSE s[k - 1]
  <2> DEFINE a == <<e>>
             c == a \o s
  <2>1. a \in Seq(S) /\ Len(a) = 1 /\ a[1] = e
    OBVIOUS
  <2>2. /\ c \in Seq(S) /\ Len(c) = Len(a) + n
        /\ \A k \in 1..(Len(a) + n) : c[k] = IF k <= Len(a) THEN a[k] ELSE s[k - Len(a)]
    BY <2>1, ConcatProperties
  <2> HIDE DEF n, a, c
  <2>3. Len(c) = n + 1
    BY <1>2, <2>1, <2>2
  <2>4. DOMAIN c = 1..(n + 1)
    BY <2>2, <2>3, LenProperties
  <2>5. ASSUME NEW k \in 1..(n + 1) PROVE c[k] = IF k = 1 THEN e ELSE s[k - 1]
    <3>1. c[k] = IF k <= 1 THEN a[k] ELSE s[k - 1]
      BY <1>2, <2>1, <2>2
    <3>2. k <= 1 <=> k = 1
      BY <1>2
    <3> QED BY <2>1, <3>1, <3>2
  <2> QED BY <2>2, <2>4, <2>5 DEF a, c
<1> QED BY <1>1, <1>3, <1>4

\* A function on 1..n that takes no value twice, and the same without its p-th
\* value: the other values, in the same order.
LEMMA RemovalOrder ==
  ASSUME NEW n \in Nat, NEW p \in 1..n, NEW s, NEW r,
         DOMAIN s = 1..n, DOMAIN r = 1..(n - 1), IsInjective(s),
         \A k \in 1..(n - 1) : r[k] = IF k < p THEN s[k] ELSE s[k + 1]
  PROVE  /\ IsInjective(r) /\ Range(r) = Range(s) \ {s[p]}
         /\ \A x, y : x # s[p] /\ y # s[p] /\ Upto(s, x, y) => Upto(r, x, y)
<1>3. \A i, j \in 1..n : s[i] = s[j] => i = j
  BY DEF IsInjective
<1>4. \A i \in 1..n : i # p => LET k == IF i < p THEN i ELSE i - 1 IN k \in 1..(n - 1) /\ r[k] = s[i]
  OBVIOUS
<1>5. IsInjective(r)
  BY <1>3 DEF IsInjective
<1>6. Range(r) = Range(s) \ {s[p]}
  <2>1. ASSUME NEW x \in Range(r) PROVE x \in Range(s) \ {s[p]}
    <3>1. PICK k \in 1..(n - 1) : x = r[k]
      BY DEF Range
    <3>2. PICK i \in 1..n : x = s[i] /\ i # p
      BY <3>1
    <3>3. x # s[p]
      BY <1>3, <3>2
    <3> QED BY <3>2, <3>3 DEF Range
  <2>2. ASSUME NEW x \in Range(s) \ {s[p]} PROVE x \in Range(r)
    <3>1. PICK i \in 1..n : x = s[i] /\ i # p
      BY DEF Range
    <3> QED BY <1>4, <3>1 DEF Range
  <2> QED BY <2>1, <2>2
<1>7. ASSUME NEW x, NEW y, x # s[p], y # s[p], Upto(s, x, y) PROVE Upto(r, x, y)
  <2>1. PICK i \in 1..n, j \in 1..n : i <= j /\ s[i] = x /\ s[j] = y
    BY <1>7 DEF Upto
  <2>2. i # p /\ j # p
    BY <1>7, <2>1
  <2> DEFINE k == IF i < p THEN i ELSE i - 1
             l == IF j < p THEN j ELSE j - 1
  <2>3. k \in 1..(n - 1) /\ r[k] = x
    BY <1>4, <2>1, <2>2
  <2>4. l \in 1..(n - 1) /\ r[l] = y
    BY <1>4, <2>1, <2>2
  <2>5. k <= l
    BY <2>1, <2>2
  <2> HIDE DEF k, l
  <2> QED BY <2>3, <2>4, <2>5 DEF Upto
<1> QED BY <1>5, <1>6, <1>7

\* The same with another value in front: that one too, and the order of the
\* others is the same.
LEMMA PrependOrder ==
  ASSUME NEW n \in Nat, NEW s, NEW r, NEW e,
         DOMAIN s = 1..n, DOMAIN r = 1..(n + 1), IsInjective(s), e \notin Range(s),
         \A k \in 1..(n + 1) : r[k] = IF k = 1 THEN e ELSE s[k - 1]
  PROVE  /\ IsInjective(r) /\ Range(r) = Range(s) \cup {e}
         /\ \A x, y : Upto(s, x, y) => Upto(r, x, y)
<1>1. \A i \in 1..n : s[i] # e
  BY DEF Range
<1>2. \A i, j \in 1..n : s[i] = s[j] => i = j
  BY DEF IsInjective
<1>3. \A i \in 1..n : i + 1 \in 1..(n + 1) /\ r[i + 1] = s[i]
  OBVIOUS
<1>4. IsInjective(r)
  <2> SUFFICES ASSUME NEW i \in 1..(n + 1), NEW j \in 1..(n + 1), r[i] = r[j] PROVE i = j
    BY DEF IsInjective
  <2>1. CASE i = 1 \/ j = 1
    BY <1>1, <2>1
  <2>2. CASE i # 1 /\ j # 1
    <3>1. i - 1 \in 1..n /\ j - 1 \in 1..n /\ s[i - 1] = s[j - 1]
      BY <2>2
    <3>2. i - 1 = j - 1
      BY <1>2, <3>1
    <3> QED BY <3>2
  <2> QED BY <2>1, <2>2
<1>5. Range(r) = Range(s) \cup {e}
  <2>1. ASSUME NEW x \in Range(r) PROVE x \in Range(s) \cup {e}
    BY <2>1 DEF Range
  <2>2. ASSUME NEW x \in Range(s) PROVE x \in Range(r)
    BY <1>3, <2>2 DEF Range
  <2>3. e \in Range(r)
    BY DEF Range
  <2> QED BY <2>1, <2>2, <2>3
<1>6. ASSUME NEW x, NEW y, Upto(s, x, y) PROVE Upto(r, x, y)
  <2>1. PICK i \in 1..n, j \in 1..n : i <= j /\ s[i] = x /\ s[j] = y
    BY <1>6 DEF Upto
  <2>2. i + 1 \in 1..(n + 1) /\ j + 1 \in 1..(n + 1) /\ i + 1 <= j + 1
    BY <2>1
  <2>3. r[i + 1] = x /\ r[j + 1] = y
    BY <1>3, <2>1
  <2> QED BY <2>2, <2>3 DEF Upto
<1> QED BY <1>4, <1>5, <1>6

-----------------------------------------------------------------------------
(* The list of armed timers *)

\* What is known of the constants.
LEMMA Constants ==
  ASSUME TimerAssumption
  PROVE  /\ SlotNum \in Nat \ {0} /\ Tpm \in Nat \ {0} /\ MaxBlock \in Nat /\ MaxOps \in Nat /\ MaxAge \in Nat
         /\ NULL \notin Evts /\ NULL \notin User /\ Slots \cap StaticUser = {}
         /\ PoolUser \cap StaticUser = {} /\ Slots \subseteq Evts /\ StaticUser \subseteq Evts
         /\ PoolUser \subseteq User /\ StaticUser \subseteq User
         /\ \A p \in Period : p \in Nat /\ p > 0
BY DEF TimerAssumption, Evts, User

\* Ticks divide into whole milliseconds and a remainder.
LEMMA DivMod ==
  ASSUME NEW a \in Nat, NEW b \in Nat \ {0}
  PROVE  a \div b \in Nat /\ a % b \in 0..(b - 1)
OBVIOUS

\* The places of the timers on the list.
LEMMA Places ==
  ASSUME TimerAssumption, TimerTypeOK, IsInjective(list)
  PROVE  /\ Listed \subseteq Evts /\ NULL \notin Listed
         /\ \A e \in Listed : Pos(e) \in 1..Len(list) /\ list[Pos(e)] = e
         /\ Len(list) \in Nat /\ DOMAIN list = 1..Len(list)
         /\ \A x, y : Upto(list, x, y) => x \in Listed /\ y \in Listed
<1>1. Len(list) \in Nat /\ DOMAIN list = 1..Len(list) /\ \A k \in 1..Len(list) : list[k] \in Evts
  BY ListIndices DEF TimerTypeOK
<1>2. Listed \subseteq Evts
  BY <1>1 DEF Listed, Range
<1>3. ASSUME NEW e \in Listed PROVE Pos(e) \in 1..Len(list) /\ list[Pos(e)] = e
  <2>1. \E i \in DOMAIN list : list[i] = e
    BY DEF Listed, Range
  <2> QED BY <1>1, <2>1 DEF Pos
<1>4. \A x, y : Upto(list, x, y) => x \in Listed /\ y \in Listed
  BY DEF Upto, Listed, Range
<1> QED BY <1>1, <1>2, <1>3, <1>4, Constants

\* The head of a list stands before everything on it.
LEMMA HeadFirst ==
  ASSUME TimerAssumption, NEW l \in Seq(Evts)
  PROVE  /\ HeadOf(l) \in Range(l) \cup {NULL}
         /\ \A y \in Range(l) : HeadOf(l) # NULL /\ Upto(l, HeadOf(l), y)
<1>1. Len(l) \in Nat /\ DOMAIN l = 1..Len(l) /\ \A k \in 1..Len(l) : l[k] \in Evts
  BY ListIndices
<1>2. CASE l = <<>>
  BY <1>2 DEF HeadOf, Range
<1>3. CASE l # <<>>
  <2>1. HeadOf(l) = l[1] /\ 1 \in DOMAIN l
    <3>1. Len(l) # 0
      BY <1>3, EmptySeq
    <3> QED BY <1>1, <1>3, <3>1 DEF HeadOf
  <2>2. l[1] \in Range(l) /\ l[1] # NULL
    BY <1>1, <2>1, Constants DEF Range
  <2>3. ASSUME NEW y \in Range(l) PROVE Upto(l, l[1], y)
    <3>1. PICK j \in DOMAIN l : l[j] = y
      BY DEF Range
    <3>2. 1 <= j
      BY <1>1
    <3> QED BY <2>1, <3>1, <3>2 DEF Upto
  <2> QED BY <2>1, <2>2, <2>3
<1> QED BY <1>2, <1>3

\* The next timer stands before everything behind this one.
LEMMA NextFirst ==
  ASSUME TimerAssumption, TimerTypeOK, IsInjective(list), NEW x \in Listed
  PROVE  /\ NextOf(x) \in (Listed \ {x}) \cup {NULL}
         /\ \A y : Upto(list, x, y) /\ y # x => NextOf(x) # NULL /\ Upto(list, NextOf(x), y)
<1>1. /\ Len(list) \in Nat /\ DOMAIN list = 1..Len(list) /\ NULL \notin Listed
      /\ Pos(x) \in 1..Len(list) /\ list[Pos(x)] = x
  BY Places
<1>2. \A i, j \in 1..Len(list) : list[i] = list[j] => i = j
  BY <1>1 DEF IsInjective
<1>3. CASE Pos(x) < Len(list)
  <2>1. NextOf(x) = list[Pos(x) + 1] /\ Pos(x) + 1 \in 1..Len(list)
    BY <1>1, <1>3 DEF NextOf
  <2>2. NextOf(x) \in Listed /\ NextOf(x) # x
    <3>1. Pos(x) + 1 # Pos(x)
      BY <1>1
    <3> QED BY <1>1, <1>2, <2>1, <3>1 DEF Listed, Range
  <2>3. ASSUME NEW y, Upto(list, x, y), y # x PROVE Upto(list, NextOf(x), y)
    <3>1. PICK i \in 1..Len(list), j \in 1..Len(list) : i <= j /\ list[i] = x /\ list[j] = y
      BY <1>1, <2>3 DEF Upto
    <3>2. i = Pos(x) /\ j # i
      BY <1>1, <1>2, <2>3, <3>1
    <3>3. Pos(x) + 1 <= j
      BY <1>1, <3>1, <3>2
    <3> QED BY <1>1, <2>1, <3>1, <3>3 DEF Upto
  <2> QED BY <1>1, <2>2, <2>3
<1>4. CASE ~(Pos(x) < Len(list))
  <2>1. NextOf(x) = NULL
    BY <1>4 DEF NextOf
  <2>2. ASSUME NEW y, Upto(list, x, y), y # x PROVE FALSE
    <3>1. PICK i \in 1..Len(list), j \in 1..Len(list) : i <= j /\ list[i] = x /\ list[j] = y
      BY <1>1, <2>2 DEF Upto
    <3>2. i = Pos(x) /\ j # i
      BY <1>1, <1>2, <2>2, <3>1
    <3> QED BY <1>1, <1>4, <3>1, <3>2
  <2> QED BY <2>1, <2>2
<1> QED BY <1>3, <1>4

-----------------------------------------------------------------------------
(* Taking a timer off the list, and putting one on *)

\* A count of slots in use is one off when one slot changes.
LEMMA UsedCounts ==
  ASSUME TimerAssumption, NEW U \in SUBSET Slots
  PROVE  /\ Cardinality(U) \in 0..SlotNum
         /\ \A e \in U : Cardinality(U \ {e}) = Cardinality(U) - 1 /\ Cardinality(U) > 0
         /\ \A e \in Slots \ U : Cardinality(U \cup {e}) = Cardinality(U) + 1
<1>1. SlotNum \in Nat
  BY Constants
<1>2. IsFiniteSet(Slots) /\ Cardinality(Slots) = SlotNum
  BY <1>1, FS_Interval DEF Slots
<1>3. IsFiniteSet(U) /\ Cardinality(U) <= SlotNum /\ Cardinality(U) \in Nat
  BY <1>2, FS_Subset, FS_CardinalityType
<1>4. \A e \in U : Cardinality(U \ {e}) = Cardinality(U) - 1 /\ Cardinality(U) > 0
  <2> SUFFICES ASSUME NEW e \in U PROVE Cardinality(U \ {e}) = Cardinality(U) - 1 /\ Cardinality(U) > 0
    OBVIOUS
  <2>1. Cardinality(U \ {e}) = Cardinality(U) - 1
    BY <1>3, FS_RemoveElement
  <2>2. Cardinality(U) # 0
    BY <1>3, FS_EmptySet
  <2> QED BY <1>3, <2>1, <2>2
<1>5. \A e \in Slots \ U : Cardinality(U \cup {e}) = Cardinality(U) + 1
  BY <1>3, FS_AddElement
<1> QED BY <1>1, <1>3, <1>4, <1>5

\* ev_unon_timer on a timer of the list: what it leaves.
LEMMA UnonListed ==
  ASSUME TimerAssumption, TimerTypeOK, PoolMatchesList, CallbacksOK, NEW e \in Listed, Unon(e)
  PROVE  /\ list' \in Seq(Evts) /\ evt' \in [Evts -> Timer] /\ usedNum' \in 0..SlotNum
         /\ PoolMatchesList' /\ CallbacksOK' /\ Listed' = Listed \ {e}
         /\ \A f \in Evts : /\ evt'[f].cb = evt[f].cb
                            /\ f # e => evt'[f] = evt[f]
         /\ \A x, y : x # e /\ y # e /\ Upto(list, x, y) => Upto(list', x, y)
<1>0. IsInjective(list)
  BY DEF PoolMatchesList
<1>1. /\ list' = SubSeq(list, 1, Pos(e) - 1) \o SubSeq(list, Pos(e) + 1, Len(list))
      /\ evt' = [evt EXCEPT ![e] = Removed(@)]
      /\ usedNum' = IF evt[e].used THEN usedNum - 1 ELSE usedNum
  BY DEF Unon
<1>2. /\ e \in Evts /\ Pos(e) \in 1..Len(list) /\ list[Pos(e)] = e
      /\ Len(list) \in Nat /\ DOMAIN list = 1..Len(list)
  BY <1>0, Places
<1>3. /\ list' \in Seq(Evts) /\ DOMAIN list' = 1..(Len(list) - 1)
      /\ \A k \in 1..(Len(list) - 1) : list'[k] = IF k < Pos(e) THEN list[k] ELSE list[k + 1]
  <2>1. \A p \in 1..Len(list) :
          LET r == SubSeq(list, 1, p - 1) \o SubSeq(list, p + 1, Len(list)) IN
          /\ r \in Seq(Evts) /\ DOMAIN r = 1..(Len(list) - 1)
          /\ \A k \in 1..(Len(list) - 1) : r[k] = IF k < p THEN list[k] ELSE list[k + 1]
    <3>1. list \in Seq(Evts)
      BY DEF TimerTypeOK
    <3> QED BY <3>1, ListIndices
  <2> DEFINE p == Pos(e)
             r == SubSeq(list, 1, p - 1) \o SubSeq(list, p + 1, Len(list))
  <2>2. p \in 1..Len(list)
    BY <1>2
  <2>3. list' = r
    BY <1>1
  <2> HIDE DEF p
  <2>4. /\ r \in Seq(Evts) /\ DOMAIN r = 1..(Len(list) - 1)
        /\ \A k \in 1..(Len(list) - 1) : r[k] = IF k < p THEN list[k] ELSE list[k + 1]
    BY <2>1, <2>2
  <2> HIDE DEF r
  <2> QED BY <2>3, <2>4 DEF p
<1>4. /\ IsInjective(list') /\ Range(list') = Range(list) \ {list[Pos(e)]}
      /\ \A x, y : x # list[Pos(e)] /\ y # list[Pos(e)] /\ Upto(list, x, y) => Upto(list', x, y)
  BY <1>0, <1>2, <1>3, RemovalOrder
<1>5. Listed' = Listed \ {e}
  BY <1>2, <1>4 DEF Listed
<1>6. /\ evt' \in [Evts -> Timer] /\ evt'[e] = Removed(evt[e])
      /\ \A f \in Evts \ {e} : evt'[f] = evt[f]
  <2>1. evt \in [Evts -> Timer]
    BY DEF TimerTypeOK
  <2>2. Removed(evt[e]) \in Timer
    BY <1>2, <2>1 DEF Removed, Timer
  <2> QED BY <1>1, <1>2, <2>1, <2>2
<1>7. evt'[e].cb = evt[e].cb /\ evt'[e].used = FALSE
  <2>1. evt[e] \in Timer
    BY <1>2 DEF TimerTypeOK
  <2> QED BY <1>6, <2>1 DEF Removed, Timer
<1> DEFINE U == {f \in Slots : evt[f].used}
<1>8. Listed \cap Slots = U /\ usedNum = Cardinality(U)
  BY DEF PoolMatchesList
<1>9. {f \in Slots : evt'[f].used} = U \ {e}
  BY <1>6, <1>7, Constants
<1>10. evt[e].used <=> e \in U
  <2>1. e \in Slots \/ e \in StaticUser
    BY <1>2 DEF Evts
  <2>2. e \in StaticUser => ~evt[e].used
    BY DEF CallbacksOK
  <2> QED BY <2>1, <2>2
<1>11. PoolMatchesList' /\ usedNum' \in 0..SlotNum
  <2>1. usedNum' = Cardinality(U \ {e})
    <3>1. CASE e \in U
      BY <1>1, <1>8, <1>10, <3>1, UsedCounts
    <3>2. CASE e \notin U
      <4>1. U \ {e} = U BY <3>2
      <4> QED BY <1>1, <1>8, <1>10, <3>2, <4>1
    <3> QED BY <3>1, <3>2
  <2>2. usedNum' \in 0..SlotNum
    BY <2>1, UsedCounts
  <2>3. Listed' \cap Slots = U \ {e}
    BY <1>5, <1>8
  <2> QED BY <1>4, <1>9, <2>1, <2>2, <2>3 DEF PoolMatchesList
<1>12. CallbacksOK'
  BY <1>5, <1>6, <1>7, Constants DEF CallbacksOK
<1> QED BY <1>2, <1>3, <1>4, <1>5, <1>6, <1>7, <1>11, <1>12

\* A timer is armed that was not on the list, a slot or a user's own.
LEMMA ArmUnlisted ==
  ASSUME TimerAssumption, TimerTypeOK, PoolMatchesList, CallbacksOK,
         NEW e \in Evts \ Listed, NEW t \in Timer, list' = <<e>> \o list,
         evt' = [evt EXCEPT ![e] = t],
         \/ /\ e \in Slots /\ t.used /\ t.cb \in PoolUser
            /\ usedNum < SlotNum /\ usedNum' = usedNum + 1
         \/ /\ e \in StaticUser /\ ~t.used /\ t.cb = e
            /\ usedNum' = usedNum
  PROVE  /\ list' \in Seq(Evts) /\ evt' \in [Evts -> Timer] /\ usedNum' \in 0..SlotNum
         /\ PoolMatchesList' /\ CallbacksOK' /\ Listed' = Listed \cup {e}
         /\ evt'[e] = t /\ \A f \in Evts : f # e => evt'[f] = evt[f]
         /\ \A x, y : Upto(list, x, y) => Upto(list', x, y)
<1>0. IsInjective(list)
  BY DEF PoolMatchesList
<1>1. /\ evt \in [Evts -> Timer] /\ list \in Seq(Evts) /\ usedNum \in 0..SlotNum
      /\ Len(list) \in Nat /\ DOMAIN list = 1..Len(list)
  BY <1>0, Places DEF TimerTypeOK
<1>2. /\ list' \in Seq(Evts) /\ DOMAIN list' = 1..(Len(list) + 1)
      /\ \A k \in 1..(Len(list) + 1) : list'[k] = IF k = 1 THEN e ELSE list[k - 1]
  BY <1>1, ListIndices
<1>3. /\ IsInjective(list') /\ Range(list') = Range(list) \cup {e}
      /\ \A x, y : Upto(list, x, y) => Upto(list', x, y)
  <2>1. e \notin Range(list)
    BY DEF Listed
  <2> DEFINE n == Len(list)
             r == list'
  <2>2. n \in Nat /\ DOMAIN list = 1..n /\ DOMAIN r = 1..(n + 1)
    BY <1>1, <1>2
  <2>3. \A k \in 1..(n + 1) : r[k] = IF k = 1 THEN e ELSE list[k - 1]
    BY <1>2
  <2> HIDE DEF n, r
  <2>4. /\ IsInjective(r) /\ Range(r) = Range(list) \cup {e}
        /\ \A x, y : Upto(list, x, y) => Upto(r, x, y)
    BY <1>0, <2>1, <2>2, <2>3, PrependOrder
  <2> QED BY <2>4 DEF r
<1>4. Listed' = Listed \cup {e}
  BY <1>3 DEF Listed
<1>5. evt' \in [Evts -> Timer] /\ evt'[e] = t /\ \A f \in Evts : f # e => evt'[f] = evt[f]
  BY <1>1
<1> DEFINE U == {f \in Slots : evt[f].used}
<1>6. Listed \cap Slots = U /\ usedNum = Cardinality(U)
  BY DEF PoolMatchesList
<1>7. CASE e \in Slots
  <2>1. t.used /\ t.cb \in PoolUser /\ usedNum < SlotNum /\ usedNum' = usedNum + 1
    BY <1>7, Constants
  <2>2. {f \in Slots : evt'[f].used} = U \cup {e}
    BY <1>5, <1>7, <2>1, Constants
  <2>3. e \notin U
    BY <1>6
  <2>4. usedNum' = Cardinality(U \cup {e}) /\ usedNum' \in 0..SlotNum
    BY <1>6, <1>7, <2>1, <2>3, UsedCounts
  <2>5. Listed' \cap Slots = U \cup {e}
    BY <1>4, <1>6, <1>7
  <2>6. PoolMatchesList'
    BY <1>3, <2>2, <2>4, <2>5 DEF PoolMatchesList
  <2>7. CallbacksOK'
    BY <1>4, <1>5, <1>7, <2>1, Constants DEF CallbacksOK
  <2> QED BY <1>2, <1>3, <1>4, <1>5, <2>4, <2>6, <2>7
<1>8. CASE e \in StaticUser
  <2>1. ~t.used /\ t.cb = e /\ usedNum' = usedNum
    BY <1>8, Constants
  <2>2. {f \in Slots : evt'[f].used} = U
    BY <1>5, <1>8, <2>1, Constants
  <2>3. Listed' \cap Slots = U
    BY <1>4, <1>6, <1>8, Constants
  <2>4. PoolMatchesList'
    BY <1>3, <1>6, <2>1, <2>2, <2>3 DEF PoolMatchesList
  <2>5. CallbacksOK'
    BY <1>4, <1>5, <1>8, <2>1, Constants DEF CallbacksOK
  <2> QED BY <1>1, <1>2, <1>3, <1>4, <1>5, <2>1, <2>4, <2>5
<1> QED BY <1>7, <1>8 DEF Evts

-----------------------------------------------------------------------------
(* Every action preserves the invariant *)

WalkType == [pc : {"main", "walk", "call"}, cur : Evts \cup {NULL},
             head : Evts \cup {NULL}, ending : BOOLEAN, ops : 0..MaxOps]

\* A call counts against the bound of the pass; the walk stays where it is.
LEMMA CallStays ==
  ASSUME TimerAssumption, TimerTypeOK, NEW u, MayCall(u), Called
  PROVE  /\ walk' \in WalkType /\ walk'.pc = walk.pc /\ walk'.cur = walk.cur
         /\ walk'.ending = walk.ending /\ walk.pc # "walk"
<1>1. walk \in WalkType /\ MaxOps \in Nat
  BY Constants DEF TimerTypeOK, WalkType
<1>2. walk.ops + 1 \in 0..MaxOps
  BY <1>1 DEF MayCall, WalkType
<1> QED BY <1>1, <1>2 DEF MayCall, Called, WalkType

\* A call that leaves every listed timer what it was, or gives it time, takes
\* none away from under the walk, and keeps the order: nothing that is due gets
\* out of the walk's way.
LEMMA CallKeepsWalk ==
  ASSUME TimerAssumption, TimerIInv, NEW u, MayCall(u), Called,
         walk.cur # NULL => walk.cur \in Listed',
         \A f \in Listed' : evt'[f].timeout = 0 => f \in Listed /\ evt[f].timeout = 0,
         \A x, y : x \in Listed' /\ y \in Listed' /\ Upto(list, x, y) => Upto(list', x, y)
  PROVE  WalkOK' /\ DueAhead' /\ walk' \in WalkType
<1>1. /\ walk' \in WalkType /\ walk'.pc = walk.pc /\ walk'.cur = walk.cur
  BY CallStays DEF TimerIInv
<1>2. WalkOK'
  BY <1>1 DEF TimerIInv, WalkOK, WalkOnList
<1>3. ASSUME NEW e \in Listed', evt'[e].timeout = 0 PROVE Upto(list', walk'.cur, e)
  <2>1. Upto(list, walk.cur, e)
    BY <1>3 DEF TimerIInv, DueAhead
  <2>2. walk.cur # NULL
    BY <2>1, Places DEF TimerIInv, PoolMatchesList
  <2> QED BY <1>1, <1>3, <2>1, <2>2
<1> QED BY <1>1, <1>2, <1>3 DEF DueAhead

\* Fields of a timer that the operations set.
LEMMA TimerFields ==
  ASSUME TimerAssumption, NEW t \in Timer, NEW p \in Period
  PROVE  /\ ReArmed(t, p) \in Timer /\ ReArmed(t, p).timeout = p
         /\ ReArmed(t, p).cb = t.cb /\ ReArmed(t, p).used = t.used
         /\ Armed(t, p) \in Timer /\ Armed(t, p).timeout = p
         /\ Armed(t, p).cb = t.cb /\ Armed(t, p).used = t.used
BY Constants DEF ReArmed, Armed, Timer

\* A timer gets a new timeout where it stands: everything but DueAhead sees
\* nothing of it.
LEMMA FieldsOnly ==
  ASSUME TimerAssumption, TimerIInv, UNCHANGED <<list, usedNum>>, evt' \in [Evts -> Timer],
         \A f \in Evts : evt'[f].cb = evt[f].cb /\ evt'[f].used = evt[f].used
  PROVE  /\ PoolMatchesList' /\ CallbacksOK' /\ Listed' = Listed
         /\ list' \in Seq(Evts) /\ usedNum' \in 0..SlotNum
<1>1. Listed' = Listed
  BY DEF Listed
<1>2. {f \in Slots : evt'[f].used} = {f \in Slots : evt[f].used}
  BY Constants
<1>3. PoolMatchesList'
  BY <1>1, <1>2 DEF TimerIInv, PoolMatchesList
<1>4. CallbacksOK'
  BY <1>1, Constants DEF TimerIInv, CallbacksOK
<1> QED BY <1>1, <1>3, <1>4 DEF TimerIInv, TimerTypeOK

\* ev_timer_taskPost.
LEMMA PostStep ==
  ASSUME TimerAssumption, TimerIInv, NEW u \in PoolUser, NEW p \in Period, Post(u, p)
  PROVE  TimerIInv'
<1>0. /\ TimerTypeOK /\ PoolMatchesList /\ CallbacksOK /\ HandlesExact /\ IsInjective(list)
      /\ evt \in [Evts -> Timer] /\ WalkOK /\ Listed \subseteq Evts /\ NULL \notin Listed
  BY Places DEF TimerIInv, PoolMatchesList, TimerTypeOK
<1>1. MayCall(u) /\ Called /\ handle[u] = NULL /\ UNCHANGED clock
  BY DEF Post
<1>2. ASSUME NEW e \in FreeSlot, usedNum < SlotNum,
             evt' = [evt EXCEPT ![e] = Armed([@ EXCEPT !.used = TRUE, !.cb = u], p)],
             usedNum' = usedNum + 1, list' = <<e>> \o list, handle' = [handle EXCEPT ![u] = e]
      PROVE  TimerIInv'
  <2> DEFINE x == [evt[e] EXCEPT !.used = TRUE, !.cb = u]
             t == Armed(x, p)
  <2>1. e \in Slots /\ e \in Evts /\ ~evt[e].used
    BY <1>2, Constants DEF FreeSlot
  <2>2. e \notin Listed
    BY <1>0, <2>1 DEF PoolMatchesList
  <2>3. x \in Timer /\ x.used /\ x.cb = u
    <3>1. evt[e] \in Timer /\ u \in User \cup {NULL}
      BY <1>0, <2>1, Constants
    <3>2. \A t1 \in Timer, v \in User \cup {NULL} :
            LET y == [t1 EXCEPT !.used = TRUE, !.cb = v] IN y \in Timer /\ y.used /\ y.cb = v
      BY DEF Timer
    <3> QED BY <3>1, <3>2
  <2>4. evt' = [evt EXCEPT ![e] = t]
    BY <1>2, <2>1, <1>0
  <2> HIDE DEF x
  <2>5. t \in Timer /\ t.used /\ t.cb = u /\ t.timeout = p /\ p > 0
    BY <2>3, TimerFields, Constants
  <2> HIDE DEF t
  <2>6. /\ list' \in Seq(Evts) /\ evt' \in [Evts -> Timer] /\ usedNum' \in 0..SlotNum
        /\ PoolMatchesList' /\ CallbacksOK' /\ Listed' = Listed \cup {e}
        /\ evt'[e] = t /\ \A f \in Evts : f # e => evt'[f] = evt[f]
        /\ \A a, b : Upto(list, a, b) => Upto(list', a, b)
    BY <1>0, <1>2, <2>1, <2>2, <2>4, <2>5, ArmUnlisted
  <2>7. WalkOK' /\ DueAhead' /\ walk' \in WalkType
    <3>1. walk.cur # NULL => walk.cur \in Listed'
      BY <1>0, <2>6 DEF WalkOK, WalkOnList
    <3>2. \A f \in Listed' : evt'[f].timeout = 0 => f \in Listed /\ evt[f].timeout = 0
      BY <1>0, <2>5, <2>6
    <3> QED BY <1>1, <2>6, <3>1, <3>2, CallKeepsWalk
  <2>8. handle' \in [PoolUser -> Slots \cup {NULL}]
    BY <1>0, <1>2, <2>1 DEF TimerTypeOK
  <2>9. /\ walk'.pc = walk.pc /\ walk'.cur = walk.cur /\ walk'.ending = walk.ending /\ walk.pc # "walk"
    BY <1>0, <1>1, CallStays
  <2>10. HandlesExact'
    <3> SUFFICES ASSUME NEW v \in PoolUser, NEW f \in Slots
                 PROVE  (handle'[v] = f) <=> /\ f \in Listed' /\ evt'[f].cb = v
                                             /\ ~(walk'.pc = "call" /\ walk'.ending /\ walk'.cur = f)
      BY DEF HandlesExact
    <3>1. (handle[v] = f) <=> /\ f \in Listed /\ evt[f].cb = v
                              /\ ~(walk.pc = "call" /\ walk.ending /\ walk.cur = f)
      BY <1>0 DEF HandlesExact
    <3>2. CASE f = e
      <4>1. walk.cur # e
        BY <1>0, <2>1, <2>2, Constants DEF WalkOK, WalkOnList
      <4>2. handle[v] # e
        BY <2>2, <3>1, <3>2
      <4> QED BY <1>0, <1>2, <2>5, <2>6, <2>9, <3>2, <4>1, <4>2 DEF TimerTypeOK
    <3>3. CASE f # e
      <4>1. f \in Evts /\ evt'[f] = evt[f] /\ (f \in Listed' <=> f \in Listed)
        BY <2>6, <3>3, Constants
      <4>2. CASE v = u
        <5>1. handle[u] # f
          BY <1>1, Constants
        <5>2. handle'[u] = e
          BY <1>0, <1>2 DEF TimerTypeOK
        <5> QED BY <2>9, <3>1, <3>3, <4>1, <4>2, <5>1, <5>2
      <4>3. CASE v # u
        <5>1. handle'[v] = handle[v]
          BY <1>0, <1>2, <4>3 DEF TimerTypeOK
        <5> QED BY <2>9, <3>1, <4>1, <5>1
      <4> QED BY <4>2, <4>3
    <3> QED BY <3>2, <3>3
  <2> QED BY <1>0, <1>1, <2>6, <2>7, <2>8, <2>10 DEF TimerIInv, TimerTypeOK, WalkType
<1>3. ASSUME UNCHANGED <<list, evt, usedNum, handle>>
      PROVE  TimerIInv'
  <2>1. Listed' = Listed
    BY <1>3 DEF Listed
  <2>2. WalkOK' /\ DueAhead' /\ walk' \in WalkType
    BY <1>0, <1>1, <1>3, <2>1, CallKeepsWalk DEF WalkOK, WalkOnList
  <2>3. /\ walk'.pc = walk.pc /\ walk'.cur = walk.cur /\ walk'.ending = walk.ending
    BY <1>0, <1>1, CallStays
  <2>4. HandlesExact'
    BY <1>0, <1>3, <2>1, <2>3 DEF HandlesExact
  <2>5. PoolMatchesList' /\ CallbacksOK'
    BY <1>0, <1>3, <2>1 DEF PoolMatchesList, CallbacksOK
  <2> QED BY <1>0, <1>1, <1>3, <2>2, <2>4, <2>5 DEF TimerIInv, TimerTypeOK, WalkType
<1> QED BY <1>2, <1>3 DEF Post

\* A listed timer that is not the walk's is taken off by its user's call.
LEMMA OffStep ==
  ASSUME TimerAssumption, TimerIInv, NEW u \in User, MayCall(u), Called,
         NEW e \in Listed, Unon(e), walk.cur # e,
         \/ e \in StaticUser /\ UNCHANGED handle
         \/ u \in PoolUser /\ handle[u] = e /\ e \in Slots /\ handle' = [handle EXCEPT ![u] = NULL],
         UNCHANGED clock
  PROVE  TimerIInv'
<1>0. /\ TimerTypeOK /\ PoolMatchesList /\ CallbacksOK /\ HandlesExact /\ IsInjective(list)
      /\ evt \in [Evts -> Timer] /\ WalkOK /\ Listed \subseteq Evts /\ NULL \notin Listed
  BY Places DEF TimerIInv, PoolMatchesList, TimerTypeOK
<1>1. /\ list' \in Seq(Evts) /\ evt' \in [Evts -> Timer] /\ usedNum' \in 0..SlotNum
      /\ PoolMatchesList' /\ CallbacksOK' /\ Listed' = Listed \ {e}
      /\ \A f \in Evts : /\ evt'[f].cb = evt[f].cb
                         /\ f # e => evt'[f] = evt[f]
      /\ \A x, y : x # e /\ y # e /\ Upto(list, x, y) => Upto(list', x, y)
  BY <1>0, UnonListed
<1>2. WalkOK' /\ DueAhead' /\ walk' \in WalkType
  <2>1. walk.cur # NULL => walk.cur \in Listed'
    BY <1>0, <1>1 DEF WalkOK, WalkOnList
  <2>2. \A f \in Listed' : evt'[f].timeout = 0 => f \in Listed /\ evt[f].timeout = 0
    BY <1>0, <1>1
  <2> QED BY <1>1, <2>1, <2>2, CallKeepsWalk
<1>3. /\ walk'.pc = walk.pc /\ walk'.cur = walk.cur /\ walk'.ending = walk.ending
  BY <1>0, CallStays
<1>4. handle' \in [PoolUser -> Slots \cup {NULL}]
  BY <1>0 DEF TimerTypeOK
<1>5. HandlesExact'
  <2> SUFFICES ASSUME NEW v \in PoolUser, NEW f \in Slots
               PROVE  (handle'[v] = f) <=> /\ f \in Listed' /\ evt'[f].cb = v
                                           /\ ~(walk'.pc = "call" /\ walk'.ending /\ walk'.cur = f)
    BY DEF HandlesExact
  <2>1. \A w \in PoolUser, g \in Slots :
          (handle[w] = g) <=> /\ g \in Listed /\ evt[g].cb = w
                              /\ ~(walk.pc = "call" /\ walk.ending /\ walk.cur = g)
    BY <1>0 DEF HandlesExact
  <2>2. evt'[f].cb = evt[f].cb /\ f # NULL
    BY <1>1, Constants
  <2>3. CASE e \in StaticUser /\ UNCHANGED handle
    <3>1. f # e
      BY <2>3, Constants
    <3> QED BY <1>1, <1>3, <2>1, <2>2, <2>3, <3>1
  <2>4. CASE u \in PoolUser /\ handle[u] = e /\ e \in Slots /\ handle' = [handle EXCEPT ![u] = NULL]
    <3>1. handle'[v] = IF v = u THEN NULL ELSE handle[v]
      BY <1>0, <2>4 DEF TimerTypeOK
    <3>2. evt[e].cb = u
      BY <2>1, <2>4
    <3>3. CASE v = u
      BY <1>1, <1>3, <2>1, <2>2, <2>4, <3>1, <3>3
    <3>4. CASE v # u
      BY <1>1, <1>3, <2>1, <2>2, <2>4, <3>1, <3>2, <3>4
    <3> QED BY <3>3, <3>4
  <2> QED BY <2>3, <2>4
<1> QED BY <1>0, <1>1, <1>2, <1>4, <1>5 DEF TimerIInv, TimerTypeOK, WalkType

\* A listed timer is given a new timeout by its user's call.
LEMMA RetimeStep ==
  ASSUME TimerAssumption, TimerIInv, NEW u, MayCall(u), Called, NEW e \in Listed, NEW p \in Period,
         evt' = [evt EXCEPT ![e] = ReArmed(@, p)], UNCHANGED <<list, usedNum, handle, clock>>
  PROVE  TimerIInv'
<1>0. /\ TimerTypeOK /\ HandlesExact /\ IsInjective(list) /\ e \in Evts
      /\ evt \in [Evts -> Timer] /\ WalkOK /\ Listed \subseteq Evts
  BY Places DEF TimerIInv, PoolMatchesList, TimerTypeOK
<1> DEFINE t == ReArmed(evt[e], p)
<1>1. t \in Timer /\ t.timeout = p /\ t.cb = evt[e].cb /\ t.used = evt[e].used /\ p > 0
  BY <1>0, TimerFields, Constants
<1>2. evt' = [evt EXCEPT ![e] = t]
  BY <1>0
<1> HIDE DEF t
<1>3. evt' \in [Evts -> Timer] /\ evt'[e] = t /\ \A f \in Evts : f # e => evt'[f] = evt[f]
  BY <1>0, <1>1, <1>2
<1>4. \A f \in Evts : evt'[f].cb = evt[f].cb /\ evt'[f].used = evt[f].used
  BY <1>1, <1>3
<1>5. /\ PoolMatchesList' /\ CallbacksOK' /\ Listed' = Listed
      /\ list' \in Seq(Evts) /\ usedNum' \in 0..SlotNum
  BY <1>3, <1>4, FieldsOnly
<1>6. WalkOK' /\ DueAhead' /\ walk' \in WalkType
  <2>1. walk.cur # NULL => walk.cur \in Listed'
    BY <1>0, <1>5 DEF WalkOK, WalkOnList
  <2>2. \A f \in Listed' : evt'[f].timeout = 0 => f \in Listed /\ evt[f].timeout = 0
    BY <1>0, <1>1, <1>3, <1>5
  <2> QED BY <2>1, <2>2, CallKeepsWalk
<1>7. /\ walk'.pc = walk.pc /\ walk'.cur = walk.cur /\ walk'.ending = walk.ending
  BY <1>0, CallStays
<1>8. HandlesExact'
  BY <1>0, <1>4, <1>5, <1>7, Constants DEF HandlesExact
<1> QED BY <1>0, <1>3, <1>5, <1>6, <1>8 DEF TimerIInv, TimerTypeOK, WalkType

\* Whatever a user calls.
LEMMA UserSteps ==
  ASSUME TimerAssumption, TimerIInv, UserCall
  PROVE  TimerIInv'
<1>0. /\ TimerTypeOK /\ PoolMatchesList /\ CallbacksOK /\ HandlesExact /\ IsInjective(list)
      /\ evt \in [Evts -> Timer] /\ WalkOK /\ Listed \subseteq Evts /\ NULL \notin Listed
  BY Places DEF TimerIInv, PoolMatchesList, TimerTypeOK
<1>1. ASSUME NEW u \in PoolUser, Cancel(u) PROVE TimerIInv'
  <2> DEFINE e == handle[u]
  <2>1. e \in Slots
    BY <1>0, <1>1 DEF Cancel, TimerTypeOK
  <2>2. e \in Listed /\ evt[e].cb = u /\ ~(walk.pc = "call" /\ walk.ending /\ walk.cur = e)
    BY <1>0, <2>1 DEF HandlesExact
  <2>3. evt[e].used
    BY <1>0, <2>1, <2>2 DEF PoolMatchesList
  <2>4. /\ MayCall(u) /\ Called /\ UNCHANGED clock
        /\ Unon(e) /\ handle' = [handle EXCEPT ![u] = NULL]
    BY <1>1, <2>3 DEF Cancel
  <2>5. walk.cur # e
    BY <1>0, <1>1, <2>2, <2>4 DEF MayCall, Inside, WalkOK
  <2> HIDE DEF e
  <2> QED BY <2>1, <2>2, <2>4, <2>5, OffStep, Constants DEF e
<1>2. ASSUME NEW u \in PoolUser, NEW p \in Period, Rearm(u, p) PROVE TimerIInv'
  BY <1>2, RetimeStep DEF Rearm
<1>3. ASSUME NEW u \in StaticUser, StaticOff(u) PROVE TimerIInv'
  <2>1. MayCall(u) /\ Unon(u) /\ Called /\ UNCHANGED <<handle, clock>> /\ u \in User
    BY <1>3, Constants DEF StaticOff
  <2>2. CASE u \in Listed
    <3>1. evt[u].cb = u
      BY <1>0 DEF CallbacksOK
    <3>2. walk.cur # u
      BY <1>0, <2>1, <2>2, <3>1, Constants DEF MayCall, Inside, WalkOK
    <3> QED BY <2>1, <2>2, <3>2, OffStep
  <2>3. CASE u \notin Listed
    <3>1. UNCHANGED <<list, evt, usedNum>> /\ Listed' = Listed
      BY <2>1, <2>3 DEF Unon, Listed
    <3>2. WalkOK' /\ DueAhead' /\ walk' \in WalkType
      BY <1>0, <2>1, <3>1, CallKeepsWalk DEF WalkOK, WalkOnList
    <3>3. /\ walk'.pc = walk.pc /\ walk'.cur = walk.cur /\ walk'.ending = walk.ending
      BY <1>0, <2>1, CallStays
    <3>4. HandlesExact' /\ PoolMatchesList' /\ CallbacksOK'
      BY <1>0, <2>1, <3>1, <3>3 DEF HandlesExact, PoolMatchesList, CallbacksOK
    <3> QED BY <1>0, <2>1, <3>1, <3>2, <3>4 DEF TimerIInv, TimerTypeOK, WalkType
  <2> QED BY <2>2, <2>3
<1>4. ASSUME NEW u \in StaticUser, NEW p \in Period, StaticOn(u, p) PROVE TimerIInv'
  <2>1. MayCall(u) /\ Called /\ UNCHANGED <<usedNum, handle, clock>> /\ u \in Evts
    BY <1>4, Constants DEF StaticOn
  <2>2. CASE u \in Listed
    BY <1>4, <2>1, <2>2, RetimeStep DEF StaticOn
  <2>3. CASE u \notin Listed
    <3> DEFINE t == Armed(evt[u], p)
    <3>1. evt' = [evt EXCEPT ![u] = t] /\ list' = <<u>> \o list
      BY <1>0, <1>4, <2>1, <2>3 DEF StaticOn
    <3>2. t \in Timer /\ ~t.used /\ t.cb = u /\ t.timeout = p /\ p > 0
      BY <1>0, <2>1, TimerFields, Constants DEF CallbacksOK
    <3> HIDE DEF t
    <3>3. /\ list' \in Seq(Evts) /\ evt' \in [Evts -> Timer] /\ usedNum' \in 0..SlotNum
          /\ PoolMatchesList' /\ CallbacksOK' /\ Listed' = Listed \cup {u}
          /\ evt'[u] = t /\ \A f \in Evts : f # u => evt'[f] = evt[f]
          /\ \A a, b : Upto(list, a, b) => Upto(list', a, b)
      BY <1>0, <2>1, <2>3, <3>1, <3>2, ArmUnlisted
    <3>4. WalkOK' /\ DueAhead' /\ walk' \in WalkType
      <4>1. walk.cur # NULL => walk.cur \in Listed'
        BY <1>0, <3>3 DEF WalkOK, WalkOnList
      <4>2. \A f \in Listed' : evt'[f].timeout = 0 => f \in Listed /\ evt[f].timeout = 0
        BY <1>0, <3>2, <3>3
      <4> QED BY <2>1, <3>3, <4>1, <4>2, CallKeepsWalk
    <3>5. /\ walk'.pc = walk.pc /\ walk'.cur = walk.cur /\ walk'.ending = walk.ending
      BY <1>0, <2>1, CallStays
    <3>6. \A f \in Slots : f # u /\ f \in Evts
      BY Constants
    <3>7. HandlesExact'
      BY <1>0, <2>1, <3>3, <3>5, <3>6 DEF HandlesExact
    <3> QED BY <1>0, <2>1, <3>3, <3>4, <3>7 DEF TimerIInv, TimerTypeOK, WalkType
  <2> QED BY <2>2, <2>3
<1> QED BY <1>1, <1>2, <1>3, <1>4, PostStep DEF UserCall

\* The tick counter.
LEMMA TickStep ==
  ASSUME TimerAssumption, TimerIInv, TimerTick
  PROVE  TimerIInv'
<1>0. /\ TimerTypeOK /\ HandlesExact /\ evt \in [Evts -> Timer] /\ WalkOK /\ IsInjective(list)
      /\ Listed \subseteq Evts
  BY Places DEF TimerIInv, PoolMatchesList, TimerTypeOK
<1>1. /\ UNCHANGED <<list, usedNum, handle, walk>>
      /\ clock' = [clock EXCEPT !.since = @ + 1] /\ clock.since < MaxBlock
  BY DEF TimerTick
<1>2. ASSUME NEW e \in Evts
      PROVE  /\ evt'[e] \in Timer /\ evt'[e].cb = evt[e].cb /\ evt'[e].used = evt[e].used
             /\ evt'[e].timeout = evt[e].timeout
  <2>1. evt[e] \in Timer /\ MaxAge \in Nat
    BY <1>0, Constants
  <2>2. \A a, r \in Nat : LET t == [evt[e] EXCEPT !.age = a, !.reg = r] IN
          t \in Timer /\ t.cb = evt[e].cb /\ t.used = evt[e].used /\ t.timeout = evt[e].timeout
    BY <2>1 DEF Timer
  <2> DEFINE a == IF evt[e].age < MaxAge THEN evt[e].age + 1 ELSE evt[e].age
             r == IF evt[e].isRunning THEN evt[e].reg ELSE evt[e].reg + 1
  <2>3. a \in Nat /\ r \in Nat
    BY <2>1 DEF Timer
  <2>4. evt'[e] = IF e \in Listed THEN [evt[e] EXCEPT !.age = a, !.reg = r] ELSE evt[e]
    BY DEF TimerTick
  <2> HIDE DEF a, r
  <2>5. LET t == [evt[e] EXCEPT !.age = a, !.reg = r] IN
          t \in Timer /\ t.cb = evt[e].cb /\ t.used = evt[e].used /\ t.timeout = evt[e].timeout
    BY <2>2, <2>3
  <2>6. CASE e \in Listed
    BY <2>4, <2>5, <2>6
  <2>7. CASE e \notin Listed
    BY <2>1, <2>4, <2>7
  <2> QED BY <2>6, <2>7
<1>3. evt' \in [Evts -> Timer]
  <2>1. evt' = [e \in Evts |-> evt'[e]]
    BY DEF TimerTick
  <2> QED BY <1>2, <2>1
<1>4. /\ PoolMatchesList' /\ CallbacksOK' /\ Listed' = Listed
      /\ list' \in Seq(Evts) /\ usedNum' \in 0..SlotNum
  BY <1>1, <1>2, <1>3, FieldsOnly
<1>5. HandlesExact'
  BY <1>0, <1>1, <1>2, <1>4, Constants DEF HandlesExact
<1>6. WalkOK' /\ DueAhead'
  BY <1>0, <1>1, <1>2, <1>4 DEF TimerIInv, WalkOK, WalkOnList, DueAhead
<1>7. clock' \in [since : 0..MaxBlock, rem : 0..(Tpm - 1)]
  BY <1>0, <1>1, Constants DEF TimerTypeOK
<1> QED BY <1>0, <1>1, <1>3, <1>4, <1>5, <1>6, <1>7 DEF TimerIInv, TimerTypeOK

\* ev_timer_process: every timer is updated, and the walk begins at the head.
LEMMA ProcessStep ==
  ASSUME TimerAssumption, TimerIInv, Process
  PROVE  TimerIInv'
<1>0. /\ TimerTypeOK /\ HandlesExact /\ evt \in [Evts -> Timer] /\ WalkOK /\ IsInjective(list)
      /\ Listed \subseteq Evts /\ NULL \notin Listed /\ walk \in WalkType /\ list \in Seq(Evts)
  BY Places DEF TimerIInv, PoolMatchesList, TimerTypeOK, WalkType
<1>1. /\ UNCHANGED <<list, usedNum, handle>> /\ walk.pc = "main"
      /\ clock' = [since |-> 0, rem |-> NewRem]
  BY DEF Process
<1>2. UpdateTime \in Nat /\ NewRem \in 0..(Tpm - 1)
  <2>1. clock.since \in Nat /\ clock.rem \in Nat
    BY <1>0, Constants DEF TimerTypeOK
  <2>2. Tpm \in Nat \ {0}
    BY Constants
  <2>3. clock.since \div Tpm \in Nat /\ clock.since % Tpm \in 0..(Tpm - 1)
    BY <2>1, <2>2, DivMod
  <2> DEFINE r == clock.rem + (clock.since % Tpm)
  <2>4. r \in Nat
    BY <2>1, <2>2, <2>3
  <2> HIDE DEF r
  <2>5. r \div Tpm \in Nat /\ r % Tpm \in 0..(Tpm - 1)
    BY <2>2, <2>4, DivMod
  <2> QED BY <2>3, <2>5 DEF UpdateTime, NewRem, r
<1>3. clock' \in [since : 0..MaxBlock, rem : 0..(Tpm - 1)]
  BY <1>1, <1>2, Constants
<1>4. CASE UpdateTime > 0
  <2>1. /\ evt' = [e \in Evts |-> IF e \in Listed THEN Updated(evt[e]) ELSE evt[e]]
        /\ walk' = [walk EXCEPT !.pc = "walk", !.cur = HeadOf(list), !.head = HeadOf(list)]
    BY <1>4 DEF Process
  <2>2. ASSUME NEW e \in Evts
        PROVE  evt'[e] \in Timer /\ evt'[e].cb = evt[e].cb /\ evt'[e].used = evt[e].used
    <3>1. evt[e] \in Timer
      BY <1>0
    <3>2. Elapsed(evt[e]) \in Nat
      <4>1. evt[e].reg \div Tpm \in Nat
        BY <3>1, Constants, DivMod DEF Timer
      <4> QED BY <1>2, <4>1 DEF Elapsed
    <3>3. (IF evt[e].timeout > Elapsed(evt[e]) THEN evt[e].timeout - Elapsed(evt[e]) ELSE 0) \in Nat
      BY <3>1, <3>2 DEF Timer
    <3>4. \A n \in Nat : LET t == [evt[e] EXCEPT !.timeout = n, !.isRunning = TRUE, !.reg = 0] IN
            t \in Timer /\ t.cb = evt[e].cb /\ t.used = evt[e].used
      BY <3>1 DEF Timer
    <3> QED BY <2>1, <3>1, <3>3, <3>4 DEF Updated
  <2>3. evt' \in [Evts -> Timer]
    <3>1. evt' = [e \in Evts |-> evt'[e]]
      BY <2>1
    <3> QED BY <2>2, <3>1
  <2>4. /\ PoolMatchesList' /\ CallbacksOK' /\ Listed' = Listed
        /\ list' \in Seq(Evts) /\ usedNum' \in 0..SlotNum
    BY <1>1, <2>2, <2>3, FieldsOnly
  <2>5. /\ HeadOf(list) \in Listed \cup {NULL}
        /\ \A y \in Listed : Upto(list, HeadOf(list), y)
    BY <1>0, HeadFirst DEF Listed
  <2>6. walk' \in WalkType /\ walk'.pc = "walk" /\ walk'.cur = HeadOf(list)
    BY <1>0, <2>1, <2>5 DEF WalkType
  <2>7. WalkOK' /\ DueAhead'
    BY <1>1, <2>4, <2>5, <2>6 DEF WalkOK, WalkOnList, DueAhead
  <2>8. HandlesExact'
    BY <1>0, <1>1, <2>2, <2>4, <2>6, Constants DEF HandlesExact
  <2> QED BY <1>0, <1>1, <1>3, <2>3, <2>4, <2>6, <2>7, <2>8 DEF TimerIInv, TimerTypeOK, WalkType
<1>5. CASE ~(UpdateTime > 0)
  <2>1. UNCHANGED <<evt, walk>>
    BY <1>5 DEF Process
  <2>2. Listed' = Listed
    BY <1>1 DEF Listed
  <2>3. HandlesExact' /\ PoolMatchesList' /\ CallbacksOK' /\ WalkOK' /\ DueAhead'
    BY <1>1, <2>1, <2>2
       DEF TimerIInv, HandlesExact, PoolMatchesList, CallbacksOK, WalkOK, WalkOnList, DueAhead
  <2> QED BY <1>0, <1>1, <1>3, <2>1, <2>3 DEF TimerIInv, TimerTypeOK
<1> QED BY <1>4, <1>5

\* The walk steps over a timer, ends, or enters a callback.
LEMMA WalkStep ==
  ASSUME TimerAssumption, TimerIInv, Skip \/ Finish \/ \E b \in BOOLEAN : Fire(b)
  PROVE  TimerIInv'
<1>0. /\ TimerTypeOK /\ PoolMatchesList /\ CallbacksOK /\ HandlesExact /\ IsInjective(list)
      /\ evt \in [Evts -> Timer] /\ WalkOK /\ Listed \subseteq Evts /\ NULL \notin Listed
      /\ walk \in WalkType /\ DueAhead /\ MaxOps \in Nat
  BY Places, Constants DEF TimerIInv, PoolMatchesList, TimerTypeOK, WalkType
<1>1. UNCHANGED <<list, evt, usedNum, clock>> /\ walk.pc = "walk"
  BY DEF Skip, Finish, Fire
<1>2. Listed' = Listed
  BY <1>1 DEF Listed
<1>3. PoolMatchesList' /\ CallbacksOK'
  BY <1>0, <1>1, <1>2 DEF PoolMatchesList, CallbacksOK
<1>4. CASE Skip
  <2>1. /\ walk.cur \in Listed /\ evt[walk.cur].timeout > 0 /\ UNCHANGED handle
        /\ walk' = [walk EXCEPT !.cur = NextOf(walk.cur)]
    BY <1>0, <1>4 DEF Skip, WalkOK, WalkOnList
  <2>2. /\ NextOf(walk.cur) \in (Listed \ {walk.cur}) \cup {NULL}
        /\ \A y : Upto(list, walk.cur, y) /\ y # walk.cur => Upto(list, NextOf(walk.cur), y)
    BY <1>0, <2>1, NextFirst
  <2>3. walk' \in WalkType /\ walk'.pc = "walk" /\ walk'.cur = NextOf(walk.cur)
    BY <1>0, <1>1, <2>1, <2>2 DEF WalkType
  <2>4. WalkOK'
    BY <1>2, <2>2, <2>3 DEF WalkOK, WalkOnList
  <2>5. DueAhead'
    <3> SUFFICES ASSUME NEW e \in Listed, evt[e].timeout = 0
                 PROVE  Upto(list, NextOf(walk.cur), e)
      BY <1>1, <1>2, <2>3 DEF DueAhead
    <3>1. Upto(list, walk.cur, e)
      BY <1>0 DEF DueAhead
    <3>2. e # walk.cur
      BY <2>1
    <3> QED BY <2>2, <3>1, <3>2
  <2>6. HandlesExact'
    BY <1>0, <1>1, <1>2, <2>1, <2>3 DEF HandlesExact
  <2> QED BY <1>0, <1>1, <1>3, <2>1, <2>3, <2>4, <2>5, <2>6 DEF TimerIInv, TimerTypeOK, WalkType
<1>5. CASE Finish
  <2>1. walk.cur = NULL /\ walk' = InMain /\ UNCHANGED handle
    BY <1>5 DEF Finish
  <2>2. walk' \in WalkType /\ walk'.pc = "main" /\ walk'.cur = NULL
    BY <1>0, <2>1 DEF InMain, WalkType
  <2>3. WalkOK' /\ DueAhead' /\ HandlesExact'
    BY <1>0, <1>1, <1>2, <2>1, <2>2 DEF WalkOK, WalkOnList, DueAhead, HandlesExact
  <2> QED BY <1>0, <1>1, <1>3, <2>1, <2>2, <2>3 DEF TimerIInv, TimerTypeOK, WalkType
<1>6. ASSUME NEW b \in BOOLEAN, Fire(b) PROVE TimerIInv'
  <2> DEFINE e == walk.cur
             u == evt[e].cb
  <2>1. /\ e \in Listed /\ e # NULL
        /\ walk' = [walk EXCEPT !.pc = "call", !.ending = b]
        /\ handle' = IF b THEN Forgotten(u) ELSE handle
    BY <1>0, <1>6 DEF Fire, WalkOK, WalkOnList
  <2>2. walk' \in WalkType /\ walk'.pc = "call" /\ walk'.cur = e /\ walk'.ending = b
    BY <1>0, <2>1 DEF WalkType
  <2>3. handle' \in [PoolUser -> Slots \cup {NULL}]
    BY <1>0, <2>1 DEF TimerTypeOK, Forgotten
  <2>4. \A v \in PoolUser : handle'[v] = IF b /\ v = u THEN NULL ELSE handle[v]
    BY <1>0, <2>1 DEF TimerTypeOK, Forgotten
  <2>5. e \in Slots \/ (e \in StaticUser /\ u = e)
    <3>1. e \in Evts /\ \A f \in StaticUser : evt[f].cb = f
      BY <1>0, <2>1 DEF CallbacksOK
    <3> HIDE DEF e
    <3> QED BY <3>1 DEF Evts
  <2> HIDE DEF e, u
  <2>6. HandlesExact'
    <3> SUFFICES ASSUME NEW v \in PoolUser, NEW f \in Slots
                 PROVE  (handle'[v] = f) <=> f \in Listed /\ evt[f].cb = v /\ ~(b /\ e = f)
      BY <1>1, <1>2, <2>2 DEF HandlesExact
    <3>1. \A g \in Slots : (handle[v] = g) <=> g \in Listed /\ evt[g].cb = v
      BY <1>0, <1>1 DEF HandlesExact
    <3>2. CASE b /\ v = u
      <4>1. e \in Slots /\ handle[v] = e
        BY <2>1, <2>5, <3>1, <3>2, Constants DEF u
      <4>2. handle'[v] # f
        BY <2>4, <3>2, Constants
      <4> QED BY <3>1, <3>2, <4>1, <4>2
    <3>3. CASE ~(b /\ v = u)
      <4>1. handle'[v] = handle[v]
        BY <2>4, <3>3
      <4> QED BY <3>1, <3>3, <4>1 DEF u
    <3> QED BY <3>2, <3>3
  <2>7. WalkOK' /\ DueAhead'
    BY <1>0, <1>1, <1>2, <2>1, <2>2 DEF WalkOK, WalkOnList, DueAhead, e
  <2> QED BY <1>0, <1>1, <1>3, <2>2, <2>3, <2>6, <2>7 DEF TimerIInv, TimerTypeOK, WalkType
<1> QED BY <1>4, <1>5, <1>6

\* A callback stops its timer: the walk goes on behind it, or at the new head.
LEMMA ReturnStopStep ==
  ASSUME TimerAssumption, TimerIInv, ReturnStop
  PROVE  TimerIInv'
<1> DEFINE e == walk.cur
           u == evt[e].cb
           n == NextOf(e)
<1>0. /\ TimerTypeOK /\ PoolMatchesList /\ CallbacksOK /\ HandlesExact /\ IsInjective(list)
      /\ evt \in [Evts -> Timer] /\ WalkOK /\ Listed \subseteq Evts /\ NULL \notin Listed
      /\ walk \in WalkType /\ DueAhead
  BY Places DEF TimerIInv, PoolMatchesList, TimerTypeOK, WalkType
<1>1. /\ walk.pc = "call" /\ e \in Listed /\ UNCHANGED clock
      /\ handle' = IF walk.ending THEN handle ELSE Forgotten(u)
      /\ Unon(e) /\ Resume(n)
  BY <1>0 DEF ReturnStop, WalkOK, WalkOnList
<1>2. n \in (Listed \ {e}) \cup {NULL} /\ \A y : Upto(list, e, y) /\ y # e => Upto(list, n, y)
  BY <1>0, <1>1, NextFirst
<1> HIDE DEF e, u, n
<1>3. /\ list' \in Seq(Evts) /\ evt' \in [Evts -> Timer] /\ usedNum' \in 0..SlotNum
      /\ PoolMatchesList' /\ CallbacksOK' /\ Listed' = Listed \ {e}
      /\ \A f \in Evts : /\ evt'[f].cb = evt[f].cb
                         /\ f # e => evt'[f] = evt[f]
      /\ \A x, y : x # e /\ y # e /\ Upto(list, x, y) => Upto(list', x, y)
  BY <1>0, <1>1, UnonListed
<1>4. /\ HeadOf(list') \in Listed' \cup {NULL}
      /\ \A y \in Listed' : Upto(list', HeadOf(list'), y)
  BY <1>3, HeadFirst DEF Listed
<1>5. /\ walk'.cur \in {HeadOf(list'), n} /\ walk'.pc = "walk" /\ walk' \in WalkType
  BY <1>0, <1>1, <1>2, <1>3, <1>4 DEF Resume, WalkType
<1>6. WalkOK'
  BY <1>2, <1>3, <1>4, <1>5 DEF WalkOK, WalkOnList
<1>7. DueAhead'
  <2> SUFFICES ASSUME NEW f \in Listed', evt'[f].timeout = 0
               PROVE  Upto(list', walk'.cur, f)
    BY DEF DueAhead
  <2>1. f \in Listed /\ f # e /\ evt[f].timeout = 0
    BY <1>0, <1>3
  <2>2. Upto(list, n, f) /\ n # e
    <3>1. Upto(list, e, f)
      BY <1>0, <2>1 DEF DueAhead, e
    <3>2. e # NULL
      BY <1>0, <1>1
    <3> QED BY <1>2, <2>1, <3>1, <3>2
  <2>3. Upto(list', n, f)
    BY <1>3, <2>1, <2>2
  <2> QED BY <1>4, <1>5, <2>3
<1>8. \A v \in PoolUser : handle'[v] = IF ~walk.ending /\ v = u THEN NULL ELSE handle[v]
  BY <1>0, <1>1 DEF TimerTypeOK, Forgotten
<1>9. handle' \in [PoolUser -> Slots \cup {NULL}]
  BY <1>0, <1>1 DEF TimerTypeOK, Forgotten
<1>10. HandlesExact'
  <2> SUFFICES ASSUME NEW v \in PoolUser, NEW f \in Slots
               PROVE  (handle'[v] = f) <=> f \in Listed' /\ evt[f].cb = v
    BY <1>3, <1>5, Constants DEF HandlesExact
  <2>1. \A g \in Slots : (handle[v] = g) <=> g \in Listed /\ evt[g].cb = v /\ ~(walk.ending /\ e = g)
    BY <1>0, <1>1 DEF HandlesExact, e
  <2>2. f # NULL /\ (e \in Slots \/ e \in StaticUser)
    BY <1>0, <1>1, Constants DEF Evts
  <2>3. CASE ~walk.ending /\ v = u
    <3>1. e \in Slots
      <4>1. \A s \in StaticUser : evt[s].cb = s /\ s \notin PoolUser
        BY <1>0, Constants DEF CallbacksOK
      <4> QED BY <2>2, <2>3, <4>1 DEF u
    <3>2. handle[v] = e
      BY <1>1, <2>1, <2>3, <3>1 DEF u
    <3> QED BY <1>3, <1>8, <2>1, <2>2, <2>3, <3>2
  <2>4. CASE ~(~walk.ending /\ v = u)
    <3>1. handle'[v] = handle[v]
      BY <1>8, <2>4
    <3> QED BY <1>1, <1>3, <2>1, <2>4, <3>1 DEF u
  <2> QED BY <2>3, <2>4
<1> QED BY <1>0, <1>1, <1>3, <1>5, <1>6, <1>7, <1>9, <1>10 DEF TimerIInv, TimerTypeOK, WalkType

\* A callback keeps its timer, which has its whole period before it again.
LEMMA ReturnAgainStep ==
  ASSUME TimerAssumption, TimerIInv, NEW p \in Period, ReturnAgain(p)
  PROVE  TimerIInv'
<1> DEFINE e == walk.cur
           n == NextOf(e)
           t == [evt[e] EXCEPT !.period = p, !.timeout = p, !.age = clock.since]
<1>0. /\ TimerTypeOK /\ HandlesExact /\ IsInjective(list) /\ list \in Seq(Evts)
      /\ evt \in [Evts -> Timer] /\ WalkOK /\ Listed \subseteq Evts /\ NULL \notin Listed
      /\ walk \in WalkType /\ DueAhead /\ clock.since \in Nat /\ p \in Nat /\ p > 0
  BY Places, Constants DEF TimerIInv, PoolMatchesList, TimerTypeOK, WalkType
<1>1. /\ walk.pc = "call" /\ ~walk.ending /\ e \in Listed /\ Resume(n)
      /\ UNCHANGED <<list, usedNum, handle, clock>>
  BY <1>0 DEF ReturnAgain, WalkOK, WalkOnList
<1>2. evt' = [evt EXCEPT ![e] = t]
  BY <1>0, <1>1 DEF ReturnAgain
<1>3. t \in Timer /\ t.cb = evt[e].cb /\ t.used = evt[e].used /\ t.timeout = p
  <2>1. evt[e] \in Timer
    BY <1>0, <1>1
  <2> QED BY <1>0, <2>1 DEF Timer
<1>4. n \in (Listed \ {e}) \cup {NULL} /\ \A y : Upto(list, e, y) /\ y # e => Upto(list, n, y)
  BY <1>0, <1>1, NextFirst
<1> HIDE DEF e, n, t
<1>5. evt' \in [Evts -> Timer] /\ evt'[e] = t /\ \A f \in Evts : f # e => evt'[f] = evt[f]
  BY <1>0, <1>1, <1>2, <1>3
<1>6. \A f \in Evts : evt'[f].cb = evt[f].cb /\ evt'[f].used = evt[f].used
  BY <1>3, <1>5
<1>7. /\ PoolMatchesList' /\ CallbacksOK' /\ Listed' = Listed
      /\ list' \in Seq(Evts) /\ usedNum' \in 0..SlotNum
  BY <1>1, <1>5, <1>6, FieldsOnly
<1>8. /\ HeadOf(list) \in Listed \cup {NULL}
      /\ \A y \in Listed : Upto(list, HeadOf(list), y)
  BY <1>0, HeadFirst DEF Listed
<1>9. /\ walk'.cur \in {HeadOf(list), n} /\ walk'.pc = "walk" /\ walk' \in WalkType
  BY <1>0, <1>1, <1>4, <1>8 DEF Resume, WalkType
<1>10. WalkOK'
  BY <1>4, <1>7, <1>8, <1>9 DEF WalkOK, WalkOnList
<1>11. DueAhead'
  <2> SUFFICES ASSUME NEW f \in Listed, evt'[f].timeout = 0
               PROVE  Upto(list, walk'.cur, f)
    BY <1>1, <1>7 DEF DueAhead
  <2>1. f # e /\ evt[f].timeout = 0
    BY <1>0, <1>3, <1>5
  <2>2. Upto(list, e, f)
    BY <1>0, <2>1 DEF DueAhead, e
  <2> QED BY <1>4, <1>8, <1>9, <2>1, <2>2
<1>12. HandlesExact'
  BY <1>0, <1>1, <1>6, <1>7, <1>9, Constants DEF HandlesExact
<1> QED BY <1>0, <1>1, <1>5, <1>7, <1>9, <1>10, <1>11, <1>12 DEF TimerIInv, TimerTypeOK, WalkType

-----------------------------------------------------------------------------
(* The theorems *)

\* At the start no timer is armed.
LEMMA TimersStart ==
  ASSUME TimerAssumption, TimerInit
  PROVE  TimerIInv
<1>1. /\ Listed = {} /\ list = <<>> /\ list \in Seq(Evts)
  BY DEF TimerInit, Listed, Range
<1>2. Blank \in Timer
  BY DEF Blank, Timer
<1>3. \A e \in Evts : /\ evt[e] = IF e \in StaticUser THEN [Blank EXCEPT !.cb = e] ELSE Blank
                      /\ evt[e] \in Timer /\ ~evt[e].used
  <2> SUFFICES ASSUME NEW e \in Evts
               PROVE  /\ evt[e] = IF e \in StaticUser THEN [Blank EXCEPT !.cb = e] ELSE Blank
                      /\ evt[e] \in Timer /\ ~evt[e].used
    OBVIOUS
  <2>1. evt[e] = IF e \in StaticUser THEN [Blank EXCEPT !.cb = e] ELSE Blank
    BY DEF TimerInit
  <2>2. e \in StaticUser => e \in User
    BY Constants
  <2>3. \A c \in User \cup {NULL} : [Blank EXCEPT !.cb = c] \in Timer /\ ~[Blank EXCEPT !.cb = c].used
    BY DEF Blank, Timer
  <2>4. ~Blank.used
    BY DEF Blank
  <2> QED BY <1>2, <2>1, <2>2, <2>3, <2>4
<1>4. evt \in [Evts -> Timer]
  <2>1. evt = [e \in Evts |-> evt[e]]
    BY DEF TimerInit
  <2> QED BY <1>3, <2>1
<1>5. /\ usedNum = 0 /\ usedNum \in 0..SlotNum
      /\ clock \in [since : 0..MaxBlock, rem : 0..(Tpm - 1)]
      /\ handle \in [PoolUser -> Slots \cup {NULL}] /\ \A u \in PoolUser : handle[u] = NULL
  BY Constants DEF TimerInit
<1>6. walk = InMain /\ walk \in WalkType
  BY Constants DEF TimerInit, InMain, WalkType
<1>7. PoolMatchesList
  <2>1. {e \in Slots : evt[e].used} = {}
    BY <1>3, Constants
  <2>2. IsInjective(list)
    BY <1>1 DEF IsInjective
  <2> QED BY <1>1, <1>5, <2>1, <2>2, FS_EmptySet DEF PoolMatchesList
<1>8. CallbacksOK
  <2>1. ASSUME NEW s \in StaticUser PROVE evt[s].cb = s /\ ~evt[s].used
    BY <1>3, Constants DEF Blank
  <2> QED BY <1>1, <2>1 DEF CallbacksOK
<1>9. HandlesExact /\ DueAhead /\ WalkOK
  BY <1>1, <1>5, <1>6, Constants DEF HandlesExact, DueAhead, WalkOK, WalkOnList, InMain
<1> QED BY <1>1, <1>4, <1>5, <1>6, <1>7, <1>8, <1>9 DEF TimerIInv, TimerTypeOK, WalkType

\* The order on the list and everything it rests on hold in every state.
THEOREM TimerInvariant ==
  ASSUME TimerAssumption
  PROVE  TimerSpec => []TimerIInv
<1>1. TimerInit => TimerIInv
  BY TimersStart
<1>2. TimerIInv /\ [TimerNext]_timerVars => TimerIInv'
  <2> SUFFICES ASSUME TimerIInv, [TimerNext]_timerVars PROVE TimerIInv'
    OBVIOUS
  <2>1. CASE TimerTick
    BY <2>1, TickStep
  <2>2. CASE UserCall
    BY <2>2, UserSteps
  <2>3. CASE Pass
    <3>1. CASE Process
      BY <3>1, ProcessStep
    <3>2. CASE Skip \/ Finish \/ \E b \in BOOLEAN : Fire(b)
      BY <3>2, WalkStep
    <3>3. CASE ReturnStop
      BY <3>3, ReturnStopStep
    <3>4. CASE \E p \in Period : ReturnAgain(p)
      BY <3>4, ReturnAgainStep
    <3> QED BY <2>3, <3>1, <3>2, <3>3, <3>4 DEF Pass
  <2>4. CASE UNCHANGED timerVars
    BY <2>4 DEF timerVars, TimerIInv, TimerTypeOK, PoolMatchesList, CallbacksOK, WalkOK, WalkOnList,
                HandlesExact, DueAhead, Listed
  <2> QED BY <2>1, <2>2, <2>3, <2>4 DEF TimerNext
<1> QED BY <1>1, <1>2, PTL DEF TimerSpec

\* The list, the pool's used flags, used_num and the users' handles always
\* tell the same of which timers are armed and whose they are, however many
\* posts, cancels and callbacks there have been; ev_timer_executeCB only ever
\* stands on an armed timer.
THEOREM TimersAgree ==
  ASSUME TimerAssumption
  PROVE  TimerSpec => []TimersConsistent
<1>1. TimerIInv => TimersConsistent
  BY DEF TimerIInv, WalkOK, TimersConsistent
<1> QED BY <1>1, TimerInvariant, PTL

\* When ev_timer_process returns, the callback of every timer that was due has
\* been called, whatever callbacks did to the list meanwhile.
THEOREM NoDueTimerMissed ==
  ASSUME TimerAssumption
  PROVE  TimerSpec => []AllDueServed
<1>1. TimerIInv => AllDueServed
  <2> SUFFICES ASSUME TimerIInv, walk.pc = "main", NEW e \in Listed PROVE evt[e].timeout > 0
    BY DEF AllDueServed
  <2>1. walk.cur = NULL
    BY DEF TimerIInv, WalkOK
  <2>2. evt[e].timeout \in Nat /\ NULL \notin Listed /\ \A x, y : Upto(list, x, y) => x \in Listed
    <3>1. evt \in [Evts -> Timer] /\ TimerTypeOK /\ IsInjective(list)
      BY DEF TimerIInv, TimerTypeOK, PoolMatchesList
    <3>2. e \in Evts /\ NULL \notin Listed /\ \A x, y : Upto(list, x, y) => x \in Listed
      BY <3>1, Places
    <3> QED BY <3>1, <3>2 DEF Timer
  <2>3. evt[e].timeout # 0
    BY <2>1, <2>2 DEF TimerIInv, DueAhead
  <2> QED BY <2>2, <2>3
<1> QED BY <1>1, TimerInvariant, PTL

-----------------------------------------------------------------------------
(* Time *)

\* What is known of an armed timer, s ticks after a pass that left a remainder
\* r: before its first pass its ticks are those since it was put on the list;
\* then what was counted off it is what it has run, but for less than a
\* millisecond, when the remainder is added.  A timer that was re-armed while it
\* was on the list may have been charged more, and so runs out early.
TimeOf(t, s, r) ==
  /\ t.period \in Period
  /\ ~t.isRunning => /\ t.timeout = t.period /\ t.age <= t.reg /\ t.reg <= r + s
                     /\ t.exact => t.age = t.reg
  /\ t.isRunning /\ t.timeout > 0 =>
       /\ t.timeout <= t.period
       /\ -Tpm < (t.period - t.timeout) * Tpm - (t.age - s) + r
       /\ t.exact => (t.period - t.timeout) * Tpm - (t.age - s) + r < Tpm
  /\ t.isRunning /\ t.timeout = 0 =>
       /\ t.exact => (t.period - 1) * Tpm < t.age
       /\ t.age < (t.period + 1) * Tpm + MaxBlock + s

\* the timers on the list are what is known of them, one that is off the list
\* does not run, and a callback runs of a timer that is due
TimeInv ==
  /\ \A e \in Listed : TimeOf(evt[e], clock.since, clock.rem)
  /\ \A e \in Evts \ Listed : ~evt[e].isRunning
  /\ walk.pc = "call" => evt[walk.cur].timeout = 0

\* Products with a number of ticks.
LEMMA Products ==
  ASSUME NEW T \in Nat \ {0}, NEW a \in Int, NEW b \in Int
  PROVE  /\ (a + b) * T = a * T + b * T /\ (a - b) * T = a * T - b * T
         /\ a * T \in Int
         /\ 0 * T = 0 /\ 1 * T = T
         /\ a <= b => a * T <= b * T
         /\ a >= 0 => a * T >= 0
OBVIOUS

\* Quotient and remainder.
LEMMA Quotient ==
  ASSUME NEW a \in Nat, NEW b \in Nat \ {0}
  PROVE  /\ a \div b \in Nat /\ a % b \in 0..(b - 1)
         /\ a % b = a - (a \div b) * b
<1>1. a % b = a - (a \div b) * b
  BY SMTT(60)
<1>2. a \div b \in Nat /\ a % b \in 0..(b - 1)
  BY DivMod
<1> QED BY <1>1, <1>2

\* ev_timer_process loses no tick: the milliseconds it counts and the remainder
\* it keeps are the ticks and the remainder before.
LEMMA NoTickLost ==
  ASSUME TimerAssumption, TimerTypeOK
  PROVE  /\ UpdateTime \in Nat /\ NewRem \in 0..(Tpm - 1)
         /\ UpdateTime * Tpm + NewRem = clock.rem + clock.since
<1>1. clock.since \in Nat /\ clock.rem \in Nat /\ Tpm \in Nat \ {0}
  BY Constants DEF TimerTypeOK
<1> DEFINE s == clock.since
           q == s \div Tpm
           m == s % Tpm
           r == clock.rem + m
           k == r \div Tpm
           n == r % Tpm
<1>2. q \in Nat /\ m \in 0..(Tpm - 1) /\ m = s - q * Tpm
  BY <1>1, Quotient
<1>3. r \in Nat
  BY <1>1, <1>2
<1>4. UpdateTime = q + k /\ NewRem = n
  BY DEF UpdateTime, NewRem
<1> HIDE DEF r
<1>5. k \in Nat /\ n \in 0..(Tpm - 1) /\ n = r - k * Tpm
  BY <1>1, <1>3, Quotient
<1> HIDE DEF q, m, k, n, s
<1>6. (q + k) * Tpm = q * Tpm + k * Tpm /\ q * Tpm \in Int /\ k * Tpm \in Int
  BY <1>1, <1>2, <1>5, Products
<1>7. s \in Nat /\ s = clock.since
  BY <1>1 DEF s
<1>8. r = clock.rem + m
  BY DEF r
<1> QED BY <1>1, <1>2, <1>4, <1>5, <1>6, <1>7, <1>8

\* What is known of a timer bounds its age.
LEMMA AgeOf ==
  ASSUME TimerAssumption, NEW t \in Timer, NEW s \in Nat, NEW r \in 0..(Tpm - 1), TimeOf(t, s, r)
  PROVE  t.age < (t.period + 1) * Tpm + MaxBlock + s
<1>1. /\ t.period \in Nat /\ t.period > 0 /\ t.age \in Nat /\ t.reg \in Nat
      /\ t.timeout \in Nat /\ Tpm \in Nat \ {0} /\ MaxBlock \in Nat
      /\ t.isRunning \in BOOLEAN
  BY Constants DEF TimeOf, Timer
<1> DEFINE P == t.period * Tpm
           C == (t.period - t.timeout) * Tpm
           O == t.timeout * Tpm
<1>2. (t.period + 1) * Tpm = P + Tpm /\ P \in Int /\ P >= 0
  BY <1>1, Products
<1>3. C = P - O /\ O \in Int /\ O >= 0
  BY <1>1, Products
<1> HIDE DEF P, C, O
<1>4. t.age < P + Tpm + MaxBlock + s
  <2>1. CASE ~t.isRunning
    BY <1>1, <1>2, <2>1 DEF TimeOf
  <2>2. CASE t.isRunning /\ t.timeout > 0
    <3>1. -Tpm < C - (t.age - s) + r
      BY <2>2 DEF TimeOf, C
    <3>2. O >= Tpm
      BY <1>1, <2>2, Products DEF O
    <3> QED BY <1>1, <1>2, <1>3, <3>1, <3>2
  <2>3. CASE t.isRunning /\ t.timeout = 0
    BY <1>2, <2>3 DEF TimeOf
  <2> QED BY <1>1, <2>1, <2>2, <2>3
<1> QED BY <1>2, <1>4

\* The bound on a timer's age is not reached.
LEMMA AgeInBound ==
  ASSUME TimerAssumption, AgeAssumption, NEW t \in Timer, NEW s \in Nat, s < MaxBlock,
         NEW r \in 0..(Tpm - 1), TimeOf(t, s, r)
  PROVE  t.age < MaxAge
<1> DEFINE D == (t.period + 1) * Tpm
<1>1. t.period \in Period /\ t.age \in Nat /\ MaxBlock \in Nat /\ MaxAge \in Nat
  BY Constants DEF TimeOf, Timer
<1>2. D \in Int
  BY Constants, Products DEF TimeOf, Timer
<1>3. D + 2 * MaxBlock <= MaxAge
  BY <1>1 DEF AgeAssumption
<1>4. t.age < D + MaxBlock + s
  BY AgeOf
<1> HIDE DEF D
<1> QED BY <1>1, <1>2, <1>3, <1>4

\* A tick.
LEMMA TimeTicks ==
  ASSUME TimerAssumption, NEW t \in Timer, NEW s \in Nat, NEW r \in 0..(Tpm - 1), TimeOf(t, s, r),
         NEW u, u = [t EXCEPT !.age = t.age + 1, !.reg = IF t.isRunning THEN t.reg ELSE t.reg + 1]
  PROVE  TimeOf(u, s + 1, r)
<1>1. /\ t.period \in Nat /\ t.age \in Nat /\ t.reg \in Nat
      /\ t.timeout \in Nat /\ Tpm \in Nat \ {0} /\ MaxBlock \in Nat
      /\ t.isRunning \in BOOLEAN /\ t.exact \in BOOLEAN
  BY Constants DEF Timer
<1>2. /\ u.period = t.period /\ u.timeout = t.timeout /\ u.isRunning = t.isRunning
      /\ u.exact = t.exact /\ u.age = t.age + 1 /\ u.reg = IF t.isRunning THEN t.reg ELSE t.reg + 1
  BY DEF Timer
<1> DEFINE C == (t.period - t.timeout) * Tpm
           D == (t.period + 1) * Tpm
           B == (t.period - 1) * Tpm
<1>3. C \in Int /\ D \in Int /\ B \in Int
  BY <1>1, Products
<1>4. /\ t.period \in Period
      /\ ~t.isRunning => /\ t.timeout = t.period /\ t.age <= t.reg /\ t.reg <= r + s
                         /\ t.exact => t.age = t.reg
      /\ t.isRunning /\ t.timeout > 0 =>
           /\ t.timeout <= t.period /\ -Tpm < C - (t.age - s) + r
           /\ t.exact => C - (t.age - s) + r < Tpm
      /\ t.isRunning /\ t.timeout = 0 =>
           (t.exact => B < t.age) /\ t.age < D + MaxBlock + s
  BY DEF TimeOf
<1> HIDE DEF C, D, B
<1>5. /\ ~t.isRunning => /\ t.age + 1 <= t.reg + 1 /\ t.reg + 1 <= r + (s + 1)
                         /\ t.exact => t.age + 1 = t.reg + 1
      /\ t.isRunning /\ t.timeout > 0 =>
           /\ -Tpm < C - ((t.age + 1) - (s + 1)) + r
           /\ t.exact => C - ((t.age + 1) - (s + 1)) + r < Tpm
      /\ t.isRunning /\ t.timeout = 0 =>
           (t.exact => B < t.age + 1) /\ t.age + 1 < D + MaxBlock + (s + 1)
  BY <1>1, <1>3, <1>4
<1> QED BY <1>2, <1>4, <1>5 DEF TimeOf, C, D, B

\* A pass that counts no millisecond keeps the ticks as a remainder.
LEMMA TimeCarried ==
  ASSUME TimerAssumption, NEW t \in Timer, NEW s \in Nat, NEW r \in 0..(Tpm - 1), TimeOf(t, s, r),
         t.timeout > 0
  PROVE  TimeOf(t, 0, r + s)
<1>1. /\ t.period \in Nat /\ t.age \in Nat /\ t.reg \in Nat
      /\ t.timeout \in Nat /\ Tpm \in Nat \ {0} /\ t.isRunning \in BOOLEAN /\ t.exact \in BOOLEAN
  BY Constants DEF Timer
<1> DEFINE C == (t.period - t.timeout) * Tpm
<1>2. C \in Int
  BY <1>1, Products
<1>3. /\ t.period \in Period
      /\ ~t.isRunning => /\ t.timeout = t.period /\ t.age <= t.reg /\ t.reg <= r + s
                         /\ t.exact => t.age = t.reg
      /\ t.isRunning => /\ t.timeout <= t.period /\ -Tpm < C - (t.age - s) + r
                        /\ t.exact => C - (t.age - s) + r < Tpm
  BY DEF TimeOf
<1> HIDE DEF C
<1>4. /\ ~t.isRunning => t.reg <= (r + s) + 0
      /\ t.isRunning => /\ -Tpm < C - (t.age - 0) + (r + s)
                        /\ t.exact => C - (t.age - 0) + (r + s) < Tpm
  BY <1>1, <1>2, <1>3
<1>5. ~(t.timeout = 0)
  BY <1>1
<1> QED BY <1>3, <1>4, <1>5 DEF TimeOf, C

\* A pass that counts k milliseconds and leaves a remainder n.
LEMMA TimeCounted ==
  ASSUME TimerAssumption, NEW t \in Timer, NEW s \in 0..MaxBlock, NEW r \in 0..(Tpm - 1), TimeOf(t, s, r),
         t.timeout > 0, NEW k \in Nat, NEW n \in 0..(Tpm - 1), k * Tpm + n = r + s,
         NEW d, d = IF t.isRunning THEN k ELSE t.reg \div Tpm,
         NEW u, u = [t EXCEPT !.timeout = IF t.timeout > d THEN t.timeout - d ELSE 0,
                              !.isRunning = TRUE, !.reg = 0]
  PROVE  TimeOf(u, 0, n)
<1>1. /\ t.period \in Nat /\ t.age \in Nat /\ t.reg \in Nat /\ s \in Nat /\ n \in Nat /\ n < Tpm
      /\ t.timeout \in Nat /\ Tpm \in Nat \ {0} /\ MaxBlock \in Nat /\ t.isRunning \in BOOLEAN /\ t.exact \in BOOLEAN
  BY Constants DEF Timer
<1> DEFINE o == IF t.timeout > d THEN t.timeout - d ELSE 0
           P == t.period * Tpm
           O == t.timeout * Tpm
           D == d * Tpm
           m == t.reg % Tpm
<1>2. t.reg \div Tpm \in Nat /\ m \in 0..(Tpm - 1) /\ m = t.reg - (t.reg \div Tpm) * Tpm
  BY <1>1, Quotient
<1>3. d \in Nat /\ D \in Int /\ o \in Nat
  <2>1. d \in Nat
    BY <1>2
  <2>2. D \in Int
    BY <1>1, <2>1, Products
  <2> QED BY <1>1, <2>1, <2>2
<1>4. /\ P \in Int /\ O \in Int /\ (t.period + 1) * Tpm = P + Tpm /\ (t.period - 1) * Tpm = P - Tpm
      /\ (t.period - t.timeout) * Tpm = P - O
      /\ t.timeout > d => (t.period - (t.timeout - d)) * Tpm = P - (O - D)
      /\ ~(t.timeout > d) => D >= O
      /\ O >= Tpm
  <2>1. /\ (t.period + 1) * Tpm = P + 1 * Tpm /\ (t.period - 1) * Tpm = P - 1 * Tpm /\ 1 * Tpm = Tpm
        /\ (t.period - t.timeout) * Tpm = P - O /\ P \in Int /\ O \in Int
    <3>1. \A x, y \in Int : /\ (x + y) * Tpm = x * Tpm + y * Tpm
                            /\ (x - y) * Tpm = x * Tpm - y * Tpm
                            /\ x * Tpm \in Int
      BY <1>1, Products
    <3>2. 1 \in Int /\ t.period \in Int /\ t.timeout \in Int
      BY <1>1
    <3>3. 1 * Tpm = Tpm
      BY <1>1
    <3> QED BY <3>1, <3>2, <3>3, Zenon
  <2> DEFINE e == t.timeout - d
  <2>2. \A x, y \in Int : (x - y) * Tpm = x * Tpm - y * Tpm
    BY <1>1, Products
  <2>3. e \in Int /\ e * Tpm = O - D
    <3>1. e \in Int /\ t.timeout \in Int /\ d \in Int
      BY <1>1, <1>3
    <3> QED BY <2>2, <3>1, Zenon
  <2>4. t.timeout <= d => O <= D
    <3> HIDE DEF o
    <3> QED BY <1>1, <1>3, Products
  <2>5. 1 * Tpm <= O
    <3>1. 1 \in Int /\ t.timeout \in Int /\ 1 <= t.timeout
      BY <1>1
    <3> QED BY <1>1, <3>1, Products
  <2>6. (t.period - e) * Tpm = P - e * Tpm
    <3>1. t.period \in Int
      BY <1>1
    <3> QED BY <2>2, <2>3, <3>1, Zenon
  <2> QED BY <1>1, <1>3, <2>1, <2>3, <2>4, <2>5, <2>6
<1>5. /\ t.period \in Period
      /\ ~t.isRunning => /\ t.timeout = t.period /\ t.age <= t.reg /\ t.reg <= r + s
                         /\ t.exact => t.age = t.reg
      /\ t.isRunning => /\ t.timeout <= t.period /\ -Tpm < (P - O) - (t.age - s) + r
                        /\ t.exact => (P - O) - (t.age - s) + r < Tpm
  BY <1>4 DEF TimeOf
<1>6. /\ t.isRunning => D + n = r + s
      /\ ~t.isRunning => m = t.reg - D /\ P = O
  BY <1>2, <1>5
<1>7. u.period = t.period /\ u.timeout = o /\ u.isRunning = TRUE /\ u.age = t.age /\ u.exact = t.exact
  BY DEF Timer
<1> HIDE DEF P, O, D, m, o
<1>8. CASE t.timeout > d
  <2>1. o = t.timeout - d /\ o > 0 /\ o <= t.period
    BY <1>1, <1>3, <1>5, <1>8 DEF o
  <2>2. (t.period - o) * Tpm = P - (O - D)
    BY <1>4, <1>8, <2>1
  <2>3. /\ -Tpm < (P - (O - D)) - (t.age - 0) + n
        /\ t.exact => (P - (O - D)) - (t.age - 0) + n < Tpm
    <3>1. CASE t.isRunning
      BY <1>1, <1>3, <1>4, <1>5, <1>6, <3>1
    <3>2. CASE ~t.isRunning
      BY <1>1, <1>2, <1>3, <1>4, <1>5, <1>6, <3>2
    <3> QED BY <3>1, <3>2
  <2>4. ~(o = 0)
    BY <1>3, <2>1
  <2> QED BY <1>5, <1>7, <2>1, <2>2, <2>3, <2>4 DEF TimeOf
<1>9. CASE ~(t.timeout > d)
  <2>1. o = 0 /\ D >= O
    BY <1>4, <1>9 DEF o
  <2>2. (t.exact => P - Tpm < t.age) /\ t.age < P + Tpm + MaxBlock + 0
    <3>1. CASE t.isRunning
      BY <1>1, <1>3, <1>4, <1>5, <1>6, <2>1, <3>1
    <3>2. CASE ~t.isRunning
      BY <1>1, <1>2, <1>3, <1>4, <1>5, <1>6, <2>1, <3>2
    <3> QED BY <3>1, <3>2
  <2> QED BY <1>4, <1>5, <1>7, <2>1, <2>2 DEF TimeOf
<1> QED BY <1>8, <1>9

\* A timer that is armed while off the list, one that starts again in its
\* callback, and one that is re-armed where it stands.
LEMMA TimeBegins ==
  ASSUME TimerAssumption, NEW t \in Timer, NEW s \in Nat, NEW r \in 0..(Tpm - 1), NEW p \in Period
  PROVE  /\ ~t.isRunning => TimeOf(Armed(t, p), s, r)
         /\ t.isRunning => TimeOf([t EXCEPT !.period = p, !.timeout = p, !.age = s], s, r)
         /\ TimeOf(t, s, r) => TimeOf(ReArmed(t, p), s, r)
<1>1. /\ p \in Nat /\ p > 0 /\ Tpm \in Nat \ {0} /\ t.isRunning \in BOOLEAN
      /\ t.reg \in Nat
  BY Constants DEF Timer
<1>2. (p - p) * Tpm = 0 /\ p <= p /\ ~(p = 0)
  BY <1>1
<1>3. ASSUME ~t.isRunning PROVE TimeOf(Armed(t, p), s, r)
  <2> DEFINE u == Armed(t, p)
  <2>1. u.period = p /\ u.timeout = p /\ u.isRunning = FALSE /\ u.age = 0 /\ u.reg = 0
    BY <1>3, <1>1 DEF Armed, Timer
  <2> HIDE DEF u
  <2>2. TimeOf(u, s, r)
    BY <1>1, <2>1 DEF TimeOf
  <2> QED BY <2>2 DEF u
<1>4. ASSUME t.isRunning PROVE TimeOf([t EXCEPT !.period = p, !.timeout = p, !.age = s], s, r)
  <2> DEFINE u == [t EXCEPT !.period = p, !.timeout = p, !.age = s]
  <2>1. u.period = p /\ u.timeout = p /\ u.isRunning = TRUE /\ u.age = s
    BY <1>4, <1>1 DEF Timer
  <2> HIDE DEF u
  <2>2. -Tpm < 0 - (s - s) + r /\ 0 - (s - s) + r < Tpm
    BY <1>1
  <2>3. TimeOf(u, s, r)
    BY <1>2, <2>1, <2>2 DEF TimeOf
  <2> QED BY <2>3 DEF u
<1>5. ASSUME TimeOf(t, s, r) PROVE TimeOf(ReArmed(t, p), s, r)
  <2> DEFINE u == ReArmed(t, p)
  <2>1. /\ u.period = p /\ u.timeout = p /\ u.isRunning = t.isRunning /\ u.age = 0
        /\ u.reg = t.reg /\ u.exact = FALSE
    BY <1>1 DEF ReArmed, Timer
  <2>2. ~t.isRunning => t.reg <= r + s
    BY <1>5 DEF TimeOf
  <2> HIDE DEF u
  <2>3. -Tpm < 0 - (0 - s) + r
    BY <1>1
  <2>4. TimeOf(u, s, r)
    BY <1>1, <1>2, <2>1, <2>2, <2>3 DEF TimeOf
  <2> QED BY <2>4 DEF u
<1> QED BY <1>3, <1>4, <1>5

\* What the steps below rely on.
LEMMA TimeFacts ==
  ASSUME TimerAssumption, TimerIInv
  PROVE  /\ TimerTypeOK /\ PoolMatchesList /\ CallbacksOK /\ HandlesExact /\ IsInjective(list)
         /\ evt \in [Evts -> Timer] /\ Listed \subseteq Evts /\ NULL \notin Listed
         /\ clock.since \in 0..MaxBlock /\ clock.rem \in 0..(Tpm - 1) /\ MaxBlock \in Nat
         /\ walk.pc = "call" => walk.cur \in Listed
         /\ walk.pc = "main" => \A e \in Listed : evt[e].timeout > 0
<1>1. /\ TimerTypeOK /\ PoolMatchesList /\ CallbacksOK /\ HandlesExact /\ IsInjective(list)
      /\ WalkOK /\ DueAhead
  BY DEF TimerIInv, PoolMatchesList
<1>2. /\ Listed \subseteq Evts /\ NULL \notin Listed
      /\ \A x, y : Upto(list, x, y) => x \in Listed /\ y \in Listed
  BY <1>1, Places
<1>3. /\ evt \in [Evts -> Timer] /\ clock.since \in 0..MaxBlock /\ clock.rem \in 0..(Tpm - 1)
      /\ MaxBlock \in Nat
  BY <1>1, Constants DEF TimerTypeOK
<1>4. walk.pc = "call" => walk.cur \in Listed
  BY <1>1 DEF WalkOK, WalkOnList
<1>5. ASSUME walk.pc = "main", NEW e \in Listed PROVE evt[e].timeout > 0
  <2>1. ~Upto(list, NULL, e)
    BY <1>2
  <2>2. evt[e].timeout # 0 /\ evt[e].timeout \in Nat
    BY <1>1, <1>2, <1>3, <1>5, <2>1 DEF DueAhead, WalkOK, Timer
  <2> QED BY <2>2
<1> QED BY <1>1, <1>2, <1>3, <1>4, <1>5

\* Outside ev_timer_process and the tick, a timer stays what it was, is armed
\* anew, re-armed where it stands, or taken off.
LEMMA TimeKept ==
  ASSUME TimeInv, UNCHANGED clock,
         \A f \in Listed' : \/ f \in Listed /\ evt'[f] = evt[f]
                            \/ TimeOf(evt'[f], clock.since, clock.rem),
         \A f \in Evts \ Listed' : \/ f \notin Listed /\ evt'[f] = evt[f]
                                   \/ ~evt'[f].isRunning,
         walk'.pc = "call" => /\ walk.pc = "call" /\ walk'.cur = walk.cur
                              /\ evt'[walk.cur] = evt[walk.cur]
  PROVE  TimeInv'
<1>1. \A f \in Listed' : TimeOf(evt'[f], clock.since, clock.rem)
  BY DEF TimeInv
<1>2. \A f \in Listed' : TimeOf(evt'[f], clock'.since, clock'.rem)
  BY <1>1
<1>3. \A f \in Evts \ Listed' : ~evt'[f].isRunning
  BY DEF TimeInv
<1>4. walk'.pc = "call" => evt'[walk'.cur].timeout = 0
  BY DEF TimeInv
<1> QED BY <1>2, <1>3, <1>4 DEF TimeInv

\* A call that takes a timer off the list, whose callback does not run.
LEMMA TimeOff ==
  ASSUME TimerAssumption, TimerIInv, TimeInv, NEW u, MayCall(u), Called, NEW e \in Listed,
         Unon(e), walk.pc = "call" => walk.cur # e, UNCHANGED clock
  PROVE  TimeInv'
<1>0. /\ TimerTypeOK /\ PoolMatchesList /\ CallbacksOK /\ evt \in [Evts -> Timer]
      /\ Listed \subseteq Evts /\ (walk.pc = "call" => walk.cur \in Listed)
  BY TimeFacts
<1>1. /\ Listed' = Listed \ {e} /\ \A f \in Evts : f # e => evt'[f] = evt[f]
  BY <1>0, UnonListed
<1>2. ~evt'[e].isRunning
  <2>1. evt' = [evt EXCEPT ![e] = Removed(evt[e])] /\ evt[e] \in Timer
    BY <1>0 DEF Unon
  <2>2. ~Removed(evt[e]).isRunning
    BY <2>1 DEF Removed, Timer
  <2> QED BY <1>0, <2>1, <2>2
<1>3. walk'.pc = walk.pc /\ walk'.cur = walk.cur
  BY <1>0, CallStays
<1>4. \A f \in Listed' : f \in Listed /\ evt'[f] = evt[f]
  BY <1>0, <1>1
<1>5. \A f \in Evts \ Listed' : (f \notin Listed /\ evt'[f] = evt[f]) \/ ~evt'[f].isRunning
  BY <1>1, <1>2
<1>6. walk'.pc = "call" => /\ walk.pc = "call" /\ walk'.cur = walk.cur
                           /\ evt'[walk.cur] = evt[walk.cur]
  BY <1>0, <1>1, <1>3
<1> QED BY <1>4, <1>5, <1>6, TimeKept

\* A call that re-arms a listed timer, whose callback does not run.
LEMMA TimeRearmed ==
  ASSUME TimerAssumption, TimerIInv, TimeInv, NEW u, MayCall(u), Called, NEW e \in Listed,
         NEW p \in Period, evt' = [evt EXCEPT ![e] = ReArmed(@, p)],
         walk.pc = "call" => walk.cur # e, UNCHANGED <<list, clock>>
  PROVE  TimeInv'
<1>0. /\ TimerTypeOK /\ evt \in [Evts -> Timer]
      /\ Listed \subseteq Evts /\ (walk.pc = "call" => walk.cur \in Listed)
      /\ clock.since \in Nat /\ clock.rem \in 0..(Tpm - 1)
  BY TimeFacts
<1>1. Listed' = Listed
  BY DEF Listed
<1>2. TimeOf(evt'[e], clock.since, clock.rem) /\ \A f \in Evts : f # e => evt'[f] = evt[f]
  <2> DEFINE t == ReArmed(evt[e], p)
  <2>1. evt[e] \in Timer /\ TimeOf(evt[e], clock.since, clock.rem)
    BY <1>0 DEF TimeInv
  <2>2. TimeOf(t, clock.since, clock.rem)
    BY <1>0, <2>1, TimeBegins
  <2>3. evt' = [evt EXCEPT ![e] = t]
    OBVIOUS
  <2> HIDE DEF t
  <2> QED BY <1>0, <2>2, <2>3
<1>3. walk'.pc = walk.pc /\ walk'.cur = walk.cur
  BY <1>0, CallStays
<1>4. \A f \in Listed' : (f \in Listed /\ evt'[f] = evt[f]) \/ TimeOf(evt'[f], clock.since, clock.rem)
  BY <1>0, <1>1, <1>2
<1>5. \A f \in Evts \ Listed' : f \notin Listed /\ evt'[f] = evt[f]
  BY <1>1, <1>2
<1>6. walk'.pc = "call" => /\ walk.pc = "call" /\ walk'.cur = walk.cur
                           /\ evt'[walk.cur] = evt[walk.cur]
  BY <1>0, <1>2, <1>3
<1> QED BY <1>4, <1>5, <1>6, TimeKept

\* A call that arms a timer that is not on the list.
LEMMA TimeArmed ==
  ASSUME TimerAssumption, TimerIInv, TimeInv, NEW u, MayCall(u), Called, NEW e \in Evts \ Listed,
         NEW x \in Timer, x.isRunning = evt[e].isRunning, NEW p \in Period,
         evt' = [evt EXCEPT ![e] = Armed(x, p)], Listed' = Listed \cup {e}, UNCHANGED clock
  PROVE  TimeInv'
<1>0. /\ TimerTypeOK /\ evt \in [Evts -> Timer]
      /\ Listed \subseteq Evts /\ (walk.pc = "call" => walk.cur \in Listed)
      /\ clock.since \in Nat /\ clock.rem \in 0..(Tpm - 1)
  BY TimeFacts
<1> DEFINE t == Armed(x, p)
<1>1. ~x.isRunning
  BY DEF TimeInv
<1>2. TimeOf(t, clock.since, clock.rem)
  BY <1>0, <1>1, TimeBegins
<1> HIDE DEF t
<1>3. evt' = [evt EXCEPT ![e] = t]
  BY DEF t
<1>4. evt'[e] = t /\ \A f \in Evts : f # e => evt'[f] = evt[f]
  BY <1>0, <1>3
<1>5. walk'.pc = walk.pc /\ walk'.cur = walk.cur
  BY <1>0, CallStays
<1>6. \A f \in Listed' : (f \in Listed /\ evt'[f] = evt[f]) \/ TimeOf(evt'[f], clock.since, clock.rem)
  BY <1>0, <1>2, <1>4
<1>7. \A f \in Evts \ Listed' : f \notin Listed /\ evt'[f] = evt[f]
  BY <1>4
<1>8. walk'.pc = "call" => /\ walk.pc = "call" /\ walk'.cur = walk.cur
                           /\ evt'[walk.cur] = evt[walk.cur]
  BY <1>0, <1>4, <1>5
<1> QED BY <1>6, <1>7, <1>8, TimeKept

\* A timer in front of the list is on it, with the others.
LEMMA PutInFront ==
  ASSUME TimerTypeOK, NEW e \in Evts, list' = <<e>> \o list
  PROVE  Listed' = Listed \cup {e}
<1>1. list \in Seq(Evts)
  BY DEF TimerTypeOK
<1> DEFINE n == Len(list)
           r == list'
<1>2. /\ n \in Nat /\ DOMAIN list = 1..n /\ DOMAIN r = 1..(n + 1)
      /\ \A k \in 1..(n + 1) : r[k] = IF k = 1 THEN e ELSE list[k - 1]
  BY <1>1, ListIndices
<1> HIDE DEF n, r
<1>3. ASSUME NEW x \in Range(list) PROVE x \in Range(r)
  <2>1. PICK k \in 1..n : list[k] = x
    BY <1>2 DEF Range
  <2>2. k + 1 \in 1..(n + 1) /\ k + 1 # 1 /\ (k + 1) - 1 = k
    BY <1>2
  <2> QED BY <1>2, <2>1, <2>2 DEF Range
<1>4. ASSUME NEW x \in Range(r) PROVE x = e \/ x \in Range(list)
  <2>1. PICK k \in 1..(n + 1) : r[k] = x
    BY <1>2 DEF Range
  <2>2. k # 1 => k - 1 \in 1..n
    BY <1>2
  <2> QED BY <1>2, <2>1, <2>2 DEF Range
<1>5. e \in Range(r)
  BY <1>2 DEF Range
<1> QED BY <1>3, <1>4, <1>5 DEF Listed, r

\* Whatever a user calls.
LEMMA TimeOfCalls ==
  ASSUME TimerAssumption, TimerIInv, TimeInv, UserCall
  PROVE  TimeInv'
<1>0. /\ TimerTypeOK /\ PoolMatchesList /\ CallbacksOK /\ HandlesExact
      /\ evt \in [Evts -> Timer] /\ Listed \subseteq Evts
      /\ (walk.pc = "call" => walk.cur \in Listed)
  BY TimeFacts
<1>1. ASSUME NEW u, Called, MayCall(u), UNCHANGED <<list, evt, clock>> PROVE TimeInv'
  <2>1. Listed' = Listed /\ walk'.pc = walk.pc /\ walk'.cur = walk.cur
    BY <1>0, <1>1, CallStays DEF Listed
  <2> QED BY <1>1, <2>1, TimeKept
<1>2. ASSUME NEW u \in PoolUser, NEW p \in Period, Post(u, p) PROVE TimeInv'
  <2>1. MayCall(u) /\ Called /\ UNCHANGED clock
    BY <1>2 DEF Post
  <2>2. ASSUME NEW e \in FreeSlot, evt' = [evt EXCEPT ![e] = Armed([@ EXCEPT !.used = TRUE, !.cb = u], p)],
               list' = <<e>> \o list
        PROVE  TimeInv'
    <3> DEFINE x == [evt[e] EXCEPT !.used = TRUE, !.cb = u]
    <3>1. e \in Slots /\ e \in Evts /\ ~evt[e].used
      BY <2>2, Constants DEF FreeSlot
    <3>2. e \notin Listed
      BY <1>0, <3>1 DEF PoolMatchesList
    <3>3. x \in Timer /\ x.isRunning = evt[e].isRunning
      <4>1. evt[e] \in Timer /\ u \in User \cup {NULL}
        BY <1>0, <3>1, Constants
      <4>2. \A t \in Timer, v \in User \cup {NULL} :
              LET y == [t EXCEPT !.used = TRUE, !.cb = v]
              IN y \in Timer /\ y.isRunning = t.isRunning
        BY DEF Timer
      <4> QED BY <4>1, <4>2
    <3>4. evt' = [evt EXCEPT ![e] = Armed(x, p)]
      BY <1>0, <2>2, <3>1
    <3>5. Listed' = Listed \cup {e}
      BY <1>0, <2>2, <3>1, PutInFront
    <3> HIDE DEF x
    <3> QED BY <2>1, <3>1, <3>2, <3>3, <3>4, <3>5, TimeArmed
  <2>3. CASE UNCHANGED <<list, evt, usedNum, handle>>
    BY <1>1, <2>1, <2>3
  <2> QED BY <1>2, <2>2, <2>3 DEF Post
<1>3. ASSUME NEW u \in PoolUser, handle[u] \in Listed
      PROVE  /\ handle[u] \in Slots => evt[handle[u]].used
             /\ MayCall(u) /\ walk.pc = "call" => walk.cur # handle[u]
  <2>1. handle[u] \in Slots
    BY <1>0, <1>3, TimeFacts DEF TimerTypeOK
  <2>2. evt[handle[u]].cb = u /\ ~(walk.pc = "call" /\ walk.ending /\ walk.cur = handle[u])
    BY <1>0, <2>1 DEF HandlesExact
  <2> QED BY <1>0, <1>3, <2>1, <2>2 DEF MayCall, Inside, PoolMatchesList
<1>4. ASSUME NEW u \in PoolUser, Cancel(u) PROVE TimeInv'
  <2>1. /\ MayCall(u) /\ Called /\ UNCHANGED clock /\ handle[u] \in Slots
        /\ \/ Unon(handle[u])
           \/ UNCHANGED <<list, evt, usedNum, handle>>
    BY <1>0, <1>4 DEF Cancel, TimerTypeOK
  <2>2. handle[u] \in Listed
    BY <1>0, <2>1 DEF HandlesExact
  <2>3. CASE Unon(handle[u])
    BY <1>3, <2>1, <2>2, <2>3, TimeOff
  <2>4. CASE UNCHANGED <<list, evt, usedNum, handle>>
    BY <1>1, <2>1, <2>4
  <2> QED BY <2>1, <2>3, <2>4
<1>5. ASSUME NEW u \in PoolUser, NEW p \in Period, Rearm(u, p) PROVE TimeInv'
  <2>1. /\ MayCall(u) /\ handle[u] \in Listed /\ Called /\ UNCHANGED <<list, clock>>
        /\ evt' = [evt EXCEPT ![handle[u]] = ReArmed(@, p)]
    BY <1>5 DEF Rearm
  <2> QED BY <1>3, <2>1, TimeRearmed
<1>6. ASSUME NEW u \in StaticUser, MayCall(u), walk.pc = "call" PROVE walk.cur # u
  BY <1>0, <1>6, Constants DEF MayCall, Inside, CallbacksOK
<1>7. ASSUME NEW u \in StaticUser, StaticOff(u) PROVE TimeInv'
  <2>1. MayCall(u) /\ Unon(u) /\ Called /\ UNCHANGED <<handle, clock>>
    BY <1>7 DEF StaticOff
  <2>2. CASE u \in Listed
    BY <1>6, <2>1, <2>2, TimeOff
  <2>3. CASE u \notin Listed
    BY <1>1, <2>1, <2>3 DEF Unon
  <2> QED BY <2>2, <2>3
<1>8. ASSUME NEW u \in StaticUser, NEW p \in Period, StaticOn(u, p) PROVE TimeInv'
  <2>1. MayCall(u) /\ Called /\ UNCHANGED <<usedNum, handle, clock>> /\ u \in Evts
    BY <1>8, Constants DEF StaticOn
  <2>2. CASE u \in Listed
    BY <1>6, <1>8, <2>1, <2>2, TimeRearmed DEF StaticOn
  <2>3. CASE u \notin Listed
    <3>1. evt' = [evt EXCEPT ![u] = Armed(evt[u], p)] /\ list' = <<u>> \o list
      BY <1>0, <1>8, <2>1, <2>3 DEF StaticOn
    <3>2. Listed' = Listed \cup {u}
      BY <1>0, <2>1, <3>1, PutInFront
    <3>3. evt[u] \in Timer
      BY <1>0, <2>1
    <3> QED BY <2>1, <2>3, <3>1, <3>2, <3>3, TimeArmed
  <2> QED BY <2>2, <2>3
<1> QED BY <1>2, <1>4, <1>5, <1>7, <1>8 DEF UserCall

\* A tick.
LEMMA TimeOfTick ==
  ASSUME TimerAssumption, AgeAssumption, TimerIInv, TimeInv, TimerTick
  PROVE  TimeInv'
<1>0. /\ evt \in [Evts -> Timer] /\ Listed \subseteq Evts /\ clock.since \in Nat
      /\ clock.rem \in 0..(Tpm - 1) /\ (walk.pc = "call" => walk.cur \in Listed)
      /\ MaxAge \in Nat
  BY TimeFacts, Constants
<1>1. /\ UNCHANGED <<list, walk>> /\ clock' = [clock EXCEPT !.since = @ + 1] /\ clock.since < MaxBlock
      /\ evt' = [e \in Evts |-> IF e \in Listed
                   THEN [evt[e] EXCEPT !.age = IF @ < MaxAge THEN @ + 1 ELSE @,
                                       !.reg = IF evt[e].isRunning THEN @ ELSE @ + 1]
                   ELSE evt[e]]
  BY DEF TimerTick
<1>2. Listed' = Listed
  BY <1>1 DEF Listed
<1>3. clock'.since = clock.since + 1 /\ clock'.rem = clock.rem
  <2>1. clock \in [since : 0..MaxBlock, rem : 0..(Tpm - 1)]
    BY DEF TimerIInv, TimerTypeOK
  <2> QED BY <1>1, <2>1
<1>4. ASSUME NEW e \in Listed PROVE TimeOf(evt'[e], clock'.since, clock'.rem)
  <2> DEFINE t == evt[e]
             u == evt'[e]
  <2>1. /\ t \in Timer
        /\ u = [t EXCEPT !.age = IF t.age < MaxAge THEN t.age + 1 ELSE t.age,
                         !.reg = IF t.isRunning THEN t.reg ELSE t.reg + 1]
    BY <1>0, <1>1
  <2>2. TimeOf(t, clock.since, clock.rem)
    BY DEF TimeInv
  <2> HIDE DEF t, u
  <2>3. t.age < MaxAge
    BY <1>0, <1>1, <2>1, <2>2, AgeInBound
  <2>4. u = [t EXCEPT !.age = t.age + 1, !.reg = IF t.isRunning THEN t.reg ELSE t.reg + 1]
    BY <2>1, <2>3
  <2>5. TimeOf(u, clock.since + 1, clock.rem)
    BY <1>0, <2>1, <2>2, <2>4, TimeTicks
  <2> QED BY <1>3, <2>5 DEF u
<1>5. \A e \in Evts \ Listed : ~evt'[e].isRunning
  BY <1>1 DEF TimeInv
<1>6. walk'.pc = "call" => evt'[walk'.cur].timeout = 0
  <2> SUFFICES ASSUME walk.pc = "call" PROVE evt'[walk.cur].timeout = 0
    BY <1>1
  <2>1. walk.cur \in Listed /\ evt[walk.cur] \in Timer /\ evt[walk.cur].timeout = 0
    BY <1>0 DEF TimeInv
  <2> QED BY <1>0, <1>1, <2>1 DEF Timer
<1> QED BY <1>2, <1>4, <1>5, <1>6 DEF TimeInv

\* ev_timer_process.
LEMMA TimeOfProcess ==
  ASSUME TimerAssumption, TimerIInv, TimeInv, Process
  PROVE  TimeInv'
<1>0. /\ evt \in [Evts -> Timer] /\ Listed \subseteq Evts /\ clock.since \in 0..MaxBlock
      /\ clock.since \in Nat /\ clock.rem \in 0..(Tpm - 1) /\ walk.pc = "main" /\ TimerTypeOK
      /\ \A e \in Listed : evt[e].timeout > 0
  BY TimeFacts DEF Process
<1>1. UNCHANGED list /\ clock' = [since |-> 0, rem |-> NewRem]
  BY DEF Process
<1>2. Listed' = Listed /\ clock'.since = 0 /\ clock'.rem = NewRem
  BY <1>1 DEF Listed
<1>3. /\ UpdateTime \in Nat /\ NewRem \in 0..(Tpm - 1)
      /\ UpdateTime * Tpm + NewRem = clock.rem + clock.since
  BY <1>0, NoTickLost
<1>4. CASE UpdateTime > 0
  <2>1. /\ evt' = [e \in Evts |-> IF e \in Listed THEN Updated(evt[e]) ELSE evt[e]]
        /\ walk' = [walk EXCEPT !.pc = "walk", !.cur = HeadOf(list), !.head = HeadOf(list)]
    BY <1>4 DEF Process
  <2>2. ASSUME NEW e \in Listed PROVE TimeOf(evt'[e], clock'.since, clock'.rem)
    <3> DEFINE t == evt[e]
               u == evt'[e]
               k == UpdateTime
               n == NewRem
               d == IF t.isRunning THEN k ELSE t.reg \div Tpm
    <3>1. t \in Timer /\ u = Updated(t) /\ t.timeout > 0
      BY <1>0, <2>1
    <3>2. u = [t EXCEPT !.timeout = IF t.timeout > d THEN t.timeout - d ELSE 0,
                        !.isRunning = TRUE, !.reg = 0]
      BY <3>1 DEF Updated, Elapsed
    <3>3. TimeOf(t, clock.since, clock.rem)
      BY DEF TimeInv
    <3>4. k \in Nat /\ n \in 0..(Tpm - 1) /\ k * Tpm + n = clock.rem + clock.since
      BY <1>3
    <3>5. d = IF t.isRunning THEN k ELSE t.reg \div Tpm
      OBVIOUS
    <3> HIDE DEF t, u, k, n, d
    <3>6. TimeOf(u, 0, n)
      BY <1>0, <3>1, <3>2, <3>3, <3>4, <3>5, TimeCounted
    <3> QED BY <1>2, <3>6 DEF u, n
  <2>3. \A e \in Evts \ Listed : ~evt'[e].isRunning
    BY <2>1 DEF TimeInv
  <2>4. walk'.pc # "call"
    <3>1. walk \in WalkType
      BY <1>0 DEF TimerTypeOK, WalkType
    <3> QED BY <2>1, <3>1 DEF WalkType
  <2> QED BY <1>2, <2>2, <2>3, <2>4 DEF TimeInv
<1>5. CASE ~(UpdateTime > 0)
  <2>1. UNCHANGED <<evt, walk>>
    BY <1>5 DEF Process
  <2>2. NewRem = clock.rem + clock.since
    <3> DEFINE k == UpdateTime
               n == NewRem
    <3>1. k \in Nat /\ ~(k > 0) /\ k * Tpm + n = clock.rem + clock.since /\ n \in 0..(Tpm - 1)
      BY <1>3, <1>5
    <3> HIDE DEF k, n
    <3>2. k = 0
      BY <3>1
    <3>3. Tpm \in Nat \ {0}
      BY Constants
    <3>4. n = clock.rem + clock.since
      BY <3>1, <3>2, <3>3
    <3> QED BY <3>4 DEF n
  <2>3. ASSUME NEW e \in Listed PROVE TimeOf(evt'[e], clock'.since, clock'.rem)
    <3>1. evt[e] \in Timer /\ evt[e].timeout > 0 /\ TimeOf(evt[e], clock.since, clock.rem)
      BY <1>0 DEF TimeInv
    <3>2. TimeOf(evt[e], 0, clock.rem + clock.since)
      BY <1>0, <3>1, TimeCarried
    <3> QED BY <1>2, <2>1, <2>2, <3>2
  <2>4. \A e \in Evts \ Listed : ~evt'[e].isRunning
    BY <2>1 DEF TimeInv
  <2>5. walk'.pc # "call"
    BY <1>0, <2>1
  <2> QED BY <1>2, <2>3, <2>4, <2>5 DEF TimeInv
<1> QED BY <1>4, <1>5

\* The walk, and the return of a callback.
LEMMA TimeOfWalk ==
  ASSUME TimerAssumption, TimerIInv, TimeInv,
         Skip \/ Finish \/ ReturnStop \/ (\E b \in BOOLEAN : Fire(b)) \/ \E p \in Period : ReturnAgain(p)
  PROVE  TimeInv'
<1>0. /\ TimerTypeOK /\ PoolMatchesList /\ CallbacksOK /\ evt \in [Evts -> Timer]
      /\ Listed \subseteq Evts /\ (walk.pc = "call" => walk.cur \in Listed) /\ walk \in WalkType
      /\ clock.since \in Nat /\ clock.rem \in 0..(Tpm - 1)
  BY TimeFacts DEF TimerTypeOK, WalkType
<1>1. CASE Skip \/ Finish
  <2>1. UNCHANGED <<list, evt, clock>> /\ walk'.pc # "call"
    BY <1>0, <1>1 DEF Skip, Finish, InMain, WalkType
  <2>2. Listed' = Listed
    BY <2>1 DEF Listed
  <2> QED BY <2>1, <2>2, TimeKept
<1>2. ASSUME NEW b \in BOOLEAN, Fire(b) PROVE TimeInv'
  <2>1. /\ UNCHANGED <<list, evt, clock>> /\ evt[walk.cur].timeout = 0
        /\ walk' = [walk EXCEPT !.pc = "call", !.ending = b]
    BY <1>2 DEF Fire
  <2>2. Listed' = Listed /\ walk'.cur = walk.cur
    BY <1>0, <2>1 DEF Listed, WalkType
  <2> QED BY <2>1, <2>2 DEF TimeInv
<1>3. ASSUME NEW n, Resume(n) PROVE walk'.pc # "call"
  <2>1. walk'.pc = "walk"
    BY <1>0, <1>3 DEF Resume, WalkType
  <2> QED BY <2>1
<1>4. CASE ReturnStop
  <2> DEFINE e == walk.cur
  <2>1. e \in Listed /\ Unon(e) /\ UNCHANGED clock /\ walk'.pc # "call"
    BY <1>0, <1>3, <1>4 DEF ReturnStop
  <2> HIDE DEF e
  <2>2. Listed' = Listed \ {e} /\ \A f \in Evts : f # e => evt'[f] = evt[f]
    BY <1>0, <2>1, UnonListed
  <2>3. ~evt'[e].isRunning
    <3>1. evt' = [evt EXCEPT ![e] = Removed(evt[e])] /\ evt[e] \in Timer
      BY <1>0, <2>1 DEF Unon
    <3>2. ~Removed(evt[e]).isRunning
      BY <3>1 DEF Removed, Timer
    <3> QED BY <1>0, <2>1, <3>1, <3>2
  <2>4. \A f \in Listed' : f \in Listed /\ evt'[f] = evt[f]
    BY <1>0, <2>2
  <2>5. \A f \in Evts \ Listed' : (f \notin Listed /\ evt'[f] = evt[f]) \/ ~evt'[f].isRunning
    BY <2>2, <2>3
  <2> QED BY <2>1, <2>4, <2>5, TimeKept
<1>5. ASSUME NEW p \in Period, ReturnAgain(p) PROVE TimeInv'
  <2> DEFINE e == walk.cur
             t == evt[e]
             u == [t EXCEPT !.period = p, !.timeout = p, !.age = clock.since]
  <2>1. e \in Listed /\ UNCHANGED <<list, clock>> /\ walk'.pc # "call" /\ t.timeout = 0 /\ t \in Timer
    BY <1>0, <1>3, <1>5 DEF ReturnAgain, TimeInv
  <2>2. evt' = [evt EXCEPT ![e] = u]
    BY <1>0, <1>5, <2>1 DEF ReturnAgain
  <2>3. Listed' = Listed
    BY <2>1 DEF Listed
  <2>4. TimeOf(t, clock.since, clock.rem)
    BY <2>1 DEF TimeInv
  <2>5. t.isRunning => TimeOf(u, clock.since, clock.rem)
    <3> HIDE DEF t
    <3> QED BY <1>0, <2>1, TimeBegins
  <2> HIDE DEF e, t, u
  <2>6. t.isRunning
    BY <2>1, <2>4, Constants DEF TimeOf
  <2>7. evt'[e] = u /\ \A f \in Evts : f # e => evt'[f] = evt[f]
    BY <1>0, <2>1, <2>2
  <2>8. \A f \in Listed' : \/ f \in Listed /\ evt'[f] = evt[f]
                           \/ TimeOf(evt'[f], clock.since, clock.rem)
    BY <1>0, <2>3, <2>5, <2>6, <2>7
  <2>9. \A f \in Evts \ Listed' : f \notin Listed /\ evt'[f] = evt[f]
    BY <2>1, <2>3, <2>7
  <2> QED BY <2>1, <2>8, <2>9, TimeKept
<1> QED BY <1>1, <1>2, <1>4, <1>5

\* What is known of the armed timers, which is inductive together with the
\* positions of the walk.
LEMMA TimeInvariant ==
  ASSUME TimerAssumption, AgeAssumption
  PROVE  TimerSpec => []TimeInv
<1>1. TimerInit => TimeInv
  <2> SUFFICES ASSUME TimerInit PROVE TimeInv
    OBVIOUS
  <2>1. Listed = {} /\ walk.pc = "main"
    BY DEF TimerInit, Listed, Range, InMain
  <2>2. ASSUME NEW e \in Evts PROVE ~evt[e].isRunning
    BY DEF TimerInit, Blank
  <2> QED BY <2>1, <2>2 DEF TimeInv
<1>2. TimerIInv /\ TimeInv /\ [TimerNext]_timerVars => TimeInv'
  <2> SUFFICES ASSUME TimerIInv, TimeInv, [TimerNext]_timerVars PROVE TimeInv'
    OBVIOUS
  <2>1. CASE TimerTick
    BY <2>1, TimeOfTick
  <2>2. CASE UserCall
    BY <2>2, TimeOfCalls
  <2>3. CASE Process
    BY <2>3, TimeOfProcess
  <2>4. CASE Pass /\ ~Process
    BY <2>4, TimeOfWalk DEF Pass
  <2>5. CASE UNCHANGED timerVars
    BY <2>5 DEF timerVars, TimeInv, Listed
  <2> QED BY <2>1, <2>2, <2>3, <2>4, <2>5 DEF TimerNext
<1> QED BY <1>1, <1>2, TimerInvariant, PTL DEF TimerSpec

\* Ticks are neither lost nor counted twice: what is counted off a timer and what
\* it has run stay less than two milliseconds apart, however long it runs and at
\* whatever distance the passes are, and no callback runs a whole millisecond
\* before its time (ev_timer_process and ev_timer_update).
THEOREM TimersOnTime ==
  ASSUME TimerAssumption, AgeAssumption
  PROVE  TimerSpec => []OnTime
<1>1. TimerIInv /\ TimeInv => OnTime
  <2> SUFFICES ASSUME TimerIInv, TimeInv PROVE OnTime
    OBVIOUS
  <2>0. /\ evt \in [Evts -> Timer] /\ Listed \subseteq Evts /\ clock.since \in Nat
        /\ clock.rem \in 0..(Tpm - 1) /\ (walk.pc = "call" => walk.cur \in Listed)
        /\ (walk.pc = "main" => \A e \in Listed : evt[e].timeout > 0)
        /\ Tpm \in Nat \ {0} /\ MaxBlock \in Nat
    BY TimeFacts, Constants
  <2>1. NoDrift
    <3> SUFFICES ASSUME walk.pc = "main", NEW e \in Listed, evt[e].exact, evt[e].isRunning
                 PROVE  LET counted == (evt[e].period - evt[e].timeout) * Tpm
                            ran     == evt[e].age - clock.since
                        IN counted - ran < Tpm /\ ran - counted < 2 * Tpm
      BY DEF NoDrift
    <3> DEFINE t == evt[e]
               C == (t.period - t.timeout) * Tpm
    <3>1. t \in Timer /\ t.timeout > 0 /\ TimeOf(t, clock.since, clock.rem) /\ t.isRunning
      BY <2>0 DEF TimeInv
    <3>2. -Tpm < C - (t.age - clock.since) + clock.rem /\ C - (t.age - clock.since) + clock.rem < Tpm
      BY <3>1 DEF TimeOf
    <3>3. t.age \in Nat /\ t.period \in Nat /\ t.timeout \in Nat
      BY <3>1 DEF Timer
    <3>4. C \in Int
      BY <2>0, <3>3, Products
    <3> HIDE DEF C, t
    <3>5. C - (t.age - clock.since) < Tpm /\ (t.age - clock.since) - C < 2 * Tpm
      BY <2>0, <3>2, <3>3, <3>4
    <3> QED BY <3>5 DEF C, t
  <2>2. NotEarly
    <3> SUFFICES ASSUME walk.pc = "call", evt[walk.cur].exact
                 PROVE  evt[walk.cur].age > (evt[walk.cur].period - 1) * Tpm
      BY DEF NotEarly
    <3> DEFINE t == evt[walk.cur]
               B == (t.period - 1) * Tpm
    <3>1. t \in Timer /\ t.timeout = 0 /\ TimeOf(t, clock.since, clock.rem)
      BY <2>0 DEF TimeInv
    <3>2. t.age \in Nat /\ t.period \in Nat /\ t.isRunning
      BY <3>1, Constants DEF Timer, TimeOf
    <3>3. B < t.age
      BY <3>1, <3>2 DEF TimeOf
    <3>4. B \in Int
      BY <2>0, <3>2, Products
    <3> HIDE DEF B, t
    <3>5. t.age > B
      BY <3>2, <3>3, <3>4
    <3> QED BY <3>5 DEF B, t
  <2> QED BY <2>1, <2>2 DEF OnTime
<1> QED BY <1>1, TimerInvariant, TimeInvariant, PTL

\* No timer is overdue by more than the millisecond of rounding, the longest time
\* between two passes and what the present pass has taken, one that was re-armed
\* while it ran included (ev_timer_process, ev_timer_executeCB): however callbacks
\* change the list under the walk, each pass gets to every timer that is due.
THEOREM TimersNotLate ==
  ASSUME TimerAssumption, AgeAssumption
  PROVE  TimerSpec => []NotLate
<1>1. TimerIInv /\ TimeInv => NotLate
  <2> SUFFICES ASSUME TimerIInv, TimeInv, NEW e \in Listed
               PROVE  evt[e].age < (evt[e].period + 1) * Tpm + MaxBlock + clock.since
    BY DEF NotLate
  <2>1. evt[e] \in Timer /\ clock.since \in Nat /\ clock.rem \in 0..(Tpm - 1)
    BY TimeFacts
  <2>2. TimeOf(evt[e], clock.since, clock.rem)
    BY DEF TimeInv
  <2> QED BY <2>1, <2>2, AgeOf
<1> QED BY <1>1, TimerInvariant, TimeInvariant, PTL
=============================================================================
