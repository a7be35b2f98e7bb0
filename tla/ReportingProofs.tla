-------------------------- MODULE ReportingProofs ---------------------------
(***************************************************************************)
(* That no attribute misses its maximum interval, for a table of any size, *)
(* any settings and any order of what happens.                             *)
(*                                                                         *)
(* A counter is not a clock: while the timer runs it is ahead by what the  *)
(* timer has run.  The invariant bounds an entry's age by the interval     *)
(* less its counter, plus that; and the timer never runs past the counter. *)
(***************************************************************************)
EXTENDS Reporting, FiniteSetTheorems, TLAPS

\* the entries the property is about
Counted(e) == Served(tab, e) /\ e \notin loose /\ tab[e].max # 0

CountersFit == \A e \in Entries : tab[e].maxCnt <= tab[e].max

TimerFits == timer.left <= timer.secs /\ (~timer.on => timer = NoTimer)

\* after report_handler the timer runs if anything is to be reported
TimerRuns == on /\ ran => \A e \in Entries : Served(tab, e) /\ tab[e].max # 0 => timer.on

AgeFits ==
  \A e \in Entries :
    Counted(e) => /\ age[e] + tab[e].maxCnt <= tab[e].max + (timer.secs - timer.left)
                  /\ timer.on => timer.secs <= tab[e].maxCnt

IInv == TypeOK /\ CountersFit /\ TimerFits /\ TimerRuns /\ AgeFits

-----------------------------------------------------------------------------
(* The timer is started with the nearest counter. *)
LEMMA Started ==
  ASSUME NEW running, running \in BOOLEAN, NEW tb \in [Entries -> Entry], TimerFits, TypeOK,
         running => timer.on,
         StartTimer(running, tb)
  PROVE  /\ timer' \in [on : BOOLEAN, secs : 0..Off, left : 0..Off]
         /\ running => timer' = timer
         /\ ~running => /\ timer'.secs = timer'.left
                        /\ ~timer'.on => timer' = NoTimer
                        /\ \A e \in Entries : Served(tb, e) /\ tb[e].maxCnt \notin {0, Off}
                             => timer'.on /\ timer'.secs <= tb[e].maxCnt
PROOF
<1> USE ReportAssumption DEF ReportAssumption
<1>1. Counters(tb) \subseteq 0..Off
  BY DEF Counters, Entry
<1>2. \A e \in Entries : Served(tb, e) /\ tb[e].maxCnt \notin {0, Off} => tb[e].maxCnt \in Counters(tb)
  <2> TAKE e \in Entries
  <2> HAVE Served(tb, e) /\ tb[e].maxCnt \notin {0, Off}
  <2>1. {tb[e].minCnt, tb[e].maxCnt} \in
          {{tb[f].minCnt, tb[f].maxCnt} : f \in {d \in Entries : Served(tb, d)}}
    OBVIOUS
  <2> QED
    BY <2>1, Zenon DEF Counters
<1>3. CASE running
  BY <1>3 DEF StartTimer, TypeOK
<1>4. CASE ~running /\ Counters(tb) = {}
  <2>1. timer' = NoTimer
    BY <1>4, Zenon DEF StartTimer
  <2>2. NoTimer \in [on : BOOLEAN, secs : 0..Off, left : 0..Off]
    <3>1. 0 \in 0..Off
      OBVIOUS
    <3> QED
      BY <3>1, Zenon DEF NoTimer
  <2>3. NoTimer.secs = NoTimer.left
    BY DEF NoTimer
  <2> QED
    BY <1>2, <1>4, <2>1, <2>2, <2>3, Zenon
<1>5. CASE ~running /\ Counters(tb) # {}
  <2>1. PICK n \in Counters(tb) :
          /\ \A k \in Counters(tb) : n <= k
          /\ timer' = [on |-> TRUE, secs |-> n, left |-> n]
    BY <1>5 DEF StartTimer
  <2>2. n \in 0..Off
    BY <1>1
  <2>3. timer' \in [on : BOOLEAN, secs : 0..Off, left : 0..Off]
    BY <2>1, <2>2, Zenon
  <2>4. timer'.on /\ timer'.secs = n /\ timer'.left = n
    BY <2>1
  <2> QED
    BY <1>2, <1>5, <2>1, <2>3, <2>4
<1> QED
  BY <1>3, <1>4, <1>5, Zenon

(* The last turn of reportAttrs leaves nothing due. *)
LEMMA LastTurn ==
  ASSUME ~Again
  PROVE  Sent = DueNow
PROOF
<1> USE ReportAssumption DEF ReportAssumption
<1>1. SameCluster = DueNow /\ ~(Cardinality(SameCluster) >= 2)
  BY DEF Again
<1>2. IsFiniteSet(SameCluster)
  <2>1. IsFiniteSet(Entries)
    BY FS_Interval DEF Entries
  <2> QED
    BY <1>1, <2>1, FS_Subset DEF DueNow
<1>3. ASSUME NEW e \in SameCluster
      PROVE  Cardinality({d \in SameCluster : d < e}) < 2
  <2> DEFINE before == {d \in SameCluster : d < e}
  <2>1. IsFiniteSet(before) /\ Cardinality(before) <= Cardinality(SameCluster)
    BY <1>2, FS_Subset
  <2>2. Cardinality(before) \in Nat /\ Cardinality(SameCluster) \in Nat
    BY <1>2, <2>1, FS_CardinalityType
  <2> QED
    BY <1>1, <2>1, <2>2
<1> QED
  BY <1>1, <1>3 DEF Sent

LEMMA InitHolds == Init => IInv
PROOF
<1> SUFFICES ASSUME Init PROVE IInv
  OBVIOUS
<1> USE ReportAssumption DEF ReportAssumption
<1>1. ASSUME NEW e \in Entries
      PROVE  /\ tab[e] \in Entry
             /\ tab[e].maxCnt = tab[e].max
  <2>1. PICK s \in Settings : Valid(s) /\ s.max # Off /\ tab[e] = New(s)
    BY DEF Init
  <2>2. s.min \in 0..Off /\ s.max \in 0..Off /\ s.chg \in 0..MaxDiff /\ 0 \in 0..MaxDiff
    OBVIOUS
  <2> QED
    BY <2>1, <2>2 DEF New, Entry
<1>2. tab \in [Entries -> Entry]
  BY <1>1 DEF Init
<1>3. TypeOK
  <2>1. timer \in [on : BOOLEAN, secs : 0..Off, left : 0..Off]
    <3>1. 0 \in 0..Off
      OBVIOUS
    <3> QED
      BY <3>1, Zenon DEF Init, NoTimer
  <2>2. {on, ran} \subseteq BOOLEAN
    BY Zenon DEF Init
  <2>3. age \in [Entries -> 0..Off]
    BY DEF Init
  <2> QED
    BY <1>2, <2>1, <2>2, <2>3 DEF Init, TypeOK
<1>4. ASSUME NEW e \in Entries
      PROVE tab[e].max \in 0..Off
  BY <1>1 DEF Entry
<1>5. CountersFit
  BY <1>1, <1>4 DEF CountersFit
<1>6. TimerFits /\ TimerRuns
  BY DEF Init, TimerFits, TimerRuns, NoTimer
<1>7. AgeFits
  BY <1>1, <1>4 DEF Init, AgeFits, NoTimer
<1> QED
  BY <1>3, <1>5, <1>6, <1>7 DEF IInv
-----------------------------------------------------------------------------
(* The actions, one lemma each. *)

\* the table and an entry's fields, for the steps below
LEMMA EntryFields ==
  ASSUME TypeOK, NEW e \in Entries
  PROVE  /\ tab[e] \in Entry
         /\ tab[e].max \in 0..Off /\ tab[e].maxCnt \in 0..Off
         /\ tab[e].minDft \in 0..Off /\ tab[e].maxDft \in 0..Off
         /\ tab[e].diff \in 0..MaxDiff /\ tab[e].minCnt \in 0..Off
         /\ tab[e].min \in 0..Off /\ tab[e].chg \in 0..MaxDiff
         /\ age[e] \in 0..Off
         /\ timer.secs \in 0..Off /\ timer.left \in 0..Off
         /\ Off \in Nat
PROOF
  BY ReportAssumption DEF ReportAssumption, TypeOK, Entry

LEMMA TimerFiresKeeps == IInv /\ TimerFires => IInv'
PROOF
<1> SUFFICES ASSUME IInv, TimerFires PROVE IInv'
  OBVIOUS
<1> USE ReportAssumption DEF ReportAssumption
<1>0. TypeOK /\ CountersFit /\ TimerFits /\ AgeFits
  BY DEF IInv
<1>1. ASSUME NEW e \in Entries
      PROVE  /\ tab'[e] \in Entry
             /\ tab'[e].max = tab[e].max
             /\ Served(tab, e) => tab'[e].maxCnt = Less(tab[e].maxCnt, timer.secs)
             /\ ~Served(tab, e) => tab'[e] = tab[e]
  <2>1. tab[e] \in Entry /\ timer.secs \in 0..Off
    BY <1>0, EntryFields
  <2>2. Less(tab[e].maxCnt, timer.secs) \in 0..Off /\ Less(tab[e].minCnt, timer.secs) \in 0..Off
    BY <2>1 DEF Entry, Less
  <2>3. tab'[e] = IF Served(tab, e)
                    THEN [tab[e] EXCEPT !.minCnt = Less(tab[e].minCnt, timer.secs),
                                        !.maxCnt = Less(tab[e].maxCnt, timer.secs)]
                  ELSE tab[e]
    BY DEF TimerFires
  <2>4. [tab[e] EXCEPT !.minCnt = Less(tab[e].minCnt, timer.secs),
                       !.maxCnt = Less(tab[e].maxCnt, timer.secs)] \in Entry
    BY <2>1, <2>2, Zenon DEF Entry
  <2>5. tab'[e] \in Entry
    BY <2>1, <2>3, <2>4, Zenon
  <2> QED
    BY <2>1, <2>3, <2>5 DEF Entry
<1>2. \A e \in Entries : /\ Served(tab, e)' <=> Served(tab, e)
                         /\ Served(tab', e) <=> Served(tab, e)
  BY <1>1 DEF Served, TimerFires
<1>3. TypeOK'
  <2>1. timer' \in [on : BOOLEAN, secs : 0..Off, left : 0..Off]
    <3>1. 0 \in 0..Off
      OBVIOUS
    <3> QED
      BY <3>1, Zenon DEF TimerFires, NoTimer
  <2>2. tab' \in [Entries -> Entry]
    BY <1>1 DEF TimerFires
  <2>3. {on, ran}' \subseteq BOOLEAN
    BY <1>0, Zenon DEF TimerFires, TypeOK
  <2> QED
    BY <1>0, <2>1, <2>2, <2>3 DEF TimerFires, TypeOK
<1>4. CountersFit'
  BY <1>0, <1>1, EntryFields DEF CountersFit, Less
<1>5. TimerFits' /\ TimerRuns'
  <2>1. timer' = NoTimer /\ ran' = FALSE
    BY Zenon DEF TimerFires
  <2>2. NoTimer.left <= NoTimer.secs
    BY DEF NoTimer
  <2> QED
    BY <2>1, <2>2 DEF TimerFits, TimerRuns
<1>6. AgeFits'
  <2> SUFFICES ASSUME NEW e \in Entries, Counted(e)'
               PROVE  /\ age'[e] + tab'[e].maxCnt <= tab'[e].max + (timer'.secs - timer'.left)
                      /\ timer'.on => timer'.secs <= tab'[e].maxCnt
    BY DEF AgeFits
  <2>1. Counted(e)
    BY <1>1, <1>2 DEF Counted, Served, TimerFires
  <2>2. /\ age[e] + tab[e].maxCnt <= tab[e].max + (timer.secs - timer.left)
        /\ timer.secs <= tab[e].maxCnt /\ timer.left = 0
    BY <1>0, <2>1 DEF AgeFits, TimerFires
  <2>3. tab'[e].maxCnt = tab[e].maxCnt - timer.secs
    BY <1>0, <1>1, <2>1, <2>2, EntryFields DEF Counted, Less
  <2>4. timer' = NoTimer /\ age' = age
    BY Zenon DEF TimerFires
  <2>5. NoTimer.secs = 0 /\ NoTimer.left = 0 /\ ~NoTimer.on
    BY DEF NoTimer
  <2> QED
    BY <1>0, <1>1, <2>2, <2>3, <2>4, <2>5, EntryFields
<1> QED
  BY <1>3, <1>4, <1>5, <1>6 DEF IInv

LEMMA SecondKeeps == IInv /\ Second => IInv'
PROOF
<1> SUFFICES ASSUME IInv, Second PROVE IInv'
  OBVIOUS
<1> USE ReportAssumption DEF ReportAssumption
<1>0. TypeOK /\ CountersFit /\ TimerFits /\ TimerRuns /\ AgeFits
  BY DEF IInv
<1>1. timer.secs \in 0..Off /\ timer.left \in 0..Off
  BY <1>0 DEF TypeOK
<1>2. /\ timer' \in [on : BOOLEAN, secs : 0..Off, left : 0..Off]
      /\ timer.on => /\ timer'.on /\ timer'.secs = timer.secs
                     /\ timer'.left = timer.left - 1 /\ timer.left # 0
      /\ ~timer.on => timer' = timer
  <2>1. CASE timer.on
    <3>1. timer' = [timer EXCEPT !.left = timer.left - 1] /\ timer.left # 0
      BY <2>1 DEF Second
    <3>2. timer.left - 1 \in 0..Off
      BY <1>1, <3>1
    <3>3. timer' \in [on : BOOLEAN, secs : 0..Off, left : 0..Off]
      BY <1>0, <3>1, <3>2, Zenon DEF TypeOK
    <3>4. timer'.on /\ timer'.secs = timer.secs /\ timer'.left = timer.left - 1
      BY <1>0, <2>1, <3>1 DEF TypeOK
    <3> QED
      BY <2>1, <3>1, <3>3, <3>4
  <2>2. CASE ~timer.on
    BY <1>0, <2>2 DEF Second, TypeOK
  <2> QED
    BY <2>1, <2>2
<1>3. ASSUME NEW e \in Entries
      PROVE  /\ age'[e] \in 0..Off
             /\ age'[e] = age[e] \/ (on /\ ran /\ Served(tab, e) /\ age'[e] = age[e] + 1)
  BY <1>0, EntryFields DEF Second
<1>4. TypeOK'
  <2>1. age' \in [Entries -> 0..Off]
    BY <1>3 DEF Second
  <2>2. {on, ran}' \subseteq BOOLEAN
    BY <1>0, Zenon DEF Second, TypeOK
  <2> QED
    BY <1>0, <1>2, <2>1, <2>2 DEF Second, TypeOK
<1>5. CountersFit'
  BY <1>0 DEF CountersFit, Second
<1>6. TimerFits' /\ TimerRuns'
  BY <1>0, <1>1, <1>2 DEF Second, TimerFits, TimerRuns
<1>7. AgeFits'
  <2> SUFFICES ASSUME NEW e \in Entries, Counted(e)'
               PROVE  /\ age'[e] + tab'[e].maxCnt <= tab'[e].max + (timer'.secs - timer'.left)
                      /\ timer'.on => timer'.secs <= tab'[e].maxCnt
    BY DEF AgeFits
  <2>1. Counted(e)
    BY DEF Counted, Served, Second
  <2>2. /\ age[e] + tab[e].maxCnt <= tab[e].max + (timer.secs - timer.left)
        /\ timer.on => timer.secs <= tab[e].maxCnt
    BY <1>0, <2>1 DEF AgeFits
  <2>3. age'[e] = age[e] \/ (timer.on /\ age'[e] = age[e] + 1)
    BY <1>0, <1>3, <2>1 DEF Counted, TimerRuns
  <2> QED
    BY <1>0, <1>1, <1>2, <2>2, <2>3, EntryFields DEF Second
<1> QED
  BY <1>4, <1>5, <1>6, <1>7 DEF IInv

LEMMA HandleKeeps == IInv /\ (Handle \/ Pause) => IInv'
PROOF
<1> SUFFICES ASSUME IInv, Handle \/ Pause PROVE IInv'
  OBVIOUS
<1>1. UNCHANGED <<tab, bound, timer, age, loose>> /\ ran' \in {FALSE, ran} /\ (ran' => on' = on)
  BY DEF Handle, Pause
<1>2. TypeOK'
  <2>1. {on, ran}' \subseteq BOOLEAN
    BY Zenon DEF Handle, Pause, IInv, TypeOK
  <2> QED
    BY <1>1, <2>1 DEF Handle, Pause, IInv, TypeOK
<1>3. TimerRuns'
  BY <1>1 DEF IInv, TimerRuns, Served, Handle, Pause
<1> QED
  BY <1>1, <1>2, <1>3 DEF IInv, CountersFit, TimerFits, AgeFits, Counted, Served

LEMMA ReportAttrsKeeps == IInv /\ ReportAttrs => IInv'
PROOF
<1> SUFFICES ASSUME IInv, ReportAttrs PROVE IInv'
  OBVIOUS
<1> USE ReportAssumption DEF ReportAssumption
<1>0. TypeOK /\ CountersFit /\ TimerFits /\ TimerRuns /\ AgeFits
  BY DEF IInv
<1>1. ASSUME NEW e \in Entries
      PROVE  /\ tab'[e] \in Entry
             /\ tab'[e].max = tab[e].max
             /\ e \in Sent => tab'[e].maxCnt = tab[e].max /\ age'[e] = 0
             /\ e \notin Sent => tab'[e] = tab[e] /\ age'[e] = age[e]
  <2>1. tab[e] \in Entry /\ tab[e].min \in 0..Off /\ tab[e].max \in 0..Off /\ 0 \in 0..MaxDiff
    BY <1>0, EntryFields
  <2>2. tab'[e] = IF e \in Sent THEN Reloaded(tab[e]) ELSE tab[e]
    BY DEF ReportAttrs
  <2>3. Reloaded(tab[e]) \in Entry
    BY <2>1, Zenon DEF Reloaded, Entry
  <2>4. Reloaded(tab[e]).max = tab[e].max /\ Reloaded(tab[e]).maxCnt = tab[e].max
    BY <2>1 DEF Reloaded, Entry
  <2> QED
    BY <2>1, <2>2, <2>3, <2>4 DEF ReportAttrs
<1>2. \A e \in Entries : /\ Served(tab, e)' <=> Served(tab, e)
                         /\ Served(tab', e) <=> Served(tab, e)
  BY <1>1 DEF Served, ReportAttrs
<1>3. tab' \in [Entries -> Entry] /\ CountersFit'
  BY <1>0, <1>1, EntryFields DEF CountersFit, ReportAttrs
<1>4. loose' \subseteq Entries /\ age' \in [Entries -> 0..Off]
  BY <1>0, <1>1, EntryFields DEF TypeOK, ReportAttrs
<1>5. ASSUME NEW e \in Entries, Counted(e)'
      PROVE  /\ age'[e] + tab'[e].maxCnt <= tab'[e].max + (timer.secs - timer.left)
             /\ timer.on => timer.secs <= tab'[e].maxCnt
  <2>1. Served(tab, e) /\ tab[e].max # 0 /\ e \notin loose'
    BY <1>1, <1>2, <1>5 DEF Counted
  <2>2. CASE e \in loose
    <3>1. ~timer.on /\ e \in Sent
      BY <2>1, <2>2 DEF ReportAttrs
    <3> QED
      BY <1>0, <1>1, <3>1, EntryFields DEF TimerFits, NoTimer
  <2>3. CASE e \notin loose
    <3>1. /\ age[e] + tab[e].maxCnt <= tab[e].max + (timer.secs - timer.left)
          /\ timer.on => timer.secs <= tab[e].maxCnt
      BY <1>0, <2>1, <2>3 DEF AgeFits, Counted
    <3>2. tab[e].maxCnt <= tab[e].max /\ timer.left <= timer.secs
      BY <1>0 DEF CountersFit, TimerFits
    <3> QED
      BY <1>0, <1>1, <3>1, <3>2, EntryFields
  <2> QED
    BY <2>2, <2>3
<1>6. CASE Again
  <2>1. UNCHANGED <<pc, ran, timer, bound, on>>
    BY <1>6 DEF ReportAttrs
  <2>2. TypeOK'
    BY <1>0, <1>3, <1>4, <2>1 DEF TypeOK
  <2>3. TimerFits' /\ TimerRuns'
    BY <1>0, <1>1, <1>2, <2>1 DEF TimerFits, TimerRuns
  <2>4. AgeFits'
    BY <1>5, <2>1 DEF AgeFits
  <2> QED
    BY <1>3, <2>2, <2>3, <2>4 DEF IInv
<1>7. CASE ~Again
  <2>1. StartTimer(timer.on, tab') /\ pc' = "idle" /\ ran' = TRUE /\ UNCHANGED <<bound, on>>
    BY <1>7 DEF ReportAttrs
  <2>2. /\ timer' \in [on : BOOLEAN, secs : 0..Off, left : 0..Off]
        /\ timer.on => timer' = timer
        /\ ~timer.on => /\ timer'.secs = timer'.left
                        /\ ~timer'.on => timer' = NoTimer
                        /\ \A e \in Entries : Served(tab', e) /\ tab'[e].maxCnt \notin {0, Off}
                             => timer'.on /\ timer'.secs <= tab'[e].maxCnt
    <3>1. timer.on \in BOOLEAN
      BY <1>0 DEF TypeOK
    <3> QED
      BY <1>0, <1>3, <2>1, <3>1, Started
  <2>3. TypeOK'
    <3>1. {on, ran}' \subseteq BOOLEAN
      BY <1>0, <2>1, Zenon DEF TypeOK
    <3> QED
      BY <1>0, <1>3, <1>4, <2>1, <2>2, <3>1 DEF TypeOK
  <2>4. ASSUME NEW e \in Entries, Served(tab, e), tab[e].max # 0
        PROVE  tab'[e].maxCnt \notin {0, Off}
    <3>1. Sent = DueNow
      BY <1>7, LastTurn
    <3>2. tab[e].max # Off /\ tab[e].maxCnt <= tab[e].max
      BY <1>0, <2>4 DEF Served, CountersFit
    <3>3. CASE e \in Sent
      BY <1>1, <2>4, <3>2, <3>3
    <3>4. CASE e \notin Sent
      <4>1. tab[e].maxCnt # 0
        BY <2>4, <3>1, <3>4 DEF DueNow, Due
      <4> QED
        BY <1>0, <1>1, <3>2, <3>4, <4>1, EntryFields
    <3> QED
      BY <3>3, <3>4
  <2>5. TimerFits' /\ TimerRuns'
    BY <1>0, <1>1, <1>2, <2>1, <2>2, <2>4 DEF TimerFits, TimerRuns, TypeOK
  <2>6. AgeFits'
    <3> SUFFICES ASSUME NEW e \in Entries, Counted(e)'
                 PROVE  /\ age'[e] + tab'[e].maxCnt <= tab'[e].max + (timer'.secs - timer'.left)
                        /\ timer'.on => timer'.secs <= tab'[e].maxCnt
      BY DEF AgeFits
    <3>1. /\ age'[e] + tab'[e].maxCnt <= tab'[e].max + (timer.secs - timer.left)
          /\ timer.on => timer.secs <= tab'[e].maxCnt
      BY <1>5
    <3>2. Served(tab, e) /\ Served(tab', e) /\ tab[e].max # 0
      BY <1>1, <1>2 DEF Counted
    <3>3. CASE timer.on
      BY <2>2, <3>1, <3>3
    <3>4. CASE ~timer.on
      <4>1. timer.secs - timer.left = 0 /\ timer'.secs - timer'.left = 0
        BY <1>0, <2>2, <3>4 DEF TimerFits, NoTimer
      <4> QED
        BY <2>2, <2>4, <3>1, <3>2, <3>4, <4>1
    <3> QED
      BY <3>3, <3>4
  <2> QED
    BY <1>3, <2>3, <2>5, <2>6 DEF IInv
<1> QED
  BY <1>6, <1>7
LEMMA ChangeKeeps == IInv /\ (\E e \in Entries : Change(e)) => IInv'
PROOF
<1> SUFFICES ASSUME IInv, NEW c \in Entries, Change(c) PROVE IInv'
  OBVIOUS
<1>0. TypeOK /\ CountersFit /\ TimerFits /\ AgeFits
  BY DEF IInv
<1>1. PICK d \in 0..MaxDiff : tab' = [tab EXCEPT ![c] = [tab[c] EXCEPT !.diff = d]]
  BY DEF Change
<1>2. ASSUME NEW e \in Entries
      PROVE  tab'[e] \in Entry /\ tab'[e].max = tab[e].max /\ tab'[e].maxCnt = tab[e].maxCnt
  <2>1. tab[e] \in Entry
    BY <1>0 DEF TypeOK
  <2>2. tab'[e] = IF e = c THEN [tab[e] EXCEPT !.diff = d] ELSE tab[e]
    BY <1>0, <1>1 DEF TypeOK
  <2>3. [tab[e] EXCEPT !.diff = d] \in Entry
    BY <2>1, Zenon DEF Entry
  <2> QED
    BY <2>1, <2>2, <2>3 DEF Entry
<1>3. TypeOK'
  <2>1. tab' \in [Entries -> Entry]
    BY <1>0, <1>1, <1>2 DEF TypeOK
  <2>2. {on, ran}' \subseteq BOOLEAN
    BY <1>0, Zenon DEF TypeOK, Change
  <2> QED
    BY <1>0, <2>1, <2>2 DEF TypeOK, Change
<1>4. CountersFit' /\ TimerFits' /\ TimerRuns'
  BY <1>0, <1>2 DEF CountersFit, TimerFits, TimerRuns, Change
<1>5. AgeFits'
  BY <1>0, <1>2 DEF AgeFits, Counted, Served, Change
<1> QED
  BY <1>3, <1>4, <1>5 DEF IInv

LEMMA ConfigureKeeps ==
  IInv /\ (\E e \in Entries : \E s \in Settings : Configure(e, s)) => IInv'
PROOF
<1> SUFFICES ASSUME IInv, NEW c \in Entries, NEW s \in Settings, Configure(c, s) PROVE IInv'
  OBVIOUS
<1> USE ReportAssumption DEF ReportAssumption
<1>0. TypeOK /\ CountersFit /\ TimerFits /\ AgeFits
  BY DEF IInv
<1>1. /\ tab' = [tab EXCEPT ![c] = Updated(tab[c], s)]
      /\ age' = [e \in Entries |-> IF e \in {c} THEN 0 ELSE age[e]]
      /\ loose' = IF timer.on THEN loose \cup {c} ELSE loose
      /\ ran' = FALSE /\ UNCHANGED <<bound, on, timer, pc>>
  BY DEF Configure, Began
<1>2. ASSUME NEW e \in Entries
      PROVE  /\ tab'[e] \in Entry
             /\ e = c => /\ tab'[e].max = s.max /\ tab'[e].maxCnt = s.max /\ s.max \in 0..Off
                         /\ age'[e] = 0
             /\ e # c => tab'[e] = tab[e] /\ age'[e] = age[e]
  <2>1. tab[e] \in Entry /\ s.min \in 0..Off /\ s.max \in 0..Off /\ s.chg \in 0..MaxDiff
    BY <1>0 DEF TypeOK
  <2>2. tab'[e] = IF e = c THEN Updated(tab[e], s) ELSE tab[e]
    BY <1>0, <1>1 DEF TypeOK
  <2>3. Updated(tab[e], s) \in Entry
    BY <2>1, Zenon DEF Updated, Entry
  <2>4. Updated(tab[e], s).max = s.max /\ Updated(tab[e], s).maxCnt = s.max
    BY <2>1 DEF Updated, Entry
  <2> QED
    BY <1>1, <2>1, <2>2, <2>3, <2>4
<1>3. TypeOK'
  <2>1. tab' \in [Entries -> Entry] /\ age' \in [Entries -> 0..Off] /\ loose' \subseteq Entries
    BY <1>0, <1>1, <1>2, EntryFields DEF TypeOK
  <2>2. {on, ran}' \subseteq BOOLEAN
    BY <1>0, <1>1, Zenon DEF TypeOK
  <2> QED
    BY <1>0, <1>1, <2>1, <2>2 DEF TypeOK
<1>4. CountersFit' /\ TimerFits' /\ TimerRuns'
  BY <1>0, <1>1, <1>2 DEF CountersFit, TimerFits, TimerRuns
<1>5. AgeFits'
  <2> SUFFICES ASSUME NEW e \in Entries, Counted(e)'
               PROVE  /\ age'[e] + tab'[e].maxCnt <= tab'[e].max + (timer.secs - timer.left)
                      /\ timer.on => timer.secs <= tab'[e].maxCnt
    BY <1>1 DEF AgeFits
  <2>1. CASE e = c
    BY <1>0, <1>1, <1>2, <2>1, EntryFields DEF Counted, TimerFits
  <2>2. CASE e # c
    <3>1. Counted(e)
      BY <1>1, <1>2, <2>2 DEF Counted, Served
    <3> QED
      BY <1>0, <1>2, <2>2, <3>1 DEF AgeFits
  <2> QED
    BY <2>1, <2>2
<1> QED
  BY <1>3, <1>4, <1>5 DEF IInv

LEMMA BindKeeps ==
  IInv /\ (\E c \in {Cluster[e] : e \in Entries} : Bind(c)) => IInv'
PROOF
<1> SUFFICES ASSUME IInv, NEW c \in {Cluster[e] : e \in Entries}, Bind(c) PROVE IInv'
  OBVIOUS
<1> USE ReportAssumption DEF ReportAssumption
<1>0. TypeOK /\ CountersFit /\ TimerFits /\ AgeFits
  BY DEF IInv
<1> DEFINE es == {e \in Entries : Cluster[e] = c}
<1>1. /\ age' = [e \in Entries |-> IF e \in es THEN 0 ELSE age[e]]
      /\ loose' = IF timer.on THEN loose \cup es ELSE loose
      /\ ran' = FALSE /\ UNCHANGED <<tab, on, timer, pc>>
      /\ bound' = IF c \in bound THEN bound \ {c} ELSE bound \cup {c}
  BY DEF Bind, Began
<1>2. TypeOK'
  <2>1. age' \in [Entries -> 0..Off] /\ loose' \subseteq Entries
    BY <1>0, <1>1, EntryFields DEF TypeOK
  <2>2. {on, ran}' \subseteq BOOLEAN
    BY <1>0, <1>1, Zenon DEF TypeOK
  <2>3. bound' \subseteq {Cluster[e] : e \in Entries}
    BY <1>0, <1>1, Zenon DEF TypeOK
  <2> QED
    BY <1>0, <1>1, <2>1, <2>2, <2>3 DEF TypeOK
<1>3. CountersFit' /\ TimerFits' /\ TimerRuns'
  BY <1>0, <1>1 DEF CountersFit, TimerFits, TimerRuns
<1>4. AgeFits'
  <2> SUFFICES ASSUME NEW e \in Entries, Counted(e)'
               PROVE  /\ age'[e] + tab[e].maxCnt <= tab[e].max + (timer.secs - timer.left)
                      /\ timer.on => timer.secs <= tab[e].maxCnt
    BY <1>1 DEF AgeFits
  <2>1. CASE e \in es
    <3>1. ~timer.on /\ age'[e] = 0
      BY <1>1, <2>1 DEF Counted
    <3> QED
      BY <1>0, <3>1, EntryFields DEF CountersFit, TimerFits, NoTimer
  <2>2. CASE e \notin es
    <3>1. Counted(e) /\ age'[e] = age[e]
      BY <1>1, <2>2 DEF Counted, Served
    <3> QED
      BY <1>0, <3>1 DEF AgeFits
  <2> QED
    BY <2>1, <2>2
<1> QED
  BY <1>2, <1>3, <1>4 DEF IInv

LEMMA ResetKeeps == IInv /\ (\E e \in Entries : Reset(e)) => IInv'
PROOF
<1> SUFFICES ASSUME IInv, NEW c \in Entries, Reset(c) PROVE IInv'
  OBVIOUS
<1> USE ReportAssumption DEF ReportAssumption
<1>0. TypeOK /\ CountersFit /\ TimerFits /\ AgeFits
  BY DEF IInv
<1>1. /\ StartTimer(FALSE, tab')
      /\ age' = [age EXCEPT ![c] = 0]
      /\ loose' = IF timer.on THEN Entries ELSE loose \cup {d \in Entries : tab[d].maxCnt = 0}
      /\ ran' = FALSE /\ UNCHANGED <<bound, on, pc>>
  BY Zenon DEF Reset
<1>2. ASSUME NEW e \in Entries
      PROVE  /\ tab'[e] \in Entry
             /\ e = c => /\ tab'[e].max = tab[e].maxDft /\ tab'[e].maxCnt = tab[e].maxDft
                         /\ age'[e] = 0
             /\ e # c => tab'[e] = tab[e] /\ age'[e] = age[e]
  <2>1. /\ tab[e] \in Entry /\ tab[e].minDft \in 0..Off /\ tab[e].maxDft \in 0..Off
        /\ 0 \in 0..MaxDiff
    BY <1>0, EntryFields
  <2> DEFINE r == [tab[e] EXCEPT !.min = tab[e].minDft, !.max = tab[e].maxDft, !.chg = 0,
                                 !.minCnt = tab[e].minDft, !.maxCnt = tab[e].maxDft]
  <2>2. tab'[e] = IF e = c THEN r ELSE tab[e]
    BY <1>0 DEF Reset, TypeOK
  <2>3. r \in Entry
    BY <2>1, Zenon DEF Entry
  <2>4. r.max = tab[e].maxDft /\ r.maxCnt = tab[e].maxDft
    BY <2>1 DEF Entry
  <2>5. age'[e] = IF e = c THEN 0 ELSE age[e]
    BY <1>0, <1>1 DEF TypeOK
  <2> HIDE DEF r
  <2> QED
    BY <2>1, <2>2, <2>3, <2>4, <2>5
<1>3. tab' \in [Entries -> Entry]
  BY <1>0, <1>2 DEF Reset, TypeOK
<1>4. /\ timer' \in [on : BOOLEAN, secs : 0..Off, left : 0..Off]
      /\ timer'.secs = timer'.left
      /\ ~timer'.on => timer' = NoTimer
      /\ \A e \in Entries : Served(tab', e) /\ tab'[e].maxCnt \notin {0, Off}
                             => timer'.on /\ timer'.secs <= tab'[e].maxCnt
  BY <1>0, <1>1, <1>3, Started
<1>5. TypeOK'
  <2>1. age' \in [Entries -> 0..Off] /\ loose' \subseteq Entries
    BY <1>0, <1>1, EntryFields DEF TypeOK
  <2>2. {on, ran}' \subseteq BOOLEAN
    BY <1>0, <1>1, Zenon DEF TypeOK
  <2> QED
    BY <1>0, <1>1, <1>3, <1>4, <2>1, <2>2 DEF TypeOK
<1>6. CountersFit' /\ TimerFits' /\ TimerRuns'
  BY <1>0, <1>1, <1>2, <1>4, EntryFields DEF CountersFit, TimerFits, TimerRuns
<1>7. AgeFits'
  <2> SUFFICES ASSUME NEW e \in Entries, Counted(e)'
               PROVE  /\ age'[e] + tab'[e].maxCnt <= tab'[e].max + (timer'.secs - timer'.left)
                      /\ timer'.on => timer'.secs <= tab'[e].maxCnt
    BY DEF AgeFits
  <2>1. /\ Served(tab', e) /\ tab'[e].max \notin {0, Off} /\ tab'[e].max \in 0..Off
        /\ ~timer.on /\ e \notin loose /\ tab[e].maxCnt # 0
    BY <1>1, <1>3 DEF Counted, Served, Entry
  <2>2. age'[e] + tab'[e].maxCnt <= tab'[e].max /\ tab'[e].maxCnt \notin {0, Off}
    <3>1. CASE e = c
      BY <1>2, <2>1, <3>1
    <3>2. CASE e # c
      <4>1. Counted(e)
        BY <1>1, <1>2, <2>1, <3>2 DEF Counted, Served
      <4>2. age[e] + tab[e].maxCnt <= tab[e].max /\ tab[e].maxCnt <= tab[e].max
        BY <1>0, <2>1, <4>1, EntryFields DEF AgeFits, TimerFits, NoTimer, CountersFit
      <4> QED
        BY <1>0, <1>2, <2>1, <3>2, <4>2, EntryFields
    <3> QED
      BY <3>1, <3>2
  <2>3. tab'[e].maxCnt \in 0..Off /\ age'[e] \in 0..Off
    BY <1>3, <1>5 DEF Entry, TypeOK
  <2>4. timer'.secs \in 0..Off
    BY <1>4
  <2> QED
    BY <1>4, <2>1, <2>2, <2>3, <2>4
<1> QED
  BY <1>5, <1>6, <1>7 DEF IInv

-----------------------------------------------------------------------------
LEMMA StepKeeps == IInv /\ [Next]_vars => IInv'
PROOF
<1> SUFFICES ASSUME IInv, [Next]_vars PROVE IInv'
  OBVIOUS
<1>1. CASE UNCHANGED vars
  BY <1>1 DEF vars, IInv, TypeOK, CountersFit, TimerFits, TimerRuns, AgeFits, Counted, Served
<1>2. CASE Next
  BY <1>2, TimerFiresKeeps, SecondKeeps, HandleKeeps, ReportAttrsKeeps, ChangeKeeps,
     ConfigureKeeps, BindKeeps, ResetKeeps, Zenon DEF Next, Happening
<1> QED
  BY <1>1, <1>2

LEMMA Kept == IInv => MaxIntervalKept
PROOF
<1> SUFFICES ASSUME IInv, NEW e \in Entries \ loose, Served(tab, e), tab[e].max # 0
             PROVE  age[e] <= tab[e].max
  BY DEF MaxIntervalKept
<1>1. /\ age[e] + tab[e].maxCnt <= tab[e].max + (timer.secs - timer.left)
      /\ timer.on => timer.secs <= tab[e].maxCnt
  BY DEF IInv, AgeFits, Counted
<1>2. ~timer.on => timer.secs = 0
  BY DEF IInv, TimerFits, NoTimer
<1> QED
  BY <1>1, <1>2, EntryFields DEF IInv

\* The table, the timer and the history keep their types, whatever the settings.
THEOREM ReportingTyped == Spec => []TypeOK
PROOF
<1>1. IInv => TypeOK
  BY DEF IInv
<1> QED
  BY <1>1, InitHolds, StepKeeps, PTL DEF Spec

\* No attribute misses its maximum interval (MaxIntervalKept), however many
\* entries share the timer and in whatever order they are configured, bound,
\* reset, changed and reported.
THEOREM NoReportLate == Spec => []MaxIntervalKept
PROOF
  BY InitHolds, StepKeeps, Kept, PTL DEF Spec
-----------------------------------------------------------------------------
\* ran is set by the last turn of reportAttrs alone
RanIdle == ran => pc = "idle"

LEMMA LastTurnReports ==
  ASSUME TypeOK, ReportAttrs, ~Again
  PROVE  AllReported'
PROOF
<1> SUFFICES ASSUME NEW e \in Entries, Due(e)' PROVE Insatiable(e)'
  BY DEF AllReported
<1>1. Sent = DueNow
  BY LastTurn
<1>2. tab' = [d \in Entries |-> IF d \in Sent THEN Reloaded(tab[d]) ELSE tab[d]] /\ bound' = bound
  BY DEF ReportAttrs
<1>3. CASE e \in Sent
  <2>1. /\ tab'[e].maxCnt = tab'[e].max /\ tab'[e].minCnt = tab'[e].min
        /\ tab'[e].diff = 0 /\ tab'[e].chg \in 0..MaxDiff
    BY <1>2, <1>3, EntryFields DEF Reloaded, Entry
  <2> QED
    BY <2>1, ReportAssumption DEF Due, Changed, Insatiable, ReportAssumption
<1>4. CASE e \notin Sent
  <2>1. tab'[e] = tab[e]
    BY <1>2, <1>4
  <2>2. Due(e)
    BY <1>2, <2>1 DEF Due, Served, Changed
  <2> QED
    BY <1>1, <1>4, <2>2 DEF DueNow
<1> QED
  BY <1>3, <1>4

LEMMA ReportsKept ==
  IInv /\ RanIdle /\ AllReported /\ [Next]_vars => RanIdle' /\ AllReported'
PROOF
<1> SUFFICES ASSUME IInv, RanIdle, AllReported, [Next]_vars PROVE RanIdle' /\ AllReported'
  OBVIOUS
<1>1. CASE UNCHANGED vars
  BY <1>1 DEF vars, RanIdle, AllReported, Due, Served, Changed, Insatiable
<1>2. CASE ReportAttrs
  <2>1. CASE Again
    BY <1>2, <2>1 DEF ReportAttrs, RanIdle, AllReported
  <2>2. CASE ~Again
    BY <1>2, <2>2, LastTurnReports DEF IInv, ReportAttrs, RanIdle
  <2> QED
    BY <2>1, <2>2
<1>3. CASE Handle
  BY <1>3 DEF Handle, RanIdle, AllReported
<1>4. CASE TimerFires \/ Second \/ Happening
  <2>1. ran' = FALSE
    BY <1>4, Zenon DEF TimerFires, Second, Happening, Change, Reset, Configure, Bind, Pause
  <2> QED
    BY <2>1 DEF RanIdle, AllReported
<1> QED
  BY <1>1, <1>2, <1>3, <1>4 DEF Next

\* When report_handler returns, nothing is left due that is not due again at
\* once (AllReported), for a table of any size and any order of its clusters.
THEOREM NothingLeftDue == Spec => []AllReported
PROOF
<1>1. Init => RanIdle /\ AllReported
  BY DEF Init, RanIdle, AllReported
<1> QED
  BY <1>1, InitHolds, StepKeeps, ReportsKept, PTL DEF Spec
=============================================================================
