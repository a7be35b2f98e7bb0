--------------------------- MODULE MainLoopProofs ---------------------------
(***************************************************************************)
(* Proofs about what the main loop runs in every turn.                     *)
(*                                                                         *)
(* DualMode: the radio's state is well formed, Zigbee frames are sent in   *)
(* Zigbee's slot only, and the end of a frame is not missed.               *)
(*                                                                         *)
(* EvTimer: what EvTimerProofs proves of any timers holds of both sets of  *)
(* timers of MCMainLoop, whatever else the main loop does.                 *)
(***************************************************************************)
EXTENDS MCMainLoop, EvTimerProofs

-----------------------------------------------------------------------------
(* The slot switch *)

\* OwnSlot and EndWillBeSeen, and why: only a slot without a frame under way is
\* handed over, BLE events are in BLE's slot, and in Zigbee's the radio's
\* interrupts are enabled.
IInv ==
  /\ TypeOK
  /\ air => busy /\ ~tx
  /\ busy => slot = "zb"
  /\ ble = "event" => slot = "ble"
  /\ slot = "zb" => mask
  /\ EndWillBeSeen

\* The clock stays within its width.
LEMMA ClockInRange == TypeOK => Later \in 0..(Wrap - 1)
  BY DualAssumption, SMT DEF DualAssumption, Later, TypeOK

\* The invariant holds at the start.
LEMMA InitIInv == Init => IInv
  <1> SUFFICES ASSUME Init PROVE IInv
    OBVIOUS
  <1>1. Interval \in (-Interval)..Interval
    BY DualAssumption, SMT DEF DualAssumption
  <1>2. TypeOK
    BY <1>1, Zenon DEF Init, TypeOK
  <1> QED
    BY <1>2 DEF Init, IInv, EndWillBeSeen

\* What the BLE controller and the radio do keeps the invariant.
LEMMA HardwareKeeps ==
  ASSUME IInv, Tick \/ BleDue \/ BleEventEnd \/ SendDone \/ Receive \/ Send
  PROVE  IInv'
  <1> USE DualAssumption DEF DualAssumption, IInv, TypeOK, EndWillBeSeen
  <1>1. CASE Tick
    <2>1. Later \in 0..(Wrap - 1)  BY ClockInRange
    <2> QED  BY <1>1, <2>1 DEF Tick, bleVars, rfVars
  <1>2. CASE BleDue       BY <1>2 DEF BleDue, rfVars
  <1>3. CASE BleEventEnd  BY <1>3 DEF BleEventEnd, rfVars
  <1>4. CASE SendDone     BY <1>4 DEF SendDone, bleVars
  <1>5. CASE Receive      BY <1>5 DEF Receive, bleVars
  <1>6. CASE Send         BY <1>6 DEF Send, ChannelClear, bleVars
  <1> QED  BY <1>1, <1>2, <1>3, <1>4, <1>5, <1>6

\* The interrupt handlers keep the invariant.
LEMMA InterruptKeeps ==
  ASSUME IInv, Interrupt
  PROVE  IInv'
  <1> USE DualAssumption DEF DualAssumption, IInv, TypeOK, EndWillBeSeen
  <1>1. CASE RfIrq       BY <1>1 DEF RfIrq, TxHandler, bleVars
  <1>2. CASE RfIrqClear  BY <1>2 DEF RfIrqClear, bleVars
  <1>3. CASE StimerIrq   BY <1>3 DEF StimerIrq, KeepsRadio, PollTx, TxHandler, bleVars
  <1> QED  BY <1>1, <1>2, <1>3 DEF Interrupt

\* The main loop and the tasks it runs keep the invariant.
LEMMA MainKeeps ==
  ASSUME IInv, MainLoop \/ BleStop \/ BleRestart
  PROVE  IInv'
  <1> USE DualAssumption DEF DualAssumption, IInv, TypeOK, EndWillBeSeen
  <1>1. CASE MainBle     BY <1>1 DEF MainBle, ToZigbeeContext, bleVars
  <1>2. CASE MainZb      BY <1>2 DEF MainZb, MayLeave, bleVars, rfVars
  <1>3. CASE TaskEnds    BY <1>3 DEF TaskEnds, bleVars, rfVars
  <1>4. CASE BleStop     BY <1>4 DEF BleStop, BleSwitched, Recovered
  <1>5. CASE BleRestart  BY <1>5 DEF BleRestart, BleSwitched, Recovered
  <1> QED  BY <1>1, <1>2, <1>3, <1>4, <1>5 DEF MainLoop

\* Every step keeps the invariant.
LEMMA NextKeeps == IInv /\ [Next]_vars => IInv'
  <1> SUFFICES ASSUME IInv, [Next]_vars PROVE IInv'
    OBVIOUS
  <1>1. CASE Next
    BY <1>1, HardwareKeeps, InterruptKeeps, MainKeeps DEF Next
  <1>2. CASE UNCHANGED vars
    BY <1>2 DEF IInv, TypeOK, EndWillBeSeen, vars, bleVars, rfVars
  <1> QED  BY <1>1, <1>2

LEMMA IInvAlways == Spec => []IInv
  BY InitIInv, NextKeeps, PTL DEF Spec

\* The radio's state is well formed: for every clock, margin and schedule.
THEOREM TypeCorrect == Spec => []TypeOK
  <1>1. IInv => TypeOK  BY DEF IInv
  <1> QED  BY <1>1, IInvAlways, PTL

\* A Zigbee frame is on the air in Zigbee's slot only, and no BLE event falls
\* into it.
THEOREM SlotKept == Spec => []OwnSlot
  <1>1. IInv => OwnSlot  BY DEF IInv, OwnSlot
  <1> QED  BY <1>1, IInvAlways, PTL

\* A frame that counts as being sent is being sent, or its end will be looked
\* at, or was cleared unseen.
THEOREM EndSeen == Spec => []EndWillBeSeen
  <1>1. IInv => EndWillBeSeen  BY DEF IInv
  <1> QED  BY <1>1, IInvAlways, PTL
-----------------------------------------------------------------------------
(* The comparisons of ticks *)

\* What a remainder is near 0: the number itself, moved by clock widths.
LEMMA Remainder ==
  ASSUME NEW x \in Int, -2 * Wrap <= x, x < 2 * Wrap
  PROVE  x % Wrap = IF x < -Wrap THEN x + 2 * Wrap ELSE IF x < 0 THEN x + Wrap
                    ELSE IF x < Wrap THEN x ELSE x - Wrap
  BY DualAssumption, SMTT(60) DEF DualAssumption

\* Half of the clock's width.
LEMMA Half == /\ Wrap \div 2 \in Int
              /\ 2 * (Wrap \div 2) <= Wrap /\ Wrap < 2 * (Wrap \div 2) + 2
  BY DualAssumption, SMT DEF DualAssumption

\* The distance that the two comparisons look at is the true one, modulo the
\* clock's width.
LEMMA Distance ==
  ASSUME TypeOK
  PROVE  (next - (now + Margin)) % Wrap
           = IF left >= Margin THEN left - Margin ELSE left - Margin + Wrap
  <1> DEFINE x == next - (now + Margin)
  <1>1. now \in Int /\ left \in Int /\ 0 <= now /\ now < Wrap /\ -Interval <= left
        /\ left <= Interval
    BY DualAssumption DEF DualAssumption, TypeOK
  <1>2. next = IF now + left < 0 THEN now + left + Wrap
               ELSE IF now + left < Wrap THEN now + left ELSE now + left - Wrap
    <2>1. now + left \in Int /\ -Wrap <= now + left /\ now + left < 2 * Wrap
      BY <1>1, DualAssumption DEF DualAssumption
    <2> QED
      BY <1>1, <2>1, Remainder, DualAssumption DEF DualAssumption, next
  <1>3. /\ x \in Int /\ -2 * Wrap <= x /\ x < 2 * Wrap
        /\ x \in {left - Margin, left - Margin + Wrap, left - Margin - Wrap}
        /\ x < Wrap - Margin /\ x >= -(Wrap - 1 + Margin)
    BY <1>1, <1>2, DualAssumption DEF DualAssumption
  <1> HIDE DEF x
  <1>4. x % Wrap = IF x < -Wrap THEN x + 2 * Wrap ELSE IF x < 0 THEN x + Wrap
                   ELSE IF x < Wrap THEN x ELSE x - Wrap
    BY <1>3, Remainder
  <1>5. x % Wrap = IF left >= Margin THEN left - Margin ELSE left - Margin + Wrap
    BY <1>1, <1>3, <1>4, DualAssumption DEF DualAssumption
  <1> QED
    BY <1>5 DEF x

\* The comparisons of ticks are right wherever the clock wraps.
THEOREM TimeCompared == Spec => []ComparesTime
  <1>1. TypeOK => ComparesTime
    <2> SUFFICES ASSUME TypeOK PROVE ComparesTime
      OBVIOUS
    <2>1. left \in Int /\ -Interval <= left /\ left <= Interval
      BY DualAssumption DEF DualAssumption, TypeOK
    <2>2. ToBle <=> left < Margin
      BY <2>1, Half, Distance, DualAssumption DEF DualAssumption, ToBle, Past
    <2>3. ToZigbee <=> left >= Margin
      BY <2>1, Half, Distance, DualAssumption DEF DualAssumption, ToZigbee, Ahead
    <2> QED
      BY <2>2, <2>3 DEF ComparesTime
  <1> QED
    BY <1>1, TypeCorrect, PTL

-----------------------------------------------------------------------------
(* The pool *)

\* The pool of MCMainLoop, with the theorems about it.
Proved == INSTANCE EvTimerProofs WITH
  SlotNum <- 2, PoolUser <- {u1, u2, u3}, StaticUser <- {st}, Period <- {1}, Tpm <- 1,
  MaxBlock <- 1, MaxOps <- 2, MaxAge <- 4, RearmListed <- TRUE,
  list <- listP, evt <- evtP, usedNum <- usedP, handle <- handleP, clock <- clockP,
  walk <- walkP

\* Its constants are as the theorems assume.
LEMMA PoolAssumed == Proved!TimerAssumption /\ Proved!AgeAssumption
  BY TimersAssumption
  DEF TimersAssumption, Pool!TimerAssumption, Proved!TimerAssumption, Pool!Slots, Proved!Slots,
      Pool!User, Proved!User, Pool!Evts, Proved!Evts, Pool!AgeAssumption, Proved!AgeAssumption

\* It starts and steps as the theorems say.
LEMMA PoolStarts == Pool!TimerInit => Proved!TimerInit
  BY Zenon DEF Pool!TimerInit, Proved!TimerInit, Pool!Slots, Proved!Slots, Pool!User, Proved!User,
     Pool!Evts, Proved!Evts, Pool!Timer, Proved!Timer, Pool!Blank, Proved!Blank, Pool!InMain,
     Proved!InMain

\* Its users, ticks and passes are those of the theorems.
LEMMA PoolSteps == Pool!TimerNext => Proved!TimerNext
  BY Zenon DEF Pool!TimerNext, Proved!TimerNext, Pool!TimerTick, Proved!TimerTick, Pool!UserCall,
     Proved!UserCall, Pool!Pass, Proved!Pass, Pool!Post, Proved!Post, Pool!Cancel, Proved!Cancel,
     Pool!Rearm, Proved!Rearm, Pool!StaticOn, Proved!StaticOn, Pool!StaticOff, Proved!StaticOff,
     Pool!Process, Proved!Process, Pool!Skip, Proved!Skip, Pool!Finish, Proved!Finish, Pool!Fire,
     Proved!Fire, Pool!ReturnStop, Proved!ReturnStop, Pool!ReturnAgain, Proved!ReturnAgain,
     Pool!Slots, Proved!Slots, Pool!User, Proved!User, Pool!Evts, Proved!Evts, Pool!InMain,
     Proved!InMain, Pool!Listed, Proved!Listed, Pool!Range, Proved!Range, Pool!HeadOf,
     Proved!HeadOf, Pool!Pos, Proved!Pos, Pool!NextOf, Proved!NextOf, Pool!ReArmed, Proved!ReArmed,
     Pool!Armed, Proved!Armed, Pool!Removed, Proved!Removed, Pool!Unon, Proved!Unon, Pool!FreeSlot,
     Proved!FreeSlot, Pool!Inside, Proved!Inside, Pool!MayCall, Proved!MayCall, Pool!Called,
     Proved!Called, Pool!UpdateTime, Proved!UpdateTime, Pool!NewRem, Proved!NewRem, Pool!Elapsed,
     Proved!Elapsed, Pool!Updated, Proved!Updated, Pool!Forgotten, Proved!Forgotten, Pool!Resume,
     Proved!Resume

\* What the theorems say is what the run checks: its list and handles agree.
LEMMA PoolAgrees == Proved!TimersConsistent => Pool!TimersConsistent
  BY Zenon DEF Pool!TimersConsistent, Proved!TimersConsistent, Pool!TimerTypeOK, Proved!TimerTypeOK,
     Pool!Timer, Proved!Timer, Pool!PoolMatchesList, Proved!PoolMatchesList, Pool!WalkOnList,
     Proved!WalkOnList, Pool!HandlesExact, Proved!HandlesExact, Pool!Listed, Proved!Listed,
     Pool!Range, Proved!Range, Pool!IsInjective, Proved!IsInjective, Pool!Cardinality,
     Proved!Cardinality, Pool!Slots, Proved!Slots, Pool!User, Proved!User, Pool!Evts, Proved!Evts

\* And all that is due is served.
LEMMA PoolServes == Proved!AllDueServed => Pool!AllDueServed
  BY Zenon DEF Pool!AllDueServed, Proved!AllDueServed, Pool!Listed, Proved!Listed, Pool!Range,
     Proved!Range

\* None is late.
LEMMA PoolNotLate == Proved!NotLate => Pool!NotLate
  BY Zenon DEF Pool!NotLate, Proved!NotLate, Pool!Listed, Proved!Listed, Pool!Range, Proved!Range

\* The pool's part of the main loop is one of the specifications of EvTimerProofs.
LEMMA PoolIsTimers == PartSpec => Proved!TimerSpec
<1>1. PartInit => Proved!TimerInit
  BY PoolStarts DEF PartInit
<1>2. [PartNext]_partVars => [Proved!TimerNext]_(Proved!timerVars)
  BY PoolSteps DEF PartNext, Only, partVars, poolVars, Proved!timerVars
<1> QED
  BY <1>1, <1>2, PTL DEF PartSpec, Proved!TimerSpec

\* And so is the other.
LEMMA TimeIsTimers == PartSpec => TimerSpec
<1>1. PartInit => TimerInit
  BY DEF PartInit
<1>2. [PartNext]_partVars => [TimerNext]_timerVars
  BY DEF PartNext, Only, partVars, timerVars
<1> QED
  BY <1>1, <1>2, PTL DEF PartSpec, TimerSpec

\* The pool, the list of armed timers, the walk over it and the users' handles
\* agree, and a pass serves all that is due, though the main loop runs it among
\* other things, and callbacks post, cancel and re-arm more timers than there are
\* slots (ev_timer.c).
THEOREM PoolAlwaysKept == PartSpec => []PoolKept
<1>1. Proved!TimerSpec => [](Proved!TimersConsistent)
  BY PoolAssumed, Proved!TimersAgree
<1>2. Proved!TimerSpec => [](Proved!AllDueServed)
  BY PoolAssumed, Proved!NoDueTimerMissed
<1> QED
  BY <1>1, <1>2, PoolIsTimers, PoolAgrees, PoolServes, PTL DEF PoolKept

\* No timer of either part is overdue by more than a millisecond and two passes,
\* though it is re-armed while it runs, remainders are carried from pass to pass
\* and callbacks change the list under the walk (ev_timer.c).
THEOREM NoTimerLate == PartSpec => []NoneLate
<1>1. Proved!TimerSpec => [](Proved!NotLate)
  BY PoolAssumed, Proved!TimersNotLate
<1>2. TimerSpec => []NotLate
  BY TimersAssumption, TimersNotLate DEF TimersAssumption
<1> QED
  BY <1>1, <1>2, PoolIsTimers, TimeIsTimers, PoolNotLate, PTL DEF NoneLate
=============================================================================
