------------------------------ MODULE EvTimer ------------------------------
(***************************************************************************)
(* The software timers of proj/os/ev_timer.c.                              *)
(*                                                                         *)
(* A pool of slots holds the timers posted with ev_timer_taskPost; ota.c   *)
(* also owns a timer that is not in the pool.  All armed timers are on one *)
(* list.  ev_timer_process, called from the main loop, converts the ticks  *)
(* since its last call to milliseconds, subtracts them from every timer,   *)
(* then walks the list and calls the callbacks of the timers at zero.  A   *)
(* callback may post, cancel and re-arm timers, and so change the list     *)
(* under the walk.                                                         *)
(*                                                                         *)
(* A callback says by its return value what becomes of its own timer and   *)
(* does not call the timer functions on it: it clears its user's handle    *)
(* and returns -1, as every callback in the sources does (the comment in   *)
(* ota_imageBlockRspWait, ota.c:601, explains why).                        *)
(*                                                                         *)
(* Time is a number of ticks; only differences of the tick counter matter  *)
(* and MaxBlock bounds them, so that the 32-bit counter's wrap is not      *)
(* visible.  Interrupts do not use timers.  Sleeping (drv_pm.c) is left    *)
(* out.                                                                    *)
(***************************************************************************)
EXTENDS Integers, Sequences, FiniteSets, Functions

CONSTANTS SlotNum,    \* TIMER_EVENT_NUM
          PoolUser,   \* users of pool timers: each has one callback and one handle
          StaticUser, \* users with a timer of their own, as ota.c's otaTimer
          NULL,
          Period,     \* the timeouts asked for, in milliseconds
          Tpm,        \* ticks per millisecond: S_TIMER_CLOCK_1US * 1000
          MaxBlock,   \* the longest time between two ev_timer_process, in ticks
          MaxOps,     \* bound on timer calls of one pass over the list
          MaxAge,     \* bound on age; no timer takes as long to fire
          RearmListed \* callers also re-arm a timer that is running

Slots == 1..SlotNum
User == PoolUser \cup StaticUser
Evts == Slots \cup StaticUser

\* what the constants of every instance are assumed to be
TimerAssumption ==
  /\ SlotNum \in Nat \ {0}
  /\ NULL \notin Evts \cup User
  /\ Slots \cap User = {} /\ PoolUser \cap StaticUser = {}
  /\ Period \subseteq Nat \ {0}
  /\ Tpm \in Nat \ {0} /\ MaxBlock \in Nat \ {0} /\ MaxOps \in Nat /\ MaxAge \in Nat
  /\ RearmListed \in BOOLEAN

\* and, where times are concerned, that the bound on age is never reached
AgeAssumption == \A p \in Period : (p + 1) * Tpm + 2 * MaxBlock <= MaxAge

VARIABLES list,    \* the armed timers from timer_head on
          evt,     \* the fields of each timer
          usedNum, \* used_num
          handle,  \* the ev_timer_event_t pointer each user keeps
          clock,   \* ticks since ev_timer_process last ran, and remSysTick
          walk     \* where ev_timer_executeCB is

timerVars == <<list, evt, usedNum, handle, clock, walk>>

\* cb is the user whose callback it is, reg the ticks since curSysTick.
\* age and exact are history: the ticks since the timer was armed (for a
\* periodic timer, since the pass that fired it) and whether it was off the
\* list when it was armed.
Timer == [used : BOOLEAN, cb : User \cup {NULL}, timeout : Nat, period : Nat,
          isRunning : BOOLEAN, reg : Nat, age : Nat, exact : BOOLEAN]

Blank == [used |-> FALSE, cb |-> NULL, timeout |-> 0, period |-> 0,
          isRunning |-> FALSE, reg |-> 0, age |-> 0, exact |-> FALSE]

InMain == [pc |-> "main", cur |-> NULL, head |-> NULL, ending |-> FALSE, ops |-> 0]

TimerInit ==
  /\ list = <<>>
  /\ evt = [e \in Evts |-> IF e \in StaticUser THEN [Blank EXCEPT !.cb = e] ELSE Blank]
  /\ usedNum = 0
  /\ handle = [u \in PoolUser |-> NULL]
  /\ clock = [since |-> 0, rem |-> 0]
  /\ walk = InMain

Listed == Range(list)
HeadOf(l) == IF l = <<>> THEN NULL ELSE Head(l)

Pos(e) == CHOOSE i \in DOMAIN list : list[i] = e

\* timerEvt->next
NextOf(e) == IF Pos(e) < Len(list) THEN list[Pos(e) + 1] ELSE NULL

-----------------------------------------------------------------------------
(* The operations on one timer; each runs with interrupts disabled.        *)

\* ev_on_timer on a timer that is on the list, and on one that is not
ReArmed(t, p) == [t EXCEPT !.period = p, !.timeout = p, !.age = 0, !.exact = FALSE]

Armed(t, p) == [t EXCEPT !.period = p, !.timeout = p, !.age = 0, !.exact = TRUE,
                         !.reg = IF t.isRunning THEN @ ELSE 0]

\* ev_unon_timer with ev_timer_poolDelUpdate
Removed(t) == [t EXCEPT !.isRunning = FALSE, !.reg = 0, !.used = FALSE,
                        !.age = 0, !.exact = FALSE]

\* mutant of Unon: used_num keeps counting the slot
BugUnonKeepsCount(e) ==
  IF e \in Listed
  THEN /\ list' = SubSeq(list, 1, Pos(e) - 1) \o SubSeq(list, Pos(e) + 1, Len(list))
       /\ evt' = [evt EXCEPT ![e] = Removed(@)]
       /\ UNCHANGED usedNum
  ELSE UNCHANGED <<list, evt, usedNum>>

Unon(e) ==
  IF e \in Listed
  THEN /\ list' = SubSeq(list, 1, Pos(e) - 1) \o SubSeq(list, Pos(e) + 1, Len(list))
       /\ evt' = [evt EXCEPT ![e] = Removed(@)]
       /\ usedNum' = IF evt[e].used THEN usedNum - 1 ELSE usedNum
  ELSE UNCHANGED <<list, evt, usedNum>>

\* ev_timer_freeGet takes the first free slot
FreeSlot == {e \in Slots : ~evt[e].used /\ \A f \in 1..(e - 1) : evt[f].used}

-----------------------------------------------------------------------------
(* What users call, from the main loop's tasks or from a callback.         *)

\* the callback of u is running and its timer is still u's
Inside(u) == /\ walk.pc = "call" /\ evt[walk.cur].cb = u
             /\ u \in PoolUser => ~walk.ending

MayCall(u) == /\ walk.pc \in {"main", "call"}
              /\ walk.ops < MaxOps
              /\ ~Inside(u)

Called == walk' = IF walk.pc = "main" THEN walk ELSE [walk EXCEPT !.ops = @ + 1]

\* handle = ev_timer_taskPost(cb, arg, p), by a user that holds no timer; a
\* full pool gives NULL
Post(u, p) ==
  /\ MayCall(u) /\ handle[u] = NULL
  /\ \/ \E e \in FreeSlot :
          /\ usedNum < SlotNum
          /\ evt' = [evt EXCEPT ![e] = Armed([@ EXCEPT !.used = TRUE, !.cb = u], p)]
          /\ usedNum' = usedNum + 1
          /\ list' = <<e>> \o list
          /\ handle' = [handle EXCEPT ![u] = e]
     \/ /\ usedNum >= SlotNum \/ FreeSlot = {}
        /\ UNCHANGED <<list, evt, usedNum, handle>>
  /\ Called
  /\ UNCHANGED clock

\* mutant of Cancel: the caller's pointer is not cleared
BugCancelKeepsHandle(u) ==
  /\ MayCall(u) /\ handle[u] # NULL
  /\ IF evt[handle[u]].used THEN Unon(handle[u]) ELSE UNCHANGED <<list, evt, usedNum>>
  /\ Called
  /\ UNCHANGED <<handle, clock>>

\* ev_timer_taskCancel(&handle)
Cancel(u) ==
  /\ MayCall(u) /\ handle[u] # NULL
  /\ IF evt[handle[u]].used
     THEN Unon(handle[u]) /\ handle' = [handle EXCEPT ![u] = NULL]
     ELSE UNCHANGED <<list, evt, usedNum, handle>>
  /\ Called
  /\ UNCHANGED clock

\* ev_on_timer on a timer that the user knows to run, as gp_sink.c does
Rearm(u, p) ==
  /\ RearmListed /\ MayCall(u) /\ handle[u] \in Listed
  /\ evt' = [evt EXCEPT ![handle[u]] = ReArmed(@, p)]
  /\ Called
  /\ UNCHANGED <<list, usedNum, handle, clock>>

\* ev_on_timer and ev_unon_timer on a user's own timer, as ota.c does
StaticOn(u, p) ==
  /\ MayCall(u)
  /\ IF u \in Listed
     THEN /\ RearmListed
          /\ evt' = [evt EXCEPT ![u] = ReArmed(@, p)]
          /\ UNCHANGED list
     ELSE /\ evt' = [evt EXCEPT ![u] = Armed(@, p)]
          /\ list' = <<u>> \o list
  /\ Called
  /\ UNCHANGED <<usedNum, handle, clock>>

StaticOff(u) ==
  /\ MayCall(u)
  /\ Unon(u)
  /\ Called
  /\ UNCHANGED <<handle, clock>>

-----------------------------------------------------------------------------
(* ev_timer_process.                                                       *)

\* the hardware tick counter
TimerTick ==
  /\ clock.since < MaxBlock /\ walk.pc \in {"main", "call"}
  /\ clock' = [clock EXCEPT !.since = @ + 1]
  /\ evt' = [e \in Evts |-> IF e \in Listed
               THEN [evt[e] EXCEPT !.age = IF @ < MaxAge THEN @ + 1 ELSE @,
                                   !.reg = IF evt[e].isRunning THEN @ ELSE @ + 1]
               ELSE evt[e]]
  /\ UNCHANGED <<list, usedNum, handle, walk>>

\* mutant of UpdateTime: remainders are ignored
BugUpdateTime == clock.since \div Tpm

\* sysTicks and remSysTick give whole milliseconds and a new remainder
UpdateTime == clock.since \div Tpm + (clock.rem + (clock.since % Tpm)) \div Tpm

NewRem == (clock.rem + (clock.since % Tpm)) % Tpm

\* mutants of Elapsed: a new timer is charged with the whole interval, or every
\* timer only with the time since its registration
BugElapsed(t) == UpdateTime
BugElapsedReg(t) == t.reg \div Tpm

\* ev_timer_update: a timer that was armed since the last call only counts
\* from its registration
Elapsed(t) == IF t.isRunning THEN UpdateTime ELSE t.reg \div Tpm

Updated(t) == [t EXCEPT !.timeout = IF @ > Elapsed(t) THEN @ - Elapsed(t) ELSE 0,
                        !.isRunning = TRUE, !.reg = 0]

Process ==
  /\ walk.pc = "main" /\ clock.since > 0
  /\ clock' = [since |-> 0, rem |-> NewRem]
  /\ IF UpdateTime > 0
     THEN /\ evt' = [e \in Evts |-> IF e \in Listed THEN Updated(evt[e]) ELSE evt[e]]
          /\ walk' = [walk EXCEPT !.pc = "walk", !.cur = HeadOf(list), !.head = HeadOf(list)]
     ELSE UNCHANGED <<evt, walk>>
  /\ UNCHANGED <<list, usedNum, handle>>

\* ev_timer_executeCB steps over a timer that is not due, or ends the pass
Skip ==
  /\ walk.pc = "walk" /\ walk.cur # NULL
  /\ evt[walk.cur].timeout > 0
  /\ walk' = [walk EXCEPT !.cur = NextOf(walk.cur)]
  /\ UNCHANGED <<list, evt, usedNum, handle, clock>>

Finish ==
  /\ walk.pc = "walk" /\ walk.cur = NULL
  /\ walk' = InMain
  /\ UNCHANGED <<list, evt, usedNum, handle, clock>>

\* the callback clears its user's handle
Forgotten(u) == [v \in PoolUser |-> IF v = u THEN NULL ELSE handle[v]]

\* the callback of a due timer is entered; one that will return -1 may clear
\* its user's handle first, and then post a new timer
Fire(ending) ==
  /\ walk.pc = "walk" /\ walk.cur # NULL
  /\ evt[walk.cur].timeout = 0
  /\ walk' = [walk EXCEPT !.pc = "call", !.ending = ending]
  /\ handle' = IF ending THEN Forgotten(evt[walk.cur].cb) ELSE handle
  /\ UNCHANGED <<list, evt, usedNum, clock>>

\* mutants of Resume: the walk goes back to the head it remembers, or ends when
\* the head has changed
BugResumeOldHead(n) ==
  walk' = [walk EXCEPT !.pc = "walk", !.ending = FALSE,
                       !.cur = IF HeadOf(list') # walk.head THEN walk.head ELSE n,
                       !.head = HeadOf(list')]

BugResumeGivesUp(n) ==
  walk' = [walk EXCEPT !.pc = "walk", !.ending = FALSE,
                       !.cur = IF HeadOf(list') # walk.head THEN NULL ELSE n,
                       !.head = HeadOf(list')]

\* where the walk goes on after a callback: at the head when the list has got
\* another head, else at the next timer n
Resume(n) ==
  walk' = [walk EXCEPT !.pc = "walk", !.ending = FALSE,
                       !.cur = IF HeadOf(list') # walk.head THEN HeadOf(list') ELSE n,
                       !.head = HeadOf(list')]

\* the callback returns a negative number, having cleared its user's handle
ReturnStop ==
  /\ walk.pc = "call"
  /\ handle' = IF walk.ending THEN handle ELSE Forgotten(evt[walk.cur].cb)
  /\ Unon(walk.cur)
  /\ Resume(NextOf(walk.cur))
  /\ UNCHANGED clock

\* the callback returns 0, or a new period p
ReturnAgain(p) ==
  /\ walk.pc = "call" /\ ~walk.ending
  /\ evt' = [evt EXCEPT ![walk.cur].period = p, ![walk.cur].timeout = p,
                        ![walk.cur].age = clock.since]
  /\ UNCHANGED <<list, usedNum, handle, clock>>
  /\ Resume(NextOf(walk.cur))

-----------------------------------------------------------------------------
UserCall ==
  \/ \E u \in PoolUser, p \in Period : Post(u, p) \/ Rearm(u, p)
  \/ \E u \in PoolUser : Cancel(u)
  \/ \E u \in StaticUser : StaticOff(u) \/ \E p \in Period : StaticOn(u, p)

Pass ==
  \/ Process \/ Skip \/ Finish \/ ReturnStop
  \/ \E b \in BOOLEAN : Fire(b)
  \/ \E p \in Period : ReturnAgain(p)

TimerNext == TimerTick \/ UserCall \/ Pass

TimerSpec == TimerInit /\ [][TimerNext]_timerVars

\* the main loop and the tick counter never stop
TimerFairSpec == TimerSpec /\ WF_timerVars(TimerTick) /\ WF_timerVars(Pass)
-----------------------------------------------------------------------------
TimerTypeOK ==
  /\ list \in Seq(Evts)
  /\ evt \in [Evts -> Timer]
  /\ usedNum \in 0..SlotNum
  /\ handle \in [PoolUser -> Slots \cup {NULL}]
  /\ clock \in [since : 0..MaxBlock, rem : 0..(Tpm - 1)]
  /\ walk \in [pc : {"main", "walk", "call"}, cur : Evts \cup {NULL},
               head : Evts \cup {NULL}, ending : BOOLEAN, ops : 0..MaxOps]

\* The timer list never holds a timer twice, its pool timers are exactly the
\* slots in use, and used_num counts them: no sequence of posts, cancels and
\* callbacks loses a slot or makes the list a loop.
PoolMatchesList ==
  /\ IsInjective(list)
  /\ Listed \cap Slots = {e \in Slots : evt[e].used}
  /\ usedNum = Cardinality({e \in Slots : evt[e].used})

\* The walk of ev_timer_executeCB, which runs while callbacks change the list,
\* only ever stands on an armed timer.
WalkOnList == walk.cur # NULL => walk.cur \in Listed

\* The timers a user's handle names and the timers on the list are the same,
\* but for the one whose callback has cleared its handle: no cancelled timer
\* stays armed, no handle cancels the timer of another user.
HandlesExact ==
  \A u \in PoolUser, e \in Slots :
    (handle[u] = e) <=> /\ e \in Listed /\ evt[e].cb = u
                        /\ ~(walk.pc = "call" /\ walk.ending /\ walk.cur = e)

\* Pool, list of armed timers, walk and handles agree, also where callbacks take
\* timers off the list under the walk, re-arm them, and there are more users
\* than slots.
TimersConsistent == TimerTypeOK /\ PoolMatchesList /\ WalkOnList /\ HandlesExact

\* When ev_timer_process returns, every timer that was due has been called,
\* also where callbacks changed the list under the walk.
AllDueServed == walk.pc = "main" => \A e \in Listed : evt[e].timeout > 0

\* Milliseconds counted off a timer differ from the ticks it has run by less
\* than two milliseconds, however long it runs: remainders are neither lost nor
\* accumulated.  (age - since is what ev_timer_process has seen of its life.)
NoDrift ==
  walk.pc = "main" =>
    \A e \in Listed :
      LET counted == (evt[e].period - evt[e].timeout) * Tpm
          ran     == evt[e].age - clock.since
      IN evt[e].exact /\ evt[e].isRunning => counted - ran < Tpm /\ ran - counted < 2 * Tpm

\* A timer's callback runs only when at least its timeout, less than one
\* millisecond of rounding, has passed.
NotEarly ==
  walk.pc = "call" /\ evt[walk.cur].exact =>
    evt[walk.cur].age > (evt[walk.cur].period - 1) * Tpm

\* A timer that was off the list when it was armed neither drifts nor fires
\* early, with passes at any distance and a remainder carried between them.
OnTime == NoDrift /\ NotEarly

\* No timer is ever overdue by more than the millisecond that rounding may cost,
\* the longest time between two passes and what the present pass has taken, one
\* that is re-armed while it runs included: whatever other callbacks do to the
\* list, each pass gets to every timer that is due.  (An age above MaxAge, which is
\* not counted, would be above this bound: AgeAssumption.)
NotLate ==
  \A e \in Listed : evt[e].age < (evt[e].period + 1) * Tpm + MaxBlock + clock.since

\* A timer that stays armed fires again and again.
Fires ==
  \A e \in Evts : <>[](e \in Listed) => []<>(walk.pc = "call" /\ walk.cur = e)
=============================================================================
