---------------------------- MODULE MCMainLoop -----------------------------
(***************************************************************************)
(* What the main loop runs in every turn, on small instances of which one  *)
(* runs; part says which.                                                  *)
(*   "radio" DualMode: the slot switch of zb_ble_switch_proc, and the      *)
(*           interrupts around it, with a clock of Wrap ticks              *)
(*   "time"  EvTimer: a user of each kind, three ticks to a millisecond,   *)
(*           and passes one to four ticks apart                            *)
(*   "pool"  EvTimer: three users of two slots and one with its own timer  *)
(*           call the timer functions twice in a pass, and also re-arm     *)
(*           timers                                                        *)
(***************************************************************************)
EXTENDS DualMode, EvTimer

CONSTANTS u1, u2, u3, st

VARIABLES part, listP, evtP, usedP, handleP, clockP, walkP

Pool == INSTANCE EvTimer WITH
  SlotNum <- 2, PoolUser <- {u1, u2, u3}, StaticUser <- {st}, Period <- {1}, Tpm <- 1,
  MaxBlock <- 1, MaxOps <- 2, MaxAge <- 4, RearmListed <- TRUE,
  list <- listP, evt <- evtP, usedNum <- usedP, handle <- handleP, clock <- clockP,
  walk <- walkP

ASSUME TimersAssumption ==
  TimerAssumption /\ AgeAssumption /\ Pool!TimerAssumption /\ Pool!AgeAssumption

poolVars == <<listP, evtP, usedP, handleP, clockP, walkP>>
partVars == <<part, vars, timerVars, poolVars>>

PartInit ==
  /\ part \in {"radio", "time", "pool"}
  /\ Init /\ (part # "radio" => now = 0)
  /\ TimerInit /\ Pool!TimerInit

Only(p) ==
  /\ part = p /\ UNCHANGED part
  /\ p # "radio" => UNCHANGED vars
  /\ p # "time" => UNCHANGED timerVars
  /\ p # "pool" => UNCHANGED poolVars

PartNext ==
  \/ Only("radio") /\ Next
  \/ Only("time") /\ TimerNext
  \/ Only("pool") /\ Pool!TimerNext

\* Fairness is that of DualMode and of EvTimer.
PartSpec ==
  /\ PartInit /\ [][PartNext]_partVars
  /\ WF_partVars(Only("radio") /\ SendDone) /\ WF_partVars(Only("radio") /\ BleEventEnd)
  /\ WF_partVars(Only("radio") /\ RfIrq) /\ WF_partVars(Only("radio") /\ RfIrqClear)
  /\ WF_partVars(Only("radio") /\ StimerIrq)
  /\ WF_partVars(Only("time") /\ TimerTick) /\ WF_partVars(Only("time") /\ Pass)

-----------------------------------------------------------------------------
\* Pool, list of armed timers, walk and handles agree, and a pass serves all that
\* is due, also where callbacks take timers off the list under the walk, re-arm
\* them, and there are more users than slots: no sequence of calls loses a slot,
\* closes the list to a loop, leaves a cancelled timer armed, or lets a handle
\* cancel another user's timer.
PoolKept == Pool!TimersConsistent /\ Pool!AllDueServed

\* No timer is overdue by more than a millisecond and two passes, with a
\* remainder carried between passes at any distance (time), and with timers that
\* are re-armed while they run and a pool that is full (pool).
NoneLate == NotLate /\ Pool!NotLate

\* The loop goes on: every frame is found to have ended and every BLE event that
\* is due gets the radio, but for the one way in which a status is lost (lost),
\* and a timer that stays armed fires again and again.
KeepsGoing == FramesEnd /\ BleServed /\ Fires
=============================================================================
