------------------------------ MODULE DualMode ------------------------------
(***************************************************************************)
(* One radio for two stacks: the slot switch of                            *)
(* apps/common/zigbee_ble_switch.c, the interrupt handlers of              *)
(* platform/services/b92/irq_handler.c and the transmit and receive paths  *)
(* of stack/zigbee/mac/mac_phy.c.                                          *)
(*                                                                         *)
(* The main loop hands the radio over with interrupts off, and the system  *)
(* timer's interrupt, which announces a BLE event, does so by itself.  The *)
(* handlers do not nest (plic_isr.c of this chip), so that each is a step, *)
(* but for the radio's own hardware: it may finish a frame in the middle   *)
(* of one.  The BLE controller and the Zigbee MAC are libraries: the BLE   *)
(* schedule is a count of ticks to the next event, and the MAC may send a  *)
(* frame from its timer interrupt whenever the channel is clear.           *)
(*                                                                         *)
(* The clock has Wrap ticks (2^32 in the code).                            *)
(***************************************************************************)
EXTENDS Integers

CONSTANTS Wrap,     \* values of the clock
          Margin,   \* ZIGBEE_AFTER_TIME and BLE_IDLE_TIME, which are equal
          Interval  \* the longest interval between BLE events, and delay of one

ASSUME DualAssumption ==
  /\ Wrap \in Nat /\ Margin \in Nat /\ Interval \in Nat
  /\ Margin > 0 /\ Interval > Margin
  /\ 2 * (Interval + Margin) < Wrap

VARIABLES slot,   \* CURRENT_SLOT: "ble" or "zb"
          ble,    \* the BLE task: "idle", "on" or in an "event"
          now,    \* clock_time
          left,   \* ticks to the next BLE event; below 0 it is late
          stim,   \* the system timer's interrupt is pending
          busy,   \* TX_BUSY in rf_busyFlag
          air,    \* the radio is sending a Zigbee frame
          tx, rx, \* the radio's status bits
          mask,   \* the radio's interrupts are enabled for Zigbee
          pend,   \* the radio's interrupt is pending
          clr,    \* its handler has found no status and will clear them all
          lost,   \* history: a frame's end was cleared in this way
          task    \* the main loop is in zb_task

bleVars == <<ble, now, left, stim>>
rfVars == <<busy, air, tx, rx, mask, pend, clr, lost>>
vars == <<slot, bleVars, rfVars, task>>

Init ==
  /\ slot = "ble" /\ ble = "on" /\ now \in 0..(Wrap - 1) /\ left = Interval
  /\ stim = FALSE /\ task = FALSE
  /\ busy = FALSE /\ air = FALSE /\ tx = FALSE /\ rx = FALSE
  /\ mask = TRUE /\ pend = FALSE /\ clr = FALSE /\ lost = FALSE

Past(ticks) == ticks % Wrap > Wrap \div 2
Ahead(ticks) == ticks % Wrap < Wrap \div 2

\* get_ble_next_event_tick
next == (now + left) % Wrap

\* bug: the clock's wrap is not considered
BugToBle == next < now + Margin

\* is_switch_to_ble
ToBle == Past(next - (now + Margin))

\* is_switch_to_zigbee
ToZigbee == Ahead(next - (now + Margin))

-----------------------------------------------------------------------------
(* The BLE controller and the radio *)

\* bug: the clock goes on
BugLater == now + 1

Later == (now + 1) % Wrap

Tick ==
  /\ left > -Interval
  /\ now' = Later /\ left' = left - 1
  /\ UNCHANGED <<slot, ble, stim, rfVars, task>>

\* the event's timer goes off
BleDue ==
  /\ ble = "on" /\ left <= 0 /\ ~stim
  /\ stim' = TRUE
  /\ UNCHANGED <<slot, ble, now, left, rfVars, task>>

BleEventEnd ==
  /\ ble = "event"
  /\ ble' = "on" /\ left' \in {Margin, Interval}
  /\ UNCHANGED <<slot, now, stim, rfVars, task>>

\* a frame has been sent, or one has come in: the radio is left in transmit
\* mode until the end of a frame has been seen
SendDone ==
  /\ air
  /\ air' = FALSE /\ tx' = TRUE /\ pend' = (pend \/ mask)
  /\ UNCHANGED <<slot, bleVars, busy, rx, mask, clr, lost, task>>

Receive ==
  /\ slot = "zb" /\ ~busy /\ ~rx
  /\ rx' = TRUE /\ pend' = (pend \/ mask)
  /\ UNCHANGED <<slot, bleVars, busy, air, tx, mask, clr, lost, task>>

-----------------------------------------------------------------------------
(* Interrupt handlers.  The system timer's interrupt has the lowest number  *)
(* (IRQ1_SYSTIMER) and is taken before the others.                         *)

\* rf_performCCA
ChannelClear == slot = "zb" /\ ~busy

\* rf802154_tx, called by the MAC's timer interrupt after rf_performCCA
Send ==
  /\ ~clr /\ ~stim /\ ChannelClear
  /\ busy' = TRUE /\ air' = TRUE /\ tx' = FALSE /\ rx' = FALSE
  /\ UNCHANGED <<slot, bleVars, mask, pend, clr, lost, task>>

\* rf_tx_irq_handler
TxHandler == tx' = FALSE /\ busy' = FALSE

\* rf_irq_handler.  A frame that comes in is dropped or delivered
\* (rf_rx_irq_handler), which makes no difference here; the acknowledgement is
\* sent within the handler.
RfIrq ==
  /\ pend /\ ~clr /\ ~stim
  /\ IF slot = "ble" THEN pend' = FALSE /\ UNCHANGED <<busy, tx, rx, clr>>
     ELSE IF rx THEN rx' = FALSE /\ pend' = tx /\ UNCHANGED <<busy, tx, clr>>
     ELSE IF tx THEN TxHandler /\ pend' = FALSE /\ UNCHANGED <<rx, clr>>
     ELSE clr' = TRUE /\ pend' = FALSE /\ UNCHANGED <<busy, tx, rx>>
  /\ UNCHANGED <<slot, bleVars, air, mask, lost, task>>

\* its last branch
RfIrqClear ==
  /\ clr
  /\ clr' = FALSE /\ tx' = FALSE /\ rx' = FALSE
  /\ lost' = (lost \/ tx)
  /\ UNCHANGED <<slot, bleVars, busy, air, mask, pend, task>>

\* bug: the end of the frame is left to the radio's interrupt, which this one
\* keeps out
BugPollTx == UNCHANGED <<busy, tx>>

\* while a frame is being sent the handler looks for its end and is entered
\* again, as the timer's status stays
PollTx == IF tx THEN TxHandler ELSE UNCHANGED <<busy, tx>>

\* bug: the radio is handed over in the middle of a frame
BugKeepsRadio == FALSE

\* rf_busyFlag is TX_BUSY
KeepsRadio == busy

\* stimer_irq_handler
StimerIrq ==
  /\ stim /\ ~clr
  /\ IF slot = "zb" /\ KeepsRadio
       THEN PollTx /\ UNCHANGED <<slot, bleVars>>
       ELSE /\ slot' = "ble" /\ stim' = FALSE
            /\ ble' = IF ble = "on" THEN "event" ELSE ble
            /\ UNCHANGED <<now, left, busy, tx>>
  /\ UNCHANGED <<air, rx, mask, pend, clr, lost, task>>

-----------------------------------------------------------------------------
(* The main loop: zb_ble_switch_proc.  It does not run while the system     *)
(* timer's handler is entered over and over.                               *)

MainRuns == ~clr /\ ~(stim /\ slot = "zb" /\ busy)

\* switch_to_zb_context with restore_zb_rf_context
ToZigbeeContext ==
  /\ slot' = "zb" /\ task' = TRUE
  /\ tx' = FALSE /\ rx' = FALSE /\ mask' = TRUE
  /\ UNCHANGED <<bleVars, busy, air, pend, clr, lost>>

MainBle ==
  /\ MainRuns /\ ~task /\ slot = "ble"
  /\ (ble = "on" /\ ToZigbee) \/ ble = "idle"
  /\ ToZigbeeContext

\* bug: the main loop does not look at the frame being sent
BugMayLeave == ToBle /\ ble # "idle"

MayLeave == ~busy /\ ToBle /\ ble # "idle"

MainZb ==
  /\ MainRuns /\ ~task /\ slot = "zb"
  /\ IF MayLeave THEN slot' = "ble" /\ UNCHANGED task
                 ELSE task' = TRUE /\ UNCHANGED slot
  /\ UNCHANGED <<bleVars, rfVars>>

TaskEnds ==
  /\ MainRuns /\ task
  /\ task' = FALSE
  /\ UNCHANGED <<slot, bleVars, rfVars>>

\* bug: the mask that the BLE controller has cleared stays
BugRecovered == FALSE

\* ZB_RF_ISR_RECOVERY
Recovered == slot = "zb"

\* ble_task_stop and ble_task_restart, called by the application's tasks
BleSwitched(b) ==
  /\ MainRuns /\ task
  /\ ble' = b
  /\ mask' = Recovered
  /\ pend' = (pend \/ (Recovered /\ (tx \/ rx)))
  /\ UNCHANGED <<slot, now, stim, busy, air, tx, rx, clr, lost, task>>

BleStop == ble # "idle" /\ BleSwitched("idle") /\ UNCHANGED left
BleRestart == ble = "idle" /\ BleSwitched("on") /\ left' = Interval

-----------------------------------------------------------------------------
Interrupt == RfIrq \/ RfIrqClear \/ StimerIrq

MainLoop == MainBle \/ MainZb \/ TaskEnds

Next ==
  \/ Tick \/ BleDue \/ BleEventEnd \/ SendDone \/ Receive \/ Send
  \/ Interrupt \/ MainLoop \/ BleStop \/ BleRestart

Spec == Init /\ [][Next]_vars

\* frames end, BLE events end, and interrupts that are pending are served
FairSpec ==
  /\ Spec
  /\ WF_vars(SendDone) /\ WF_vars(BleEventEnd)
  /\ WF_vars(RfIrq) /\ WF_vars(RfIrqClear) /\ WF_vars(StimerIrq)
-----------------------------------------------------------------------------
(* Correctness *)

\* The radio's state is well formed.
TypeOK ==
  /\ slot \in {"ble", "zb"} /\ ble \in {"idle", "on", "event"}
  /\ now \in 0..(Wrap - 1) /\ left \in (-Interval)..Interval
  /\ {stim, busy, air, tx, rx, mask, pend, clr, lost, task} \subseteq BOOLEAN

\* A Zigbee frame is on the air in Zigbee's slot only, whoever hands the radio
\* over and whenever, and no BLE event falls into it.
OwnSlot == air => slot = "zb" /\ ble # "event"

\* A frame that counts as being sent is being sent, or its end is still to be
\* seen: in the status, with an interrupt pending that will look at it.
EndWillBeSeen == busy => air \/ lost \/ (tx /\ (pend \/ clr))

\* The comparisons of 32-bit ticks say on which side of the margin the next
\* event is, wherever the clock wraps.
ComparesTime == (ToBle <=> left < Margin) /\ (ToZigbee <=> left >= Margin)

\* Every frame is found to have ended, unless its end came just while the
\* radio's handler, entered for nothing, was clearing every status.
FramesEnd == busy ~> (~busy \/ lost)

\* A BLE event that is due gets the radio, under the same exception.
BleServed == stim ~> (~stim \/ lost)
=============================================================================
