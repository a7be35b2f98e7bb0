----------------------------- MODULE Bootloader -----------------------------
(***************************************************************************)
(* The boot loader of apps/bootLoader/bootloader.c: it copies a new image  *)
(* that is flagged and valid over the running one, clears the flag, erases *)
(* the new image and jumps to the application.  Built with UART_ENABLE it  *)
(* first waits two seconds for a host that may send an image.              *)
(*                                                                         *)
(* The copy runs with interrupts off, so that only a loss of power comes   *)
(* between its steps.  Pages are the unit of the copy and stand for the    *)
(* blocks of the UART protocol too.                                        *)
(***************************************************************************)
EXTENDS ImageFlash

CONSTANTS BootRetries  \* MSG_BLOCK_REQUEST_RETRY_MAX

ASSUME RetriesAssumption == BootRetries \in Nat

VARIABLES uart,    \* the boot loader is built with UART_ENABLE
          at,      \* the page being copied or erased
          chk,     \* otaChkTimerEvt is armed
          up,      \* upgradeInfo
          cut      \* history: the host began to replace the new image while
                   \* the running one was not whole

bootVars == <<at, chk, up, cut>>

NoUpgrade == [on |-> FALSE, total |-> 0, off |-> 0, retry |-> 0, timer |-> FALSE]

BootInit ==
  /\ uart \in BOOLEAN
  /\ at = 1 /\ chk = FALSE /\ up = NoUpgrade
  /\ cut = ~Valid(run)

\* bootloader_init, after power-up or a reset: nothing runs without sector 0
PowerUp ==
  /\ mcu = "off" /\ loader
  /\ mcu' = IF uart THEN "wait" ELSE "check"
  /\ chk' = uart /\ up' = NoUpgrade /\ at' = 1
  /\ UNCHANGED <<flashVars, uart, cut>>

\* otaChkDelayCb
CheckTimer ==
  /\ mcu = "wait" /\ chk
  /\ mcu' = "check" /\ chk' = FALSE /\ at' = 1
  /\ UNCHANGED <<flashVars, uart, up, cut>>

-----------------------------------------------------------------------------
(* bootloader_with_ota_check *)

\* bug: the flag is cleared first and the image copied then
BugCheck ==
  /\ mcu = "check"
  /\ mcu' = IF flag # "set" THEN "jump" ELSE IF Valid(new) THEN "erase" ELSE "clear"
  /\ flag' = IF flag = "set" THEN "clear" ELSE flag
  /\ UNCHANGED <<loader, run, runFlag, new, uart, bootVars>>

\* bug: whatever is flagged is copied
BugCheckNothing ==
  /\ mcu = "check"
  /\ mcu' = IF flag # "set" THEN "jump" ELSE "erase"
  /\ UNCHANGED <<flashVars, uart, bootVars>>

\* bug: nothing is installed while the running image is whole
BugCheckRunning ==
  /\ mcu = "check"
  /\ mcu' = IF flag # "set" \/ Valid(run) THEN "jump" ELSE IF Valid(new) THEN "erase" ELSE "clear"
  /\ UNCHANGED <<flashVars, uart, bootVars>>

\* a flagged image is installed if it is valid and erased if it is not
Check ==
  /\ mcu = "check"
  /\ mcu' = IF flag # "set" THEN "jump" ELSE IF Valid(new) THEN "erase" ELSE "clear"
  /\ UNCHANGED <<flashVars, uart, bootVars>>

\* the sector that page at begins
CopyErase ==
  /\ mcu = "erase"
  /\ mcu' = "write"
  /\ IF SectorPages = 1 \/ at % SectorPages = 1
       THEN run' = ErasedSector(run, at) /\ runFlag' = (runFlag /\ 1 \notin SectorOf(at))
       ELSE UNCHANGED <<run, runFlag>>
  /\ UNCHANGED <<loader, new, flag, uart, bootVars>>

\* the page is programmed and reads back right
CopyWrite ==
  /\ mcu = "write"
  /\ run' = Programmed(run, at, new[at]) /\ run'[at] = new[at]
  /\ runFlag' = (runFlag \/ at = 1)
  /\ mcu' = IF at = P THEN "clear" ELSE "erase"
  /\ at' = IF at = P THEN at ELSE at + 1
  /\ cut' = (cut /\ at < P)
  /\ UNCHANGED <<loader, new, flag, uart, chk, up>>

ClearFlag ==
  /\ mcu = "clear"
  /\ flag' = "clear" /\ mcu' = "wipe" /\ at' = 1
  /\ UNCHANGED <<loader, run, runFlag, new, uart, chk, up, cut>>

\* a sector of the new image
Wipe ==
  /\ mcu = "wipe"
  /\ new' = ErasedSector(new, at)
  /\ flag' = IF at = 1 THEN "blank" ELSE flag
  /\ LET next == at + SectorPages
     IN IF next > P THEN mcu' = "jump" /\ UNCHANGED at ELSE at' = next /\ UNCHANGED mcu
  /\ UNCHANGED <<loader, run, runFlag, uart, chk, up, cut>>

\* JUMP_APP, or noAppFlg with the interrupts left off
Jump ==
  /\ mcu = "jump"
  /\ mcu' = IF runFlag THEN "app" ELSE "none"
  /\ UNCHANGED <<flashVars, uart, bootVars>>

Copying == Check \/ CopyErase \/ CopyWrite \/ ClearFlag \/ Wipe \/ Jump

\* the page does not read back: SYSTEM_RESET; a loss of power while it is
\* programmed leaves the same
SpoiltWrite ==
  /\ mcu = "write"
  /\ run' = [run EXCEPT ![at] = Torn]
  /\ runFlag' \in IF at = 1 THEN BOOLEAN ELSE {runFlag}
  /\ mcu' = "off"
  /\ UNCHANGED <<loader, new, flag, uart, bootVars>>

-----------------------------------------------------------------------------
(* bootloader_upgrade: messages of the host, handled while the boot loader  *)
(* waits.                                                                  *)

\* bug: the retry is not counted
BugRetry == IF up.retry < BootRetries THEN up ELSE NoUpgrade

\* bug: one retry too many
BugRetryMore == IF up.retry <= BootRetries THEN [up EXCEPT !.retry = @ + 1] ELSE NoUpgrade

\* a request without an answer is repeated, or the upgrade given up
Retry == IF up.retry < BootRetries THEN [up EXCEPT !.retry = @ + 1] ELSE NoUpgrade

\* upgradeBlockReqTimerCb
BlockReqTimer ==
  /\ mcu = "wait" /\ up.timer
  /\ up' = Retry
  /\ UNCHANGED <<flashVars, mcu, uart, at, chk, cut>>

\* MSG_CMD_OTA_START_REQUEST, for an image of P pages or of none
StartRequest(total) ==
  /\ mcu = "wait" /\ ~up.on
  /\ chk' = FALSE
  /\ up' = [on |-> TRUE, total |-> total, off |-> 0, retry |-> 0, timer |-> TRUE]
  /\ IF total = 0 THEN UNCHANGED <<new, flag, cut>>
     ELSE new' = Blank /\ flag' = "blank" /\ cut' = (cut \/ ~Valid(run))
  /\ UNCHANGED <<loader, run, runFlag, mcu, uart, at>>

\* the last block is followed by the flag, the boot check and the end
BlockDone(y) == y.off = y.total

\* MSG_CMD_OTA_BLOCK_RESPONSE with len blocks of file v from block k on
BlockResponse(v, k, len) ==
  /\ mcu = "wait"
  /\ LET x == [up EXCEPT !.timer = FALSE]
         y == [x EXCEPT !.off = @ + len]
         mine(j) == j > k /\ j <= k + len
     IN IF up.total = 0
          THEN up' = NoUpgrade /\ UNCHANGED <<new, flag, chk>>
        ELSE IF k # up.off
          THEN up' = x /\ UNCHANGED <<new, flag, chk>>
        ELSE /\ new' = [j \in 1..P |-> IF mine(j) THEN v ELSE new[j]]
             /\ IF BlockDone(y)
                  THEN flag' = "set" /\ chk' = TRUE /\ up' = NoUpgrade
                ELSE /\ up' = IF y.off > y.total THEN NoUpgrade
                              ELSE [y EXCEPT !.retry = 0, !.timer = TRUE]
                     /\ UNCHANGED <<flag, chk>>
  /\ UNCHANGED <<loader, run, runFlag, mcu, uart, at, cut>>

\* the same with an error status
BlockError ==
  /\ mcu = "wait"
  /\ up' = NoUpgrade
  /\ UNCHANGED <<flashVars, mcu, uart, at, chk, cut>>

\* bootloader_keyPressedCb: wait for the host
KeyPress ==
  /\ mcu = "wait"
  /\ chk' = FALSE
  /\ UNCHANGED <<flashVars, mcu, uart, at, up, cut>>

UartHost ==
  \/ \E n \in {0, P} : StartRequest(n)
  \/ \E v \in Good \cup Bad, k \in 0..P, len \in 1..2 : BlockResponse(v, k, len)
  \/ BlockError \/ KeyPress
=============================================================================
