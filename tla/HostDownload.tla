---------------------------- MODULE HostDownload ----------------------------
(***************************************************************************)
(* The image download over the host interface of a running application:    *)
(* zbhci_uartOTAHandle and its timer, g_hciOtaTimer, in                    *)
(* zbhci/zbhciCmdProcess.c.  The host sends an image for the device itself *)
(* (local), which the boot loader is to install, or an OTA file that the   *)
(* device shall serve to others (remote).                                  *)
(*                                                                         *)
(* ota_info is cleared at the end of a download, so that its start address *)
(* is then 0: the first page of that address is sector 0.                  *)
(***************************************************************************)
EXTENDS ImageFlash

CONSTANTS HostRetries  \* HCI_OTA_BLOCK_REQUEST_RETRY_CNT_MAX

ASSUME HostAssumption == HostRetries \in Nat

VARIABLES info,      \* ota_info
          hciTimer   \* g_hciOtaTimer: "off", "block" or "reboot"

hostVars == <<info, hciTimer>>

NoInfo == [on |-> FALSE, addr |-> "zero", total |-> 0, off |-> 0, cnt |-> 0, local |-> FALSE]

HostInit == info = NoInfo /\ hciTimer = "off"

HostReset == info' = NoInfo /\ hciTimer' = "off"

\* the first blocks of the new image's area, erased sector by sector
ErasedUpTo(n) == [j \in 1..P |-> IF (j - 1) \div SectorPages <= n \div SectorPages
                                 THEN Erased ELSE new[j]]

\* bug: ota_info is cleared before the sectors used are erased
BugEndFailed(x) ==
  /\ info' = NoInfo
  /\ loader' = FALSE /\ UNCHANGED <<new, flag>>

\* uart_send_ota_end with an error: the sectors used are erased, wherever the
\* download was
EndFailed(x) ==
  /\ info' = NoInfo
  /\ IF x.addr = "zero" THEN loader' = FALSE /\ UNCHANGED <<new, flag>>
     ELSE new' = ErasedUpTo(x.off) /\ flag' = "blank" /\ UNCHANGED loader

\* ZBHCI_CMD_OTA_START_REQUEST; a refused size leaves the address and the
\* size behind
HostStart(total, local) ==
  /\ mcu = "app" /\ ~info.on
  /\ IF total > P
       THEN /\ info' = [info EXCEPT !.addr = "new", !.total = total]
            /\ UNCHANGED <<new, flag, hciTimer>>
       ELSE /\ info' = [on |-> TRUE, addr |-> "new", total |-> total, off |-> 0, cnt |-> 0,
                        local |-> local]
            /\ new' = ErasedUpTo(total) /\ flag' = "blank"
            /\ hciTimer' = "block"
  /\ UNCHANGED <<loader, run, runFlag, mcu>>

\* the block carries a start-up flag that the kind of download refuses: a local
\* image must have it, an OTA file must not
FlagRefused(v, k) == k = 0 /\ (info.local <=> v \in Remote)

\* programming block k of file v at the download's address, with its flag
\* replaced by 0xff
BlockStored(v, k) ==
  IF info.addr = "zero" THEN loader' = FALSE /\ UNCHANGED <<new, flag>>
  ELSE /\ new' = IF k < P THEN Programmed(new, k + 1, v) ELSE new
       /\ UNCHANGED <<loader, flag>>

\* ZBHCI_CMD_OTA_BLOCK_RESPONSE with block k of file v.  The CRC of a local
\* image is compared with what the flash holds at the image's size less 4
\* counted from address 0: unrelated data, which it may equal or not.
HostBlock(v, k) ==
  /\ mcu = "app"
  /\ LET x == [info EXCEPT !.off = @ + 1]
     IN IF k # info.off THEN UNCHANGED <<flashVars, hostVars>>
        ELSE IF FlagRefused(v, k) THEN EndFailed(info) /\ hciTimer' = "off"
        ELSE IF x.off < x.total
          THEN BlockStored(v, k) /\ info' = [x EXCEPT !.cnt = 0] /\ hciTimer' = "block"
        ELSE IF x.off = x.total
          THEN \/ BlockStored(v, k) /\ info' = NoInfo /\ hciTimer' = (IF x.local THEN "reboot" ELSE "off")
               \/ x.local /\ EndFailed(x) /\ hciTimer' = "off"
        ELSE EndFailed(x) /\ hciTimer' = "off"
  /\ UNCHANGED <<run, runFlag, mcu>>

\* the same with an error status
HostBlockError ==
  /\ mcu = "app"
  /\ EndFailed(info) /\ hciTimer' = "off"
  /\ UNCHANGED <<run, runFlag, mcu>>

Host ==
  \/ \E n \in {1, P, P + 1}, local \in BOOLEAN : HostStart(n, local)
  \/ \E v \in Good \cup Bad \cup Remote, k \in 0..P : HostBlock(v, k)
  \/ HostBlockError

\* recv_ota_block_response_cb
HostBlockTimer ==
  /\ mcu = "app" /\ hciTimer = "block"
  /\ IF info.cnt < HostRetries
       THEN info' = [info EXCEPT !.cnt = @ + 1] /\ UNCHANGED <<loader, new, flag, hciTimer>>
       ELSE EndFailed(info) /\ hciTimer' = "off"
  /\ UNCHANGED <<run, runFlag, mcu>>

\* local_ota_reboot_delay
RebootTimer ==
  /\ mcu = "app" /\ hciTimer = "reboot"
  /\ IF Valid(new) /\ flag # "clear"
       THEN flag' = "set" /\ mcu' = "off" /\ HostReset
       ELSE hciTimer' = "off" /\ UNCHANGED <<flag, mcu, info>>
  /\ UNCHANGED <<loader, run, runFlag, new>>

HostTimer == HostBlockTimer \/ RebootTimer
=============================================================================
