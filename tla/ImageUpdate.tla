---------------------------- MODULE ImageUpdate -----------------------------
(***************************************************************************)
(* The life of a firmware image: received by the application, over the air *)
(* or from its host, or by the boot loader from a host of its own, then    *)
(* installed by the boot loader.  Power may be lost between any two steps. *)
(***************************************************************************)
EXTENDS Bootloader, HostDownload

updateVars == <<flashVars, mcu, uart, bootVars, hostVars>>

UpdateInit ==
  /\ loader = TRUE /\ mcu = "off"
  /\ \E v \in Good : run = [k \in 1..P |-> v] \/ run = Blank
  /\ runFlag = Valid(run)
  /\ new = Blank /\ flag = "blank"
  /\ BootInit /\ HostInit

PowerLoss ==
  /\ mcu # "off"
  /\ mcu' = "off" /\ chk' = FALSE /\ up' = NoUpgrade
  /\ HostReset
  /\ UNCHANGED <<flashVars, uart, at, cut>>

\* The OTA client (OtaClient.tla), reduced to what it does to the area: it
\* erases it for a new file, programs the image with its flag taken out, and
\* flags and boots what has been found valid.  It and the host's download know
\* nothing of each other.
OtaErase ==
  /\ mcu = "app"
  /\ new' = Blank /\ flag' = "blank"
  /\ UNCHANGED <<loader, run, runFlag, mcu, uart, bootVars, hostVars>>

OtaWrite(v) ==
  /\ mcu = "app"
  /\ \E k \in 1..P : /\ \A j \in 1..(k - 1) : new[j] # Erased
                     /\ new[k] = Erased /\ new' = Programmed(new, k, v)
  /\ UNCHANGED <<loader, run, runFlag, flag, mcu, uart, bootVars, hostVars>>

OtaReboot ==
  /\ mcu = "app" /\ Valid(new) /\ flag # "clear"
  /\ flag' = "set" /\ mcu' = "off"
  /\ HostReset
  /\ UNCHANGED <<loader, run, runFlag, new, uart, bootVars>>

OtaClientStep == OtaErase \/ (\E v \in Good : OtaWrite(v)) \/ OtaReboot

BootStep == (PowerUp \/ CheckTimer \/ Copying \/ BlockReqTimer) /\ UNCHANGED hostVars

HostStep == HostTimer /\ UNCHANGED <<uart, bootVars>>

Disturbance ==
  \/ PowerLoss
  \/ SpoiltWrite /\ UNCHANGED hostVars
  \/ UartHost /\ UNCHANGED hostVars
  \/ Host /\ UNCHANGED <<uart, bootVars>>
  \/ OtaClientStep

UpdateNext == BootStep \/ HostStep \/ Disturbance

UpdateSpec == UpdateInit /\ [][UpdateNext]_updateVars

UpdateFairSpec == UpdateSpec /\ WF_updateVars(BootStep) /\ WF_updateVars(HostStep)
-----------------------------------------------------------------------------
(* Correctness *)

\* The flash areas, upgradeInfo and ota_info are well formed.
UpdateTypeOK ==
  /\ FlashTypeOK
  /\ {uart, chk, cut} \subseteq BOOLEAN /\ at \in 1..P
  /\ up \in [on : BOOLEAN, total : {0, P}, off : 0..(P + 1), retry : 0..BootRetries,
             timer : BOOLEAN]
  /\ info \in [on : BOOLEAN, addr : {"zero", "new"}, total : 0..(P + 1), off : 0..(P + 1),
               cnt : 0..HostRetries, local : BOOLEAN]
  /\ hciTimer \in {"off", "block", "reboot"}

\* However power fails and programs are spoilt while the image is copied, there
\* is an image to run: the running one is whole, or the new one is whole and
\* still flagged, so that the copy will be done again.  The exception is an
\* upgrade that the boot loader's host starts over an interrupted copy.
NeverStranded == Valid(run) \/ (flag = "set" /\ Valid(new)) \/ cut

\* The boot loader never jumps to an image that is not whole (it looks at the
\* start-up flag only), with the same exception.
RunsWholeImage == mcu = "app" => Valid(run) \/ cut

\* Sector 0, where the boot loader is, is only damaged by a block response of
\* the host that comes when no download is under way.
LoaderLostToStrayBlock == [][loader' # loader => ~info.on]_updateVars

\* Left alone, a device with a whole flagged image installs and runs it.
Installs ==
  \A v \in Good :
    \/ []<><<Disturbance>>_updateVars
    \/ (loader /\ flag = "set" /\ new = [k \in 1..P |-> v])
          ~> (mcu = "app" /\ run = [k \in 1..P |-> v]) \/ (mcu = "wait" /\ ~chk)

\* Hosts that fall silent do not keep a download open: the retries run out.
\* (The boot loader's has stopped asking when the host's last block was not the
\* one asked for: it stays open with its timer off.)
DownloadsEnd ==
  \/ []<><<Disturbance>>_updateVars
  \/ (up.timer \/ info.on) ~> ~(up.timer \/ info.on)

\* An upgrade that nobody disturbs comes to an end: it is installed, or given up.
Completes == Installs /\ DownloadsEnd
=============================================================================
