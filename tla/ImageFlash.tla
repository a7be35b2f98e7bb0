----------------------------- MODULE ImageFlash -----------------------------
(***************************************************************************)
(* The flash areas a firmware image goes through: the one the application  *)
(* runs from, the one a new image is received in, and sector 0, which      *)
(* holds the boot loader (APP_IMAGE_ADDR, FLASH_ADDR_OF_OTA_IMAGE and 0).  *)
(*                                                                         *)
(* An image is P pages.  A page holds a page of some file, nothing, or     *)
(* what an interrupted or spoilt program left.  The start-up flag of an    *)
(* area is one byte of its first page: programming can only clear bits, so *)
(* a flag cleared to 0 stays 0 until its sector is erased.                 *)
(***************************************************************************)
EXTENDS Integers

CONSTANTS Good,    \* images whose CRC is right
          Bad,     \* images whose CRC is wrong
          Remote,  \* OTA files for other devices: no start-up flag in place
          Erased, Torn,
          P, SectorPages

ASSUME ImageAssumption ==
  /\ P \in Nat \ {0} /\ SectorPages \in Nat \ {0}
  /\ Good # {}
  /\ Good \cap Bad = {} /\ Good \cap Remote = {} /\ Bad \cap Remote = {}
  /\ {Erased, Torn} \cap (Good \cup Bad \cup Remote) = {}
  /\ Erased # Torn

VARIABLES loader,   \* sector 0 is as it was made
          run,      \* pages of the running image's area
          runFlag,  \* its start-up flag word
          new,      \* pages of the new image's area
          flag,     \* its start-up flag: "blank", "set" or "clear"
          mcu       \* what the processor is doing

flashVars == <<loader, run, runFlag, new, flag>>

Page == Good \cup Bad \cup Remote \cup {Erased, Torn}

Blank == [k \in 1..P |-> Erased]

\* ota_newImageValid and the same test in bootloader_with_ota_check: the size
\* and the CRC of what is in the area
Valid(area) == \E v \in Good : \A k \in 1..P : area[k] = v

\* the pages of the sector that page k is in
SectorOf(k) == {j \in 1..P : (j - 1) \div SectorPages = (k - 1) \div SectorPages}

ErasedSector(area, k) == [j \in 1..P |-> IF j \in SectorOf(k) THEN Erased ELSE area[j]]

\* programming what is no longer erased mixes the bits of the two
Programmed(area, k, v) == [area EXCEPT ![k] = IF @ \in {Erased, v} THEN v ELSE Torn]

FlashTypeOK ==
  /\ {loader, runFlag} \subseteq BOOLEAN
  /\ run \in [1..P -> Page] /\ new \in [1..P -> Page]
  /\ flag \in {"blank", "set", "clear"}
  /\ mcu \in {"off", "wait", "check", "erase", "write", "clear", "wipe", "jump", "app", "none"}
=============================================================================
