# Verification of the Telink Zigbee/BLE concurrent SDK

TLA+ models, TLC runs and TLAPS proofs for the C sources under
`src/telink_zigbee_ble_concurrent_sdk`. Paths below are relative to that
directory; line numbers are those of `PROJECT.json`, whose `map` names the
lines each definition translates.

The SDK builds Zigbee devices (a light, a plug) that share one radio with a
Bluetooth LE stack, plus the boot loader that installs their upgrades. It runs
on one core without an operating system: a main loop polls the stacks, runs
scheduled tasks, and walks the list of software timers; interrupts deliver
radio and timer events. The network, APS, security and BLE layers are binary
libraries. What has sources, and is modelled here, is what surrounds them:
flash storage, timers, buffers, commissioning, clusters and upgrades.

## 1. The system

| Component | State it keeps | Operations | What is hard, what makes it correct |
|---|---|---|---|
| **NV item store** `proj/drivers/drv_nv.c` | two flash sectors per module: header with a 2-bit number, index, item contents | write, read, remove, change of sector | power loss between any two flash operations; refused operations; two valid headers; space. A request must be atomic and durable, and the sector in use must never be lost |
| **NWK frame counter storage** same file, 900-1098 | two sectors of counts | load, save, back-off | half-programmed words, forced changes, retry. The counter must never go back |
| **Software timers** `proj/os/ev_timer.c` | a list, a pool of slots, the fraction of a millisecond left over | post, cancel, re-arm, process | callbacks change the list while it is walked; drift. No slot is lost, no due timer is skipped |
| **OTA client** `stack/zigbee/ota/ota.c`, `apps/*/zb_appCb.c` | download position, status, one timer with replaceable callback, NV copy of the position | query, block request and response, end of upgrade, waits, recovery | late, repeated and missing responses; resumption. What is booted is what was sent; a client never stops asking |
| **OTA server** same file | none but the image | answers | data conversion |
| **Boot loader** `apps/bootLoader` | two image areas, UART upgrade state | check, copy, UART download | power loss in the middle of a copy |
| **Event buffers and queues** `proj/os/ev_buffer.c`, `ev_queue.c`, `proj/common/mempool.c` | pools of four sizes, linked queues | allocate, free, push, pop, remove | use from interrupts, double free, counts that disagree with lists |
| **Main loop** `proj/os/ev.c`, `ev_poll.c` | poll table | one pass | order of passes |
| **Zigbee/BLE slot switch** `apps/common/zigbee_ble_switch.c` | which stack owns the radio | switch before and after BLE events | a radio interrupt between the test and the switch; wrap of the clock |
| **Radio** `stack/zigbee/mac/mac_phy.c` | transceiver state, busy flag, frame in flight | transmit, receive and transmit-done interrupts | interrupts against the main loop |
| **BDB commissioning** `stack/zigbee/bdb/bdb.c` | a state machine, two timers | initialise, steer, form, find and bind | late callbacks from the network layer |
| **Reporting** `stack/zigbee/zcl/zcl_reporting.c` | table of intervals and counters, one timer | configure, tick, attribute change | a loop over due entries must end |
| **Groups and scenes** `aps_group.c`, `zcl_group.c`, `zcl_scene.c` | two tables, each with a copy in flash | add, remove, store, copy, recall | the tables are saved at different times and changed by each other's commands. Scenes belong to groups their endpoint is in |
| **Light and plug** `apps/sample*_concurrent` | attributes, two timers, the current scene, what is still to save | on, off, timed off, moves, steps, scenes, saving | commands of three sources over each other and over running timers. A transition ends at its level; what the attributes say is true |
| **Factory reset** `apps/common/factory_reset.c` | a counter in NV, a timer | power cycle | power cut at any time |
| **Green Power** `stack/zigbee/gp` | proxy and sink tables, commissioning state | pairing, notification | tunnelled duplicates, windows that time out |
| **Touchlink** `zcl/zll_commissioning` | scan state | scan, join, start | timers |
| **Host interface** `zbhci` | serial download state | commands | download errors, two users of one flash area |

The remaining components (ZDP dispatch, BLE GATT tables, other clusters,
drivers, sleep, vendor code, hardware tests) are listed in `PROJECT.json` with
the reason why they are not modelled.

**Interactions.** The OTA client, the applications, the factory reset, BDB and
the binary stack are clients of the item store; they see only
`nv_flashWriteNew`, `nv_flashReadNew`, `nv_flashSingleItemRemove` and their
status. The binary stack loads and saves the frame counter. All of them use the
software timers and the task queue. The OTA client and the host interface write
the flash area that the boot loader copies from. The slot switch takes the radio
from the PHY.

## 2. Modules

| Module | Models | Used by |
|---|---|---|
| `NvMap` | what callers of the item store rely on: a map with atomic, durable requests | refined by `NvStore` |
| `NvStore` | the item store of one NV module, one flash operation per action | `MCNvStore`, `MCNvCalls`, `MCNvFaults`, `NvStoreProofs` |
| `NvFrameCount` | the frame counter in flash | `MCNvFrameCount`, `MCNvFaults`, `NvFrameCountProofs` |
| `EvTimer` | timers: list, pool, walk, time | `MCMainLoop`, `EvTimerProofs` |
| `OtaClient` | the client's download | `MCOtaClient`, `OtaProofs` |
| `ImageFlash` | the areas of flash that hold images, and what programming and losing power do to them | `Bootloader`, `HostDownload` |
| `Bootloader` | start-up check, copy, UART upgrade | `ImageUpdate` |
| `HostDownload` | the image download over the serial host interface | `ImageUpdate` |
| `ImageUpdate` | the composition: boot loader, host download and OTA client over the same flash | `MCImageUpdate`, `OtaProofs` |
| `DualMode` | slot switch, interrupt handlers and PHY | `MCMainLoop`, `MainLoopProofs` |
| `Reporting` | the reporting table and its timer | `MCReporting`, `ReportingProofs` |
| `Bdb` | commissioning of a router, with the light's callbacks | `MCBdb`, `BdbProofs` |
| `GroupScene` | the group and scene tables and their copies in flash | `MCSampleLight`, `SampleLightProofs` |
| `Light` | the light: on/off, level, current scene, saving | `MCSampleLight`, `SampleLightProofs` |
| `NvStoreProofs`, `NvFrameCountProofs`, `EvTimerProofs`, `MainLoopProofs`, `OtaProofs`, `ReportingProofs`, `BdbProofs`, `SampleLightProofs` | theorems | |

Where an `MC` module holds several small instances, a variable `part`, chosen
once, says which of them runs; the others stay in their initial states.

Definitions named `Bug...` are variants of the definition that follows them,
each with one mistake; no specification uses them. `PROJECT.json` says which
property each of them breaks.

### NvStore

State: `flash`, the two sectors (header flag and number, index entries in the
order of the array, each with the item it is for, what its content holds, its
item header and its state), and `op`, the local variables of the request being
executed, including the `pc` of the next flash operation. A request is a
sequence of actions, each with at most one flash operation and the reads before
it, so that `Crash` can strike between any two: `SectorReadForWrite`, `Locate`,
(`Erase`, `Dedup`, `Copy`, `CopyDone`), `WriteIndex`, `WritePayload`,
`WriteItemHdr`, `WriteState`, `DeleteOld`, then `WriteFirstHdr` or
`WriteNewHdr` and `InvalidateOldHdr`; or `Remove`. `Return` is the end of
`nv_flashWriteNewHandler` with the retry that `nv_flashWriteNew` makes.

Three faults can be enabled. A crash may also leave the index entry, item header
or sector header being programmed torn, with a content that is no legal flag
(which the code's checks recognise). A refusal leaves the flash as it was, as
`drv_flash.c` does when the voltage is low; where the code does not look at the
outcome (`Unchecked`) it goes on. Missing heap lets a change of sector go on
without the duplicate table.

Abstractions: contents are model values with a size; the CRC of an entry is part
of what makes it well formed (with `CrcCoversState` it also covers its state
byte, as on the B91 and B92, so that after the newest item was removed the next
write moves to the other sector); `Copy` copies one entry in one step, because
the target has no header yet; headers of older firmware do not occur; a flash
operation that was refused and then repeated with the same content is refused
again. Only items with `single = 1` are modelled, as all calls in these sources
make them. The guard of `BeginWrite` excludes an item that is larger than a
sector. Refusals and crashes start once the module has its first header:
before that, `nv_sector_read` returns success with an uninitialised result
(`drv_nv.c:279`), modelled by the free choice `SectorRead == 0..3`, and nothing
useful can be said of writes that follow.

### NvFrameCount

The same, for the last part of the file: `Load` at start-up (with the
plausibility test and the back-off of `nv_nwkFrameCountFromFlash`), `Save`, and
the handler's flash operations. A word is programmed from ones to zeros, so a
half-programmed count reads as a larger one, up to `MaxTorn`. Counts are in
units of `UPDATE_FRAMECOUNT_THRES`; the search by page and 16-byte line is
abstracted to the last word that is not blank, which is what it finds. The
branch that formats a module on a failed `nv_sector_read` is never taken,
because that function never fails. How the counter is used in memory is in the
binary stack: it is assumed to load it once and to save it at least every
`MaxGap` counts, `MaxGap <= 2 * Thres`. `floor` is history: the last count that
the handler wrote and reported as written. `faults` is chosen once: what may go
wrong in a behaviour, so that one run can look at power losses and at refused
operations, each with a bound of its own on the counter (`MaxCount`).

### EvTimer

`list`, `evt`, `usedNum` are the data of `ev_timer.c`; `handle` is the pointer
each user of a pool timer keeps; `clock` the ticks since the last pass and the
remainder carried; `walk` the local variables of `ev_timer_executeCB`. A pass is
`Process` (conversion to milliseconds and update of all timers), then
`Skip`/`Fire`/`ReturnStop`/`ReturnAgain` per timer and `Finish`. While a
callback runs (`walk.pc = "call"`), any user may post, cancel or re-arm any
other timer. Each operation is one action: it runs with interrupts disabled, and
no interrupt handler in these sources uses timers.

Assumptions: a callback disposes of its own timer only through its return value,
having cleared its handle before it returns -1 (all callbacks in the sources do;
`ota.c:611-617` explains why); the main loop comes round every `MaxBlock` ticks, so that the
32-bit tick counter's wrap makes no difference; periods are not zero. The search
for the next event and the correction after sleep (`drv_pm.c`) are left out.

### OtaClient

`m` is the client's memory (status, offset, file version, parser flag, offset
and CRC of the image, retry counters, server known, the header buffer, requests
outstanding, the callback otaTimer would run, tasks posted), `nv` the two items
saved, `img` the new image's flash area by blocks. One action per timer
callback, per task and per kind of response, with everything the application
callback in `zb_appCb.c` does in them. Responses can come at any time and in any
number: `QueryRsp`, `BlockRsp`, `WaitRsp`, `AbortRsp`, `EndRsp`, `RejectRsp` (a
default response), `MatchRsp`, `NwkRsp`, `IeeeRsp`. How long timers run is
left open: a timer may expire whenever it is armed.

Abstractions: an image is `N` blocks, the first with the OTA header, the others
with firmware; `ResumeMin` blocks stand for the rule that a download is only
resumed beyond 4096 bytes; the header's byte parser is one step; a refused flash
or NV write counts as a bad block; the version tests of the query response are
folded into "no suitable file" (`QueryRsp(NoFile)`); the WWAH downgrade path is
left out. `world` is chosen once: which files are offered and which mishaps may
happen. A client that has rebooted (`"REBOOTED"`) has ended.

`m.astray` is history: the client has restarted and taken up a saved position
that lay beyond the one it had reached. It can: a query that begins a download
anew erases the flash and sets the position in memory to zero, but the position
saved in NV stays until a block of the new file is saved over it. A power loss in
that window resumes the download at the older position, over blocks that are
erased. `PrefixWritten` excepts such downloads; what they leave is found out when
the image is to be booted (`zb_appCb.c:314`).

### ImageUpdate

`run` and `new` are the two image areas by pages, `runFlag` and `flag` the
start-up flags in their headers, `loader` whether sector 0 is intact, `mcu` what
the processor executes: nothing (`"off"`), the boot loader's wait for a host
(`"wait"`), its check (`"check"`), the steps of its copy (`"erase"`, `"write"`,
`"clear"`, `"wipe"`), the `"jump"`, the application (`"app"`), or a loop without one
(`"none"`). The boot loader's copy is one action per erase and per page, with the
read-back the code does; `SpoiltWrite` lets a program fail, and `PowerLoss`
strikes anywhere. `up` is the
boot loader's `upgradeInfo`, `info` the `ota_info` of the host's download. The
OTA client is reduced to what it does to the area; it does not know of the
host's download, nor that of it.

Abstractions: an image is `P` pages of a content; a block of a download is a
page; a sector is `SectorPages` of them, so that erasing a sector takes pages
that are not to be written yet. An image is valid if all its pages are of one
good content, which is what its CRC says; the loader looks at the flag alone
before it jumps. `cut` is history: the boot loader's host has begun an upgrade
over a copy that was interrupted, the one way to have no image left.

### DualMode

One action per step of the main loop, which hands the radio over with
interrupts off, and per interrupt handler. Handlers do not nest on this chip
(`platform/chip_b92/plic_isr.c`), and the system timer's comes first when several
are pending. The BLE controller and the Zigbee MAC are libraries: the BLE
schedule is a number of ticks to the next event, and the MAC may send whenever
the channel is clear. The clock has `Wrap` values. `lost` is history: the radio
finished a frame between the handler's test of the status bits and its clearing
of all of them. It over-approximates: whether the window is ever hit depends on
cycles the model does not have.

### Reporting

One action per turn of the loop of `reportAttrs`, for the timer, for what
changes an attribute, a configuration, a binding or the network state. Time is
in seconds, and the main loop goes round at least once in each. Of a value only
the difference from the last reported one is kept. `age` is history: seconds of
reporting since the entry's last report (or since it was bound or configured);
`loose` names the entries whose count the code admits to have lost: configured
or bound while the timer ran, or forgotten by a reset, which restarts the timer
without taking off what it had run.

### Bdb

`bdb` is `g_bdbCtx` with the attributes the code tests, `tasks` the main loop's
queue, `later` the timers nobody keeps a handle of, `net` what the network layer
has been asked and what answers may still come. One action per task, timer
callback and answer. `story` is history: attempts accepted and not yet reported
to the application, and whether a result came late (`late`), a refused start
changed the attempt in progress (`swapped`), a fall-back was refused
(`untold`), the application has not heard that joining again failed (`unheard`),
or the end of one touch link was taken for that of another (`cut`). What an answer contains is
abstracted to what the code does next; which attempts are started and how often
is bounded by a world chosen once. Left out: addresses, the steps of touch link
(it ends in one of three ways or takes the device over), the exhaustion of the
timer pool, and find & bind as target beyond its timer.

The properties name the exceptions the code has:

* `REJOIN_DONE` of the states is equal to `STEER_FINISH` of the events (both 7,
  `bdb.h:229` and `:241`), so that the answer to a rejoin can end a steering, and the
  other way round (`story.late`);
* `bdb_start` that is refused because an attempt is in progress has already
  rewritten `commissioningMode`, and so turns the attempt into another kind
  (`story.swapped`): a steering becomes a formation, whose failure sets no retry;
* find & bind's timer is the same member of a union (`bdb.h:402`) as the key
  exchange's, so that a late key result stops it (`bdb.c:835`, `TimerTaken`);
* find & bind waits for the answer to an address request without a timer
  (`bdb.match`);
* touch link that has found nobody falls back to a steering; when the network
  layer is busy with a direct join at that moment the steering is refused, the
  code does not look at the outcome, and nobody is told (`bdb.c:1478`,
  `story.untold`);
* when the network layer fails to join again, `bdb_zdoStartDevCnf` sets the
  status and posts an event (`bdb.c:1266`); before that is read the status may be
  overwritten, or commissioning be in a state in which the event is dropped, and the
  application never hears of the failure (`story.unheard`). The next start of the
  device, or the next such failure that is told, ends this;
* the event that ends a touch link does not say which: one that is left of an earlier touch
  link ends a later one (`story.cut`);
* a touch link start that finds no buffer reports nothing (`NoBuffer`);
* a failed start of the device is never repeated (`bdb.ok`).

### GroupScene

`member` is the group table, `scenes` the scene table, `savedMember` and
`savedScenes` their copies in flash, `task` whether `aps_groupTblSave2Flash` is
posted. One action per command that changes a table, one for the task, one for
a restart. A scene table is saved by the command itself, so that a power loss
cuts between commands and the task; each save is atomic, which is what `NvMap`
says of the store. `forgot` and `known` are history. A scene may be without its
group in three ways, all of them in the code: a remove-all-groups resets the
table of all endpoints, but removes only its own endpoint's scenes
(`aps_group.c:334`); that removal is not written to flash, as the condition
`i >= groupCnt` never holds inside the loop (`zcl_group.c:371`); and a power
loss comes between a command and the task. The order of the entries is left out,
and with it the walk of `aps_me_group_delete_all_req`, whose outcome the reset at
its end replaces.

### Light

`onoff` is `g_zcl_onOffAttrs`, `level` is `g_zcl_levelAttrs` and `levelInfo`,
each with its timer, `scene` is SceneValid with the contents of the current
scene, `store` what is in flash and what is to be saved. One action per command,
with what the parser, the callback and `light_refresh` do, and one per expiry of
a timer. Levels are counted in `Unit` fractions (256 in the code), and the
arithmetic is that of `light_applyUpdate`, with its rounding. Commands over BLE
call the callbacks with a null address: the test of the endpoint through it may
go either way, and what the parsers do after the callbacks is missing, so that
SceneValid stays. `asked` is history: what the last level command was to
reach, and what is known to have gone another way. The properties name these
exceptions:

* a level that is to rise by less than a fraction a tick has a step of zero, which
  the timer's callback takes for a falling one (`zcl_levelCb.c:115`): the light
  ends below the level the command names as the "new level to move to"
  (`zcl_level.h:120`; `asked.slow`);
* a rise that is rounded to the lowest level at a tick switches the light off
  (`zcl_levelCb.c:139`, `asked.dipped`);
* a timed off with a time of 0xFFFF leaves the timer as it is
  (`zcl_onOffCb.c:188`, `asked.endless`);
* SceneValid outlives a change of the scene, a level command over BLE, and a
  transition that was running when the scene was stored (`asked.astray`);
* changes made outside any network are never saved (`sampleLight.c:214`,
  `asked.lost`);
* a move at rate zero runs for ever, and puts off the saving of anything for as
  long (`Endless`).

A level that rises can be rounded to one above the highest, which `LightTypeOK`
admits. A light at that level that is told to go there stays, which the proof
brought out: what a command is to reach (`GoalOf`) is the level it names, put into
the range, unless the light has the level it names. `LightAssumption` says what the
constants are taken to be: a level has at least two fractions, since half a level
less one is added where a rise is rounded, and times may be as large as `Forever`.

## 3. Runs

| Run | Instance | Shows |
|---|---|---|
| `nv_faults` | part `store`: 2 items, 1 value, 2 index entries, one item also removed, all faults; part `count`: 4 counts per sector, crashes with the counter to 5 and torn words beyond, or refusals with the counter to 1 | types, `HeaderInv`, `SectorTakeover`, `CountSurvives`, `CallsReturn` |
| `nv_calls` | `map`: 2 items and values, all faults; `space`: 3 items of 9 and 12 bytes in 33, crashes; `remove`: 2 items and values, removals, no faults | `MapSpec` (refinement of `NvMap`), `SuccessIsDurable`; `SpaceReclaimed`; `UndisturbedCalls` |
| `nv_resurrect` | removals with crashes | **violation**, see below |
| `fc_retry` | refusals | **violation**, see below |
| `main_loop` | `radio`: a clock of 32 values, margin 3, BLE events up to 9 ticks apart; `pool`: 3 users, 2 slots, 1 static timer, 2 calls per pass; `time`: a user of each kind, 3 ticks per ms, 1 to 4 ticks between passes | `OwnSlot`, `EndWillBeSeen`, `ComparesTime`; `PoolKept` (`TimersConsistent` and `AllDueServed` of `pool`); `AllDueServed`, `OnTime` of `time`; `NoneLate` (`NotLate` of both); `KeepsGoing` (of `radio` that frames end and BLE events are served, of `time` that timers fire) |
| `ota_mishaps` | 3 blocks; one file with all mishaps, two files with power losses, or two files without mishaps | `PrefixWritten`, `OnlyKnownStops`, `SilentServerEndsDownload` |
| `ota_query` | the same, one file, no mishaps | **violation**, see below |
| `image_update` | images of 3 pages, sectors of 2, two good contents, one remote and one bad | `NeverStranded`, `RunsWholeImage`, `LoaderLostToStrayBlock`, `Completes` |
| `reporting` | `events`: 2 entries to which everything happens; `table`: 4 entries of 2 clusters | `MaxIntervalKept`, `AllReported`; `TableServed` |
| `reporting_min` | 2 entries, equal settings | **violation**, see below |
| `commissioning` | ten worlds, each for a new device and for one of a network | `OneAttempt`, `KeepsTrying`, `Ends` |
| `light` | `tables`: 2 endpoints, 2 groups and group 0, one scene each, 2 slots in each table; `light`: 4 levels of 8 fractions, transitions of 1, 3 and 10 ticks, six worlds | `NoOrphans`, `Restored`; `AsTold`, `AsSaid`, `LightSettles` |

**Why the bounds are enough.** *Store:* with two or three entries in a sector a
write in place, a full sector, and a move that finds live, dead, doubled and torn
entries all happen; the numbers modulo 4 go round several times; 33 bytes hold a
third item only if the item of 9 bytes is the last, which is where the space
tests differ. Symmetry is used only in `nv_calls`, for the items and values of
the part `map`, whose property does not distinguish them; no property of that
run is about liveness. *Frame counter:* the
plausibility test starts at three counts, a sector has four, and the counter
runs through several sectors and the wrap of the number; the largest torn word is
beyond what a step may be. *Timers:* more users than slots give the full pool;
two calls in one pass give a callback that frees a slot and takes it again under
the walk; three ticks to a millisecond with passes one to four ticks apart give
all remainders. `OnTime` says nothing of
a timer that was re-armed while on the list: one that is, as `gp_sink.c:784`
does, is charged the whole time since the last pass and fires early by up to that
much. `NotLate` holds of it too, and `pool` has such timers; its bound is below the
one on the age a timer is given in the model, so that a timer that is later is
seen to be. *OTA:* three blocks give
a first (header), a middle and a last one; two retries everywhere give a retry
and its end; two tasks at once are the most the handlers leave waiting before the
main loop runs. *Images:* three pages in sectors of two give a first page with the
flag, one that shares its sector and one that does not; two good contents tell an
old image from a new one and give mixtures. *Slot switch:* the clock goes round
several times, the ticks to an event cover both sides of the margin, and an event
may be up to an interval late. *Reporting:* two entries give one that makes the
timer run when the other needs it; four of two clusters give a full frame, a rest
of the same cluster, and one of another. *Commissioning:* the ten worlds give
every pair of sources of starts (timer, host, BLE, touch link, peers) in every order;
one retry of the key exchange gives a retry and its end. *Tables:* three
groups in two slots, six scenes in two slots and two endpoints in two places give
full tables, copies that do not fit, and endpoints that change each other's
groups. *Light:* eight fractions and ten ticks give steps of zero, one and more
fractions with and without remainders; levels of commands lie below, in and above
the range; the worlds, which limit how many commands of each kind come, give
every pair of commands in which one disturbs the other's transition, timer, scene
or saving, and a third timed off. The largest time stands for 0xFFFF.

**Fairness.** Weak fairness only, of what the main loop and the hardware do: the
code runs a request to its end without giving up the processor (`NvStore`,
`NvFrameCount`, the loop of `reportAttrs`), the tick counter is hardware and the
main loop has no other exit (`EvTimer`), and it runs tasks and expired timers
(`OtaClient`, `Bdb`, the boot loader). In `DualMode` a frame on the air comes to
its end, a BLE event too, interrupts are served and the loop goes round. In
`Bdb` the network layer finishes what it was asked, and touch link's own timers
end it. Responses of other devices, crashes, hosts and callers are never fair:
`SilentServerEndsDownload` and `Completes` are about behaviours in which the
disturbances stop; in `Light` commands are limited by the worlds, and
`LightSettles` says what becomes of the light after the last. The two timers of
`Light`, its check for changes and its saving are fair, as the main loop runs
them. `OtaClient`, `ImageUpdate`, `Bdb` and `Light` are checked without deadlock,
since a client that has rebooted, a boot loader that waits for a host, and a
light that has nothing to do, do stop.

### What the violated runs show

* `nv_resurrect`: overwriting an item programs the new entry valid before it
  invalidates the old one. A power loss between the two leaves both valid.
  Removing the item then invalidates the newer only (`drv_nv.c:528`), returns
  `NV_SUCC`, and the older value can be read again.
* `fc_retry`: a failed save of the frame counter is retried with the error
  sector 0xff (`drv_nv.c:928`), which no code sets to the sector that failed. The
  retry therefore always goes to sector 0, also when that is the one in use: its
  counts are erased and the sector gets an odd number, for which a later read
  looks in sector 1.
* `ota_query`: the address timer's callback gives the download up in place and
  returns -1 (`ota.c:401`). Giving up restarts the query only if otaTimer is off,
  and within its own callback it is not; the -1 then stops it. The comment at
  `ota.c:611` says that a callback must not do this.
* `reporting_min`: `reportAttrTimerCb` takes the seconds its timer ran off all
  counters, also off those that were reloaded by a report in between, so that a
  changed attribute may be reported again before its minimum interval is over,
  against the comment the finding quotes.

`ota_mishaps` allows for that one and four further ways in which a client stops
for good (`KnownStops`): no buffer for the file header (`ota.c:1438`), a
complete image that turns out invalid when it is to be booted
(`zb_appCb.c:314`), the end of an upgrade the server rejected, and a wait timer
that expires in a download that has been given up. Nothing else does.

## 4. Proofs

`NvStoreProofs` proves, for any number of items, values and index entries and any
sizes (assumption `NvAssumption`), first under every set of faults:

* `TypeCorrect`: `Spec => []TypeOK`;
* `HeaderInvariant`: `Spec => []HeaderInv`;
* `SectorNeverLost`: `Spec => SectorTakeover`, that a module with a valid header
  always keeps one and that numbers follow each other modulo 4.

`SectorTakeover` is about a step, and is not inductive by itself: that
`WriteNewHdr` numbers the new sector rightly, and that `InvalidateOldHdr` leaves
the new one, depends on what the request read several flash operations earlier.
`HeaderInv` says what remains true in between: the parity of a number names its
sector; from `Locate` to the end the request's sector is the one in use; what is
erased and filled is the other; and before the old header goes the new one is in
place with the next number. With `TypeOK` it is inductive. The proof goes action
by action; most actions leave all headers alone and share the lemma
`SameHeadersStep`, so that only the four actions that touch a header, `Erase`
and the crash have arguments of their own. The lemma
`IndexReadCorrect` says that `IndexRead` finds the newest valid entry, resting on
`Largest` (a non-empty set of numbers up to n has a greatest one).

Then, when the module gets its first header before the first fault
(`FaultAssumption`), of what the items read as:

* `StoreInvariant`: `Spec => []StoreInv`, the inductive invariant below;
* `OthersUndisturbed`: an item reads differently after a step only if a request
  for it is in progress;
* `WriteLasts`: a write that returned `NV_SUCC` is what every later read yields;

and when, besides, power losses and refusals do not meet removals
(`MapAssumption`):

* `StoreIsMap`: `Spec => MapSpec`, the store implements `NvMap`;
* `SuccessLasts`: `Spec => SuccessIsDurable`, which includes removals.

Of the space in a sector:

* `SpaceIsReclaimed`: `Spec => RefusalJustified` where no flash operation is
  refused and the duplicate table finds a buffer (`Unrefused`), power losses before the
  first header included. `SpaceReclaimed` of `nv_calls` is this for its instance;
* `FullBeforeChanged`: `Spec => ChangedWhenFull` where no power is lost, the
  second half of `UndisturbedCalls`.

Both speak of sums over the entries of a sector, for which there is no theorem in
the library that the provers could use. They rest on one lemma, `Smallest`: of some
subsets of a finite set one has none of the others inside. Taken of the
counterexamples to a claim, it is induction over finite sets, stated without a
predicate as parameter. With it the function that `SumFunctionOnSet` recurses by is
shown to exist (`SumsExist`), any element may be taken out of a sum (`TotalStep`), and
what has partners of its own in another set weighs no more than that set
(`TotalInjects`). The invariant of the first (`SpaceInv`) says why the copies in a
fresh sector weigh no more than the live items: above the position of
`nv_exceptionDataHandler` each item has one valid entry (`Sifted`), so that
the copies are of different items, which are valid in the sector in use (`Compact`). The
restrictions are needed: TLC finds `RefusalJustified` violated when operations are
refused, and when the table finds no buffer after a power loss, since then
duplicates are copied; and a power loss leaves a torn entry, for which a sector is moved
before it is full.

`FaultAssumption` and `MapAssumption` are both needed: TLC finds `MapSpec` and `SuccessIsDurable` violated
where a fault strikes before the first header (`"early"`), and `nv_resurrect`
shows what removals with power losses do; removals with refusals do the same.

The refinement mapping is `View`: an item is what a read finds in the sector in
use. An abstract request takes effect at one moment, and the concrete one is a
sequence of flash operations, so the proof is that each of them leaves `View` as
it is or changes the request's own item to its value (`Kept`), and that none
returns `NV_SUCC` before one has. The moment is `WriteState`, if the item goes
into the sector in use; `WriteNewHdr`, if it went into the other one; and
`WriteFirstHdr` for the first item of a module. What has to be known in between
is `StoreInv`, by the parts of a request: only the last entry of a sector can be
torn, so that what follows a torn entry is never taken for an item (`LastTorn`);
a module without a header holds no more than the request's item (`Fresh`); the
entries copied so far read, for all other items, as those passed in the old sector,
and none is for the request's item (`Copying`, `Indexing`); the request's entry
is the last of its sector and its state is blank until its content is there
(`Writing`); after the change of sector the new one holds the value (`Moved`);
and where items are removed no item has two valid entries but for the older one
about to be invalidated (`Single`), which is what faults break. A refused erase
fills the sector with a mixture; the invariant does not describe it but says that it
is recognised: the positions no longer agree, and the programs that follow fail.

`NvFrameCountProofs` proves, for any number of counts in a sector, any threshold
and any bounds on the counter (`FrameCountAssumption`): `CountTypeCorrect`
(`TypeOK`, with that no sector overflows), and, when power is lost only after the
first header and no operation is refused, `CountSurvives` (`CountKept`: a start
loads no count below one that was saved) and `CountTakesOver`
(`SectorTakeover`). Both restrictions are needed: `fc_retry` shows what a refusal
does, and before the first header `nv_sector_read` returns anything. `CountKept`
is far from inductive. What a start loads is the last count, if it is plausible,
and a value computed from the one before, if it is not, so that the invariant says at
each step of a save which counts each of the two sectors holds: between saves the
counter in memory is at most two thresholds ahead of the last count (`Follows`);
a plain save adds to the sector in use, or has left it for the other one, which
holds nothing, then the count carried over, then that and the new one
(`PlainSave`); a save that replaces an implausible count fills the other sector
with it alone (`ForcedSave`); and a sector becomes the one in use only by its header,
after its counts.

`EvTimerProofs` proves of `EvTimer`, for any number of slots, users and calls in a
pass (`TimerAssumption`): `TimersAgree` (`TimersConsistent`: pool, list, walk and
handles agree), `NoDueTimerMissed` (`AllDueServed`: after a pass every timer
that was due has been called), `TimersOnTime` (`OnTime`) and `TimersNotLate`
(`NotLate`). The first is inductive
with the types and the positions of the walk (`TimerInvariant`). The second
rests on an order, `DueAhead`: every timer that is due stands in the list at the
walk's position or behind it, whatever a callback posts, cancels or re-arms under
the walk. For the other two, `NoTickLost` says that the milliseconds a pass counts and
the remainder it keeps are exactly the ticks and the remainder before it; hence
(`TimeOf`) what was counted off a timer, plus the remainder, differs by less than a
millisecond from what it has run, whatever the passes' distances were; of one
re-armed while on the list one half of this is left, that it has not run more than
that, and so `NotLate`. Both need that the model's bound on the age of a timer is never reached (`AgeAssumption`,
which the run checks of both instances). `NotLate` is the promise a user has of
the two others together: no tick is lost between passes, and each pass gets to
every timer that is due.

`MainLoopProofs` takes these theorems for the two instances of `MCMainLoop`, whose
constants are fit by the assumption on them and whose actions are those of the
theorems: `PoolAlwaysKept` (`PoolKept`) and `NoTimerLate` (`NoneLate`). It also
proves of `DualMode`, for any clock, margin and interval that fit each other
(`DualAssumption`): `TypeCorrect`, `SlotKept` (`OwnSlot`), `EndSeen`
(`EndWillBeSeen`) and `TimeCompared` (`ComparesTime`). For the first three
the invariant adds why a slot is not handed over under a frame: what is on the
air is marked busy, busy is Zigbee's slot, a BLE event is in BLE's, and in
Zigbee's the radio's interrupts are enabled. The last of the four is arithmetic modulo
`Wrap`.

`OtaProofs` proves of `OtaClient`, for images of any length, any files and any limits:
`OtaTypeCorrect` (`TypeOK`), `OtaOnlyKnownStops` (`OnlyKnownStops`) and
`OtaPrefixWritten` (`PrefixWritten`). The last is about a download in progress; a
position is kept between downloads and over restarts, so that the invariant
says the same at all times, and adds that the header saved in NV is of the file
whose blocks are in the flash, or that there is none (`PositionHeld`). This
attempt is what showed the restarts that go astray (section 2).

It proves of `ImageUpdate`, for images of any length and any set of contents:

* `UpdateTypeCorrect`: `UpdateSpec => []UpdateTypeOK`;
* `AlwaysAnImage`: `UpdateSpec => []NeverStranded`;
* `OnlyWholeImagesRun`: `UpdateSpec => []RunsWholeImage`;
* `LoaderLostOnlyToStrayBlocks`: `UpdateSpec => LoaderLostToStrayBlock`.

The second and third are not inductive: during a copy the running area is neither image. The
invariant adds (`Stage`) that while the loader copies, the new image is whole and
its flag set, and the pages before the one being copied agree with it; and that
from the clearing of the flag on the running image is whole. That a sector's
erasure takes no page already copied is `SectorStart`. The last needs to know
where a download writes: one that is under way has the address of the new image
(`Addressed`), for a finished or failed one clears address and state together.

`ReportingProofs` proves, for any table and any settings: `ReportingTyped`,
`NothingLeftDue` (`AllReported`) and `NoReportLate` (`MaxIntervalKept`). The last
needs an invariant that says what the counters are: for an entry that is not
loose, the seconds since its report, with what it still counts down, are at most
its maximum and what the timer has already run
(`age + maxCnt <= max + (secs - left)`), and the timer is to fire no later than
the least of the counters.

`SampleLightProofs` proves, for any number of endpoints, groups and scenes and any
sizes of the tables (`GroupAssumption`): `TablesTyped` (`TypeOK`, with that
tables never hold more than fits), `OrphansKnown` (`NoOrphans`) and
`TablesRestored` (`Restored`). The three are inductive only together and with the
tables finite: what a restart can bring back without a group is bounded by what
is in flash, which is what is in RAM but for the task's and the forgotten
scenes.

It proves of the light, for any range of levels, fractions to a level, levels, times
and rates of the commands and settings of the start (`LightAssumption`):
`LightAsTold` (`AsTold`) and `LightAsSaid` (`AsSaid`), from one invariant
(`LightInvariant`). At its centre is an equation, `Toward`: while a transition
runs, the fractions reached, plus the remaining ticks times the step, plus (for a
fall, minus) the remainder still to be made up for, are the level it leads to; a
tick keeps it, whether or not it takes one fraction of the remainder with it, and
when no tick is left the level is the one that was to be reached
(`StepToward`). A fall that is stopped at the lowest level keeps standing there.
What makes it work is that the remainder is less than the number of ticks, that the
fractions are whole levels at the start and at the end, and that rounding then
changes nothing (`RoundedUp`, `RoundedDown`). `Coupling`, `Timed` and `InScene` say
what on/off, its times and SceneValid are in between, where `AsTold` and `AsSaid`
speak of them only when no timer runs. The proof first failed for a rise to the
level above the highest; see section 2.

`BdbProofs` proves, for any worlds and bounds (`BdbAssumption`):
`CommissioningTypeCorrect` (`TypeOK`), `OneAttemptAtATime` (`OneAttempt`), that
the application is never owed the outcomes of two attempts, and
`LightKeepsTrying` (`KeepsTrying`). The code keeps no count of what is owed; what it tests is the attribute that says an attempt is in progress.
The invariant ties the two (`Owing`): while it does not say so, nothing is owed.
This attempt is what showed the refused fall-back (section 2).

`KeepsTrying` looks at a device at rest only, and what brings it there is any
sequence of attempts. The invariant (`TryIInv`) divides the devices outside the
exceptions in two. One that is in a network, is about to restart, or is joining again
is cared for (`Cared`): it remains so until it restarts, since what takes it
out of the network sets the timer of the restart, and a failed joining
that the application hears of is repeated (`AppHears`). Any other one is a newcomer: since its
start it has been in no network, so that no key was asked for, no peer answered and
nothing but its own attempts posts a task (`Unjoined`), and in each state there is
a reason why its attempt or its touch link will end with the timer set (`Course`):
a steering that has failed has a status to which the application answers with the
timer; a formation, and a touch link by the device itself, can only have been started with the
timer still running from before, and a discovery keeps it so. All the exceptions are needed, as TLC shows when one is left out: `late`, `swapped`
and `unheard` in the worlds of the run, `cut` in a larger one with one start by the host, two
retries and two scans, where a discovery that an earlier touch link's end cut off
ends during the steering that followed, and overwrites its status.

Model-checked only:

* liveness (`CallsReturn`, `KeepsGoing`, `SilentServerEndsDownload`, `Completes`, `TableServed`, `Ends`, `LightSettles`) and what is stated with
  `ENABLED`: the prover does not treat them;
* of the store, everything when faults strike before the first header, where the
  code promises nothing.

## 5. What is not modelled

Of the light: color control, identify and effects, writing of attributes, the
option that lets a light that is off ignore level commands. Of the item store: whole-module resets, items with `single = 0`, cached address
tables, decay of contents. Of the timers: sleep. Of the OTA cluster: the server.
Of reporting: the copy of the table in flash. Of the PHY: what does not bear on
the slot switch. Of touch link: the scan and its commands, and with them the
weakness that its tasks read through `g_zllTouchLink.disc` and `.networkStartInfo`,
which a timeout may have freed before they run. Of commissioning: find & bind's
target side and the exhaustion of the timer pool. Of groups and scenes: the step
past the end of a full table that the removal of all groups takes
(`aps_group.c:292`), and scenes with short extension fields. Everywhere: a
task queue that is full. The
other components of section 1, until the plan reaches them. Data conversion,
parsing and register access are left out on purpose, unless a property is about
them.

## 6. Plan

1. Done: `NvMap`/`NvStore`, `NvFrameCount`, `EvTimer`, `OtaClient`, the images
   (`ImageUpdate`), the slot switch (`DualMode`), `Reporting`, `Bdb`, the tables
   and the light (`GroupScene`, `Light`).
2. Green Power tables and sink commissioning; touch link in full.
3. Buffers, queues and memory pool with their users. Two things to look at:
   `queue_remove` counts down also for an item that was not in the queue
   (`ev_queue.c:391`), and the pools' lists under interrupts.
4. The factory-reset counter over `NvMap`, whose power cycle may be cut between
   its write at start-up and the one that clears it (`factory_reset.c:79`).
