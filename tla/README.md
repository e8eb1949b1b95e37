# A TLA+ model of the STM32 bootloader

The program in `src/` is a USB bootloader for an STM32F4: it lives in the first
16 KB of the internal flash, listens on a CDC/ACM serial line for commands that
erase, program, check and boot an application, and can read files from a FAT
volume on an external AT45DB flash. This directory models its core in TLA+,
model-checks it with TLC and proves a part of it with TLAPS.

* [1. The system](#1-the-system)
* [2. Modules](#2-modules)
* [3. What the runs check](#3-what-the-runs-check)
* [4. What is proved](#4-what-is-proved)
* [5. Where the code and its documentation differ](#5-where-the-code-and-its-documentation-differ)
* [6. What is assumed and left out](#6-what-is-assumed-and-left-out)
* [7. Plan](#7-plan)

## 1. The system

The program has one thread, the loop `bl_listen`, and interrupts: the USB
device, the system tick, and two DMA streams. It runs without an operating
system and without a lock; the thread and the interrupts share the receive ring
and the timers. The flash is the only thing that survives a reset.

| Part | Source | State | Operations | Talks to |
|---|---|---|---|---|
| receive ring | `usb.c` 36-40, 209-229, 267-270, 317-326 | `__usb_rx`, `head`, `tail` | `buf_put` (interrupt), `buf_get` (thread) | filled by the USB interrupt, emptied by the framing |
| framing, timeouts, replies | `usb.c` 231-260, `bl.c` 83-106, 262-333, `timer.c` | `TIMER_IO`, `TIMER_BL`, the stack of the readers, the IN endpoint | `get_byte`, `__read_data`, `__read_and_check`, `usb_msgsend`, the tick | ring below, command loop above |
| command loop | `bl.c` 68-260 | `state`, `daddr`, `dsz`, `addr`, `dbuf` | HANDSHAKE, ERASE, FLASH, FLASH_DATA, DATA_CRC, BOOT, EOS, inactivity | calls the flash, replies to the host, jumps to the application |
| flash geometry | `flash.c` 11-44, 80-112, `bl.c` 135-145 | the table of sector sizes | `bl_flash_sector_size`, `bl_flash_get_sector_num` | used by FLASH |
| internal flash | `flash.c` 46-78 | its words, the lock of its controller | read, program, erase | external: libopencm3 and the controller |
| host | not here; `include/protocol.h` | where it is in an update | one command, one reply | external |
| FAT driver | `fatfs/fatfs.c` | geometry, the open file (cluster, position, sector) | mount, open by a path, read, close | reads the external flash |
| start and hand-over | `main.c`, `init.c`, `bl.c` 48-66, `*_start` and `*_stop` of the drivers | clocks, interrupts, peripherals, how the LED blinks | `main`, `bl_init`, `jump_to_app`, the tick | everything, once |
| external flash | `at45db.c` | page size and number; the chip: its pages, whether it is busy | start, read, erase a page or all, write a page | sends bytes over the SPI |
| SPI exchange | `spi.c` 99-245 | two DMA streams, `rxcomplete`, `txcomplete` | `spi_exchange_dma`, the two interrupts | external: the DMA and the SPI |
| checksums | `utils.c` | two tables | `crc8`, `crc32` | the framing, DATA_CRC |
| the rest | `usart.c`, `syscalls.c`, USB descriptors | | debug output | |

What is hard in it, and what makes each part right:

* **Ring.** The interrupt can come between any two memory accesses of `buf_get`,
  whose variables are not `volatile`. Right means: what `buf_get` returns is the
  oldest byte, every byte comes out once, and an overflow loses the end of a
  packet and nothing else.
* **Framing.** Any byte can be lost and any host can die in the middle of a
  frame, and a payload can hold any command byte. Right means: enough silence
  always leads back to the beginning of a command, and to the end of the session.
* **Command loop.** The registers outlive the command that set them; a loop that
  writes can be left in the middle; power can fail at any step. Right means: a
  session starts from cleared registers, the controller is locked on every path,
  what is acknowledged is in the flash, what is booted is the image, and what is
  not the image is not touched.
* **Geometry.** Unsigned arithmetic at sector boundaries, at the limit of the
  check and at the end of the address space.
* **FAT.** Reads of any size, one after another, that end anywhere in a sector or a
  cluster; 12-bit table entries that straddle two sectors; boot sectors whose numbers wrap; paths
  of any characters. Right means: the bytes are those of the file that the path names, and a read returns.
* **External flash.** Two completion flags, each set by an interrupt, of which one is never waited for; a
  DMA that can fail; a chip that is busy after every command that changes it. Right means: between two
  exchanges nothing of the one before is left, and a caller sees a store of pages, as `fatfs.c` takes it to be.
* **Checksums.** Tables of 256 literals that nothing in the repository tests. Right means: they are those of the
  polynomials the host divides by, and a frame a little damaged does not pass.
* **Start and hand-over.** The interrupt of the USB device is enabled before there is a
  device, and `jump_to_app` takes the clocks away before it stops SysTick. Right means: no
  handler finds nothing to work on, start-up ends, and nothing of the bootloader interrupts the
  application.

`PROJECT.json` lists the hazards one by one, with the properties that would
notice each of them.

## 2. Modules

```
PacketFifo  <== RxRing         <- MCRxRing,  RxRingProofs

Checksum ----+
             v
FlashRange <-- Frames          <- MCFrames
FlashRange                     <- FlashRangeProofs
     | extends                    (both proof modules use FlashLayoutProofs)
     v
FlashLayout
     ^
     +------- Bootloader <-- AnyHost    <- MCAnyHost, HostUpdateProofs
                  ^            ^--- Claims <- MCClaims
                  +--------- HostUpdate <- MCHostUpdate, HostUpdateProofs (of both hosts)
                                 ==> Updater

Session <-- AnyBytes           <- MCSession, SessionProofs
Session <-- SessionHost        <- MCSessionHost
FatFs                          <- MCFatFs, FatFsProofs
SpiDma <-- At45db              <- MCAt45db, At45dbProofs (of SpiDma too)
              ==> BlockStore
Boot                           <- MCBoot, BootProofs
```

(`A <-- B`: B extends A. `A <== B`, `B ==> A`: B implements A.) The MC modules only give the constants
values that a configuration cannot express. An operator whose comment calls it
"wrong" (`BufPutStore_Full`, `Forget_KeepsSize`, ...) is no part of a
specification: it is the definition before or after it with a plausible bug, kept
to show that the properties notice it.

**RxRing** (`usb.c`). One step per access to shared memory. `RxInterrupt` starts the
handler with a packet, `BufPutStore` and `BufPutDrop` are its calls of
`buf_put`; the thread waits while `packet` is not empty. `BufGetFound` picks one of
the two orders that the compiler may give the load of the slot and the store of
`tail` (`LoadFirst`/`StoreLast`, `StoreFirst`/`LoadLast`). **PacketFifo** is the
abstract specification: a queue to which a packet is added in one step, as far
as it fits, and from which the oldest byte is taken.

**FlashLayout** (`flash.c`, the arithmetic of FLASH). `SectorBase` sums the table,
`bl_flash_get_sector_num` gives the *set* of answers: one, except where the loops, whose
bound is the size of the table in bytes, run on behind the table and may find
anything. **FlashRange** is one FLASH command over it. **Checksum** (`utils.c`) has `crc8` and `crc32` with the
literal tables of the code, a 32-bit register as a pair of halves, and the division by the polynomial, bit by
bit, as the reference. **Frames** (`bl.c` 120-137, 202-229, 273-291) puts the bytes around FlashRange: `Arrive` takes the
frame of a FLASH, as it was sent or with bits inverted, `ReadAndCheck` compares its CRC8, `TakeRange` puts the
registers together and looks for the sectors, `CrcWord` is a round of DATA_CRC over the range. Its property
`ImplementsFlashRange` says that the range looked for is the one the host meant.

**Bootloader** (`bl.c`, `flash.c`). A command arrives whole, or is refused
(`Refused`, `BootRefused`); what it does to the flash takes one step per
sector or word, with `pc` `"erase"` or `"program"`, so that power (`Reset`) can fail in
between. A word is the set of its bits that are 1: erasing sets all, programming
intersects. `Torn` says what an interrupted step leaves. Where the program writes
or reads outside the flash, or loses its own code, it goes `"astray"` and the model
stops; a `BOOT` that is accepted ends in `"jumped"`. The wrong order of the
erase loop, the registers that are or-ed into, the status that is overwritten
and the sector check are in the model as they are in the code.

**AnyHost** composes it with a host that sends anything; **HostUpdate** with one that
makes an update as the protocol describes it, in the presence of disturbances:
power failures, damaged commands, replies not waited for, sessions timed out, payloads
that lose their end, words that do not program (`WordRefuses`). `sound` remembers whether the
session has lost a word, of which the loop tells the host nothing. **Updater** is what all of that is to
promise: an area that is written at will, verified only while it holds the image, and not written
again until it runs or the update is begun anew. **Claims** has two claims of the documentation that do not hold.

**Session** (`bl.c`, `usb.c`, `timer.c`). The same loop seen from the bytes: a byte is known by
the frame it was sent in and its place there, so that the model can tell whether
what was read is one frame, which is what the CRC8 tells. A byte from the middle
of a frame can mean any command when one is expected, and a byte read as a size can
mean any payload. `Tick` is the interrupt; `polled` makes sure that between two
ticks the thread is busy or goes at least once round the loop of `get_byte`.
**AnyBytes** puts a line before it that delivers any packets, of whatever bytes, at any time.
**SessionHost** adds a host that dies and one that comes after it: another program of the same
machine (`Return`), which finds the endpoint as it is, or another machine, which enumerates the device
(`SetConfig`, `__cdcacm_set_config`): a reply not taken is lost, and nothing else is reset.

**FatFs** (`fatfs.c`). `Mount` computes the geometry from the boot sector, whose numbers are unsigned. `Open` takes a
path: `Path2dirent` takes `Round`, one round of the loop of `__path2dirent`, over its characters (`Scanning`), and
`Found` looks at the slots that the loop over the root directory looks at. A read is `Read`, `ReadPiece` per round of
its loop, and `ReadEnd`. The bytes of the FAT are computed from the entries nibble by
nibble and decoded by `FatfsGetCluster` as the code does, behind its test of the cluster. A directory entry can name any cluster, also 0 or 1,
and a chain can be broken anywhere: `SoundUpTo(n)` says that it is sound for n clusters behind the first. A byte of a file is known by
where it was read from, and the reference, `FileByte`, says where byte n is; the reference for a path is `Name83`,
which splits it instead of scanning it. `failed` remembers a read that ended with bytes to come: what the
file then holds is not promised, and section 5 says what the next read does.

**SpiDma** (`spi.c`). `at` is the step of `spi_exchange_dma`. The streams `rx` and `tx` move a byte whenever they can
(`TxMove`, `RxMove`), lose one that nobody takes (`Overrun`), or break (`TransferError`); `RxIsr` and `TxIsr` are the
handlers, and `Thread` holds when neither is to run. The loop of `__dma_tx_wait` is modelled as it is compiled: it
clears the flag it should wait for. `SpiSpec` is the exchange alone, with any bytes sent and answered: what is proved. **At45db** (`at45db.c`) has the driver on top and the chip below. A function of the
driver is made of parts (`part`), each with a *script* of what it does on the bus (`Script`): selecting, a byte exchanged by libopencm3, an
exchange by DMA. `Ask` lets a caller ask for a function, the actions `Do...` work through the script of a part, and those of
`Between` are the code between the scripts: the test of the identification (`IsKnown`), the loop of `__at45db_bsy` (`IsBusy`, `IsReady`), that
of `at45db_bwrite` and `at45db_erase` (`NextPage`, `PageDone`, with `page` and `left` for `sblock` and `pgs`), the returns.
An address is taken apart into three bytes (`AtPage`, `AtByte`) and put together by the chip (`Addressed`). The chip answers byte by byte (`Answer`), begins a command when it is deselected (`Ordered`) and
ends it in `ChipReady`. **BlockStore** is what a caller may rely on: pages are changed by the call that names them, all of them when
it returns, and a read returns what is stored. It promises nothing for a call that comes while the
chip is at work (`sure`), and `OnlyReprogrammingGoesOn` says that this is a call right after a start that had the
page size changed. The actions that exchange bytes are those of SpiDma with what the driver and the chip do with them.

**Boot** (`main.c`, `init.c`, `bl.c` 48-66, the `*_start` and `*_stop` of the drivers). `pc` is the
next call of `main` and, further on, of `jump_to_app`; `board` is what the calls before it have clocked,
started and enabled. `Call` lets the thread take a step only when no interrupt is waiting that could be
taken; `Tick` and `UsbEvent` make one wait, `SysTickHandler` and `OtgFsIsr` take it. The loop
itself is the one step `Leave`: what happens in it is `Bootloader` and `Session`.

The definitions are in the modules with the names of the source where TLA+ allows
it; `PROJECT.json` "map" gives the lines each of them stands for.

## 3. What the runs check

Passing runs:

| Run | States | Question | Bounds, and why they are enough |
|---|---|---|---|
| `rx_ring` | 70 thousand | Is the ring a FIFO with an interrupt anywhere? | Four slots, packets of up to four bytes of two values: the indices wrap, the ring is empty, full, and overrun by one packet. The proofs hold for every size. |
| `flash_command` | 76 thousand | Which ranges are accepted, and what is erased? Does the frame carry the range, and DATA_CRC answer with the CRC32? | The real tables, in words; 6241 ranges whose ends are at, one before or one behind each sector boundary, the limit, and the end of the address space: the arithmetic changes nowhere else. The frame of one of them is damaged in any one or two bits and in any pattern within eight in a row, behind its first byte: CRC8 is linear, so that what a damage does to the check does not depend on the frame. CRC32 of every single byte, so that each entry of the table is looked up by itself, and of up to two of five words, so that every step of the register but the first starts from a value that is not zero. |
| `any_host` | 280 thousand | What holds whatever is sent? | Four words of one bit in three sectors, the last of them beyond `BL_FLASH_SECTORS`; an application address and one that is unaligned and below the flash. The proofs hold for every flash. |
| `host_update` | 12 thousand | Does a disturbed update end well, and can anything but the image be booted? | Five words of two bits, so that a torn word differs from both the old and the new; one word of the image is worn and may refuse to program; an image of two equal words in two chunks, which leaves a word of its sector free; three disturbances, so that one can hit the recovery from two others. |
| `any_bytes` | 880 thousand | Does silence always realign? | A ring of two bytes, every frame in single bytes with any gaps, timeouts of two and four ticks: the ring overflows, and every byte of every frame can be the one lost. |
| `silent_retry` | 71 thousand | Is a patient new host answered? | Two frames of the first host, cut anywhere, a ring that holds the longest frame, a retry period above both timeouts together. |
| `fat_reads` | 28 thousand | What mounts, what does a path open, and do reads deliver the file? | Chains of one to three of four clusters in every order, one of them refused by `fatfs.c:165`, and five files that begin in cluster 0 or 1 or lead there, nine sizes; five request sizes below and above sector and cluster size; a sector of two bytes, so that every other table entry straddles two; a root directory of two sectors. 576 boot sectors without files, sound and odd, with numbers that wrap. Every path of up to four of six characters, with names of two and one: a part is empty, full and too long. |
| `dataflash` | 530 thousand | Is the external flash a store of pages, and does every call return? | Three pages of two bytes: a write of two pages and an erase of one leave some as they are, a read goes across two. A count of six values: reads of none, of some, and of as many as wrap. One transfer error, in any byte of any exchange; a chip of any page size, known or not. |
| `boot` | 338 | Do start-up and hand-over go well with an interrupt anywhere? | Waits of two ticks and three interrupts of the device: one can come before any call, and again while the one before is pending. The proofs hold for every number. |

`any_host`, `any_bytes`, `silent_retry`, `flash_command`, `host_update`, `fat_reads` and `dataflash` do not check
for deadlock: the program stops for good when it jumps or goes astray, a FLASH command ends, a connected or
departed host does nothing more, and a read of no sector waits for ever (section 5).
`rx_ring` and `boot` do check it, which says little: a packet or a call of `buf_get`, and the cable of `Plug`, are always
possible. That start-up gets on is what `StartsUp` says.

Safety: `SlotIsSafe` and `RetIsOldest` (what `buf_get` has in hand is out of the
interrupt's reach), `AcceptedIsInTable` and `ErasesOnlyImage`, `OnlyDamageIsRefused`, `DataCrcIsRemainder`,
`SessionStartsClean`, `UnlockedOnlyWhileWriting`, `AcknowledgedIsInPlace`,
`BootedIsImage`, `SilenceRealigns` and `SilenceEndsSession`, `DeliversFile`,
`CursorIsPosition`, `FailsOnlyAtTheEnd`, `StopsAtBreak`, `MountedFits` and `OpensByName`, `AtRest`, `WholeExchange` and
`OnlyReprogrammingGoesOn`, `HandlersFindTheirDevice`, `QuietHandover`, and one
`TypeOK` per module that needs it. Action properties:
`BeyondIsWriteOnce` and `OnlyImageChanges`. Refinement: `ImplementsFifo`, `ImplementsFlashRange`, `ImplementsUpdater`
and `ImplementsBlockStore`. Liveness: `UpdateCompletes`, `HandshakeIsAnswered`, `ReadsReturn`, `CallsReturn` and `StartsUp`. Each property is stated in words where it
is defined.

Three results say less than they seem to. `ErasesOnlyImage` holds in part because
the loop of FLASH runs the wrong way and erases nothing at all for an image in several
sectors (section 5). `BootedIsImage` holds because the *host* compares the CRC before it
boots; the bootloader itself boots whatever does not begin with a blank word. `ImplementsFlashRange` is about damage that
is small: one pattern in 256 of what is larger passes a CRC8.

### Fairness

* `HostUpdate`: weak fairness of the host's sending and receiving, of the loop's
  own steps and of the inactivity timer while the host is silent. The loop is
  the only thread and the timer a counter in an interrupt, so that neither can be kept from
  its next step; a host that stops for good cannot complete an update. Disturbances are
  never obliged to happen, and bounded, because a supply that fails for ever completes nothing.
* `SessionHost`: weak fairness of the program, of the clock, and of the new host's arrival, in one of its two ways,
  its sending and taking of replies. The first host owes nothing: it may die anywhere.
* `FatFs`: weak fairness of the rounds of `fatfs_read`, each of which is a read of the external flash that returns.
  Nobody is obliged to open or read a file.
* `At45db`: weak fairness of the thread, of the streams together, of the handlers and of the chip's becoming ready: the DMA needs
  nobody to move its bytes, the chip names a time for each of its commands, and the handlers are enabled. Callers owe
  nothing, and a transfer error is never obliged to happen.
* `Boot`: weak fairness of SysTick once it runs, and of each handler, since both have the same priority
  and neither is long; strong fairness of `main` and of `jump_to_app`, whose steps an interrupt delays: the
  handlers are shorter than the millisecond between two ticks, so that the thread runs again and again.
  The USB device raises a bounded number of interrupts. The cable and BOOT owe nothing.

### Runs that find a violation

| Run | What TLC finds |
|---|---|
| `flash_range_erased` | FLASH of an image that reaches into a second sector says OK and has erased nothing. |
| `write_error` | A word that does not read back is answered with OK. |
| `departed_host` | A host that goes with a reply still in the endpoint leaves the loop in `usb_msgsend` for good. |

## 4. What is proved

The theorems hold for every value of the constants that satisfies the named
assumptions of the modules.

* **Ring** (`RxRingProofs`). The inductive invariant is `TypeOK /\ RetIsOldest /\ SlotInv`.
  `SlotIsSafe` alone is not inductive: it speaks of the slots the interrupt can reach
  *now*, and `SlotInv` says where `slot` lies relative to `tail` at each step of `buf_get`,
  from which one gets that it is out of reach. `RingImplementsFifo` shows each step of the ring to
  be a step of the queue or to leave it alone; what a byte put in or taken out does to
  `Stored` is shown for circular indices in `PutFact`, `TakeFact` and `PutKeepsQueue`.
* **Geometry** (`FlashLayoutProofs`, `FlashRangeProofs`). `SectorBase` is a recursive
  function, and induction over it has to do without the library's theorems, which take
  an operator. `LeastNat` says that a non-empty set of naturals has a least element; the set of
  counterexamples then has none. `SectorsInOrder` follows; then `AcceptedRangeIsInTable`, from
  `TableAssumption` (the table, that of a chip with two banks, ends behind `APP_SIZE_MAX`: this
  is what keeps the loops from running out of it), and `NeighboursAreKept`.
* **Command loop** (`HostUpdateProofs`, first part). The inductive invariant adds one thing to the three
  safety properties of `AnyHost`: `WritesInSession`, without which a step of a loop that writes
  could come back to a session that is not there, with registers that are not clear.
  `BeyondStaysCleared` proves the action property; `SectorsApart` shows that a word belongs to one
  sector, so that erasing another one does not touch it. The proofs use of the operator `|` only that addresses are closed under it.
* **Update** (`HostUpdateProofs`, second part). None of the four safety properties of `HostUpdate` is inductive. `HostInv` adds to the
  invariant of the loop, part by part: `Conversation`, which command the loop works at when the host waits for a reply, also
  after a host has given up; `Progress`, how far the host has come; `RegistersFollow`, that address and size in the loop are those of the image,
  and `daddr` the place of the next word; `ProgramStays` and `EraseStays`, that a loop that writes has only words and sectors of the image
  before it; `ErasesImage` and `SoundSession`, that in a session that has lost nothing the words reached are in place and those to come are erased;
  `Verified`, that after the CRC was right the image is in place until something is written. From it follow `BootedIsTheImage`,
  `AcknowledgedIsWritten`, `OnlyTheImageChanges`, and `UpdateImplementsUpdater`, which maps each step, torn ones included, to one of Updater
  or to a stutter. The theorems hold for every flash, table, image, chunk size, set of worn words and number of disturbances under
  `FlashAssumption` (the flash is a whole number of words and does not reach the end of the address space) and `ImageAssumption` (the
  image begins at a word of the flash and fits). `AcknowledgedIsWritten` has one hypothesis more, `Erasable`: the image lies in one sector of those the application has, and
  ends before the sector does. Without it FLASH says OK and erases nothing (section 5), and what is programmed over old
  words is not what was sent; the loop does not look (`write_error`).
* **Session** (`SessionProofs`). That silence realigns is a matter of arithmetic between three clocks, the time since the last byte and
  the two timers. `SilenceRealigns` says nothing about the timers; `FrameWaits` says how long the silence can have lasted with
  what `TIMER_IO` still has to run, one timeout within a frame and two at its end, `SessionWaits` the same of `TIMER_BL`, and `TimersRun` that no tick finds a reader of
  bytes that has not looked at its timer. `RingDrains` is needed because what silence leaves in the ring is read late. The proofs hold for every ring, timeouts, frame lengths and packets
  under `SessionAssumption`, where `BL_TIMEOUT` is at least twice `IO_TIMEOUT`, as it is in `include/defs.h`.
* **Start and hand-over** (`BootProofs`). The invariant says what has been started, and what turned off, in each
  stretch of the program: `DeviceInv`, `LedInv`, `QuietInv`. Neither property is inductive without it. The
  proof has a case per call; `HandoverAlwaysQuiet` rests on SysTick's being taken before the call that
  disables it, so that none is left waiting.

* **FAT driver** (`FatFsProofs`). `CursorIsPosition` is not inductive: it says nothing of the position behind which a read is about to go
  on. `Cursor` says, of every position of a file that is open, that the cluster is the one the chain has there, and that
  the cached sector and count are right from the moment `__get_curr_sector` has looked for them. `PieceFact` then shows that all bytes of a piece lie in the cluster,
  and `PieceStep`, case by case, that the piece ends inside it or at the beginning of the next. `EntryIsRead` shows that the decoding of an entry, across two bytes and maybe two sectors,
  gives the entry, and that clusters 0 and 1 give none: `FailsOnlyAtTheEnd` and `DeliversFile` rest on it. `StopsAtBreak` speaks of bytes delivered; `Passed` says the same
of the position from which a read goes on, which may be the first of the next cluster. Where a chain leads is a recursive function, and as
  in `FlashLayoutProofs` it takes `LeastNat` to show that it exists for every length (`ChainExists`) and that two of them agree (`ChainsAgree`). `SoundVolumeFits` is `fatfs_mount`: a difference below zero wraps,
  divided by the sectors of a cluster, to more clusters than `FAT16_MAXCLUST`, if the sum of what the boot sector names stays below 2^32 (`WidthAssumption`:
  with the widths of `fatfs_bpb_t`, sectors of 1024 bytes and entries of 32 it is below 2^26). `VolumeAssumption` gives the fields their widths and the entries twelve bits, and
  says that a volume with files has clusters of some sectors and a root directory of some entries.
  `PathsOpenByName` needs no invariant but the types; its argument is about the loop of `__path2dirent`. `Reached` says what that
  has made of the first j characters: the name so far, with the index where it belongs, as long as they fit (`Fits`), and a
  refusal from the first character on that does not. `ScanGoesOn` shows it of one character more, and `ScanReaches`, by `LeastNat` again, of all of them;
  `SplitFact` says where the reference divides the path, `PathScanned` what the loop ends with, and `NamesAgree` that the two are
  the same, for every path without a 0 in it (`PathAssumption`, what a string is in C) and any lengths of base and extension.
  The theorems hold for volumes whose chains are broken too. `FailsOnlyAtTheEnd` speaks only of good files (`GoodFile`), whose
  entry and chain name clusters of the volume; `AlwaysStopsAtBreak` speaks of all the others.

* **SPI exchange** (`At45dbProofs`, first part). `AtRest` and `WholeExchange` speak of the end of an exchange; the invariant says what every step before
  it leaves. Its centre is `Flow`: what the receiving stream has yet to count is at least what the sending one has yet to send and what
  is on the line, and it is either still on (`Live`) or has had all its bytes (`Done`). From that, `rxcomplete` alone tells that the sending stream
  is off and the line empty. A receive error leads to `Stuck`, which the thread never leaves: it needs the interrupt to have gone, and it
  has not. `Supply` accounts for the bytes themselves: those yet to be sent, on the line and received are as many as were asked for.
* **External flash** (`At45dbProofs`, second part). That the driver is a store of pages is a statement about the last step of a call, and nothing
  before it can be left unsaid. The invariant is `DriverIInv`: that of the exchange, and `DriverInv`, with these parts. `Control`: which part of the driver can run
  in which call, and that `page` and `left` add up to the end of what was asked for. `OnBus`: the bytes the chip has got since it was
  selected are those of the script up to its step, those of an exchange in progress being divided between chip and stream, so that what the
  chip begins when it is deselected is the command the driver meant (`EraseOrdered`, `WriteOrdered`, `NothingOrdered`). `ChipOK`: what is under way in the chip
  was begun by this call, or is the change of the page size. `Status`: the status that was read is still true when it is acted upon,
  because the chip becomes ready and never busy by itself; it is also where the driver knows the chip. `Identified`: a chip that is
  not there is not taken for the one that is. `Fetched`: what has come back of a read is what the store holds, byte for byte, also where an exchange is
  under way. `Progress`: pages behind the loop hold what they should. From it follow `TypeCorrect` and `OnlyReprogrammingIsNotWaitedFor`.
  `DriverImplementsExchange` shows that each step is one of `SpiSpec` or leaves the exchange alone, so that `AtRestUnderTheDriver` need not be proved again;
  `DriverImplementsBlockStore` maps each step to one of BlockStore: a chip that becomes ready is a `Change`, the end of a receiving exchange a `Fetch`,
  everything else on the bus a stutter. The theorems hold for every chip that three bytes can address, the one of the code with its 8192 pages of 1024
  bytes among them, for every width of the count, and wherever and however often a transfer fails. They rest on `ChipAssumption` (a page, and the five bytes of
  a read command, are less than a stream can count, as 1024 and 5 are below 65536) and `CallAssumption` (calls name pages and bytes the chip has, and a
  read no more than the 65536 bytes of a count: a longer one returns its size and has moved only what is left over, section 5). `BytesOfAddress` shows that an address taken apart by shifts and masks
  is put together again.

Only model-checked: `ImplementsFlashRange`
and the checksums (`OnlyDamageIsRefused`, `DataCrcIsRemainder`); and the liveness properties, which the prover does not handle. `Checksum` and what extends it
use the community module Bitwise and cannot be proved about; `FlashRange`, below them, does not.

## 5. Where the code and its documentation differ

Besides the three of the violation runs, these were met when the models were written;
the models do what the code does.

* `bl.c:125-134`: FLASH *or*s address and size into registers only the end of a session
  clears. The second FLASH of a session works on a mixture of both commands', from
  which `STM32_BASE_ADDR` has been subtracted twice. (`AnyHost` sends such sequences.)
* `bl.c:136`: an offset, with the bootloader's 16 KB in it, is compared with
  `APP_SIZE_MAX`, from which they are subtracted. The handshake announces a size of which 16 KB do not fit.
* `bl.c:114`, `bl.c:136`: neither ERASE nor FLASH excludes sector 0, the "Bootloader page"
  (`flash.c:12`).
* `bl.c:183`: FLASH_DATA writes wherever `daddr` has come to, behind the range FLASH has checked, and
  after a FLASH that was refused.
* `bl.c:287`: the CRC8 is all that is looked at: the end mark `BL_PROTO_EOM`, which `protocol.h` gives every command, can have any
  value that the CRC agrees with.
* `bl.c:171`: two bytes are read behind the payload of FLASH_DATA, an end mark and the CRC8; `protocol.h:23` has no end mark there.
* `bl.c:213`: DATA_CRC takes a size; `protocol.h:27` has an end address.
* `bl.c:243`: BOOT is answered before it jumps; `protocol.h:32` says "Rep: -none-".
* `bl.c:87`: that no byte has come is known from the last look at the ring. One that comes right
  after it finds its session killed, although the comment says "if no data present".
* `bl.c:92`, `bl.c:108`: inside a session HANDSHAKE means nothing, and rearms the inactivity timer like every
  byte. A host that repeats it faster than every 15 s keeps its predecessor's session open and is never answered.
* `bl.c:50`: the comment says that IRQs and peripherals are cleared before the jump. The interrupts are disabled, but
  what is pending stays pending, `usbd_stop` leaves the core of the device started, and the pins keep their modes.
* `bl.c:61`: the arguments of `led_blink` are the wrong way round. `LED_AVAILABLE` is 0, and so is
  `LED_STATE_NOBLINK`: what was asked for as blinking is turned off. (`LedBlink` of Boot. SysTick
  is off by then.)
* `main.c:116`: with no host attached the application is jumped into without the look at its first word that BOOT takes.
* `fatfs.c:73-84`: `diroff` is not reset for the second sector of the root directory: no entry there, or in a later
  one, is looked at, and `fatfs_open` says it does not exist.
* `fatfs.c:90`: `fatfs_open` does not look at the first cluster of the entry. Of an entry that names 0 or 1, as an empty file's does, a
  first cluster is read from the sectors in front of the data, if the entry has a size; behind it, the test of `fatfs.c:312`
  refuses what the FAT has there. (`StopsAtBreak`.)
* `fatfs.c:146-169`: the next cluster is looked for as soon as one is used up. A read of the last bytes of a
  file that fills its clusters delivers them and returns `-EINVAL`. (`FailsOnlyAtTheEnd` is
  what is left of the promise.)
* `fatfs.c:165`: clusters are numbered from 2, and `clust >= clust_num` refuses the last two of a volume. A file that goes
  on in one of them cannot be read to its end.
* `fatfs.c:133`: after a read that has failed the cluster has no sectors left. The next read of the file asks the flash for
  none of them, an exchange of no bytes, which `__dma_rx_wait` waits for without end. (`ReadsReturn`, `CallsReturn`.)
* `fatfs.c:235`: the difference of sectors is unsigned. A boot sector that says less than its FATs need gives a number that is
  refused for its size, as `MountedFits` shows; only one with clusters of no sectors mounts whatever it says.
* `fatfs.c:34`: what the start of the external flash returns is not looked at: a volume is mounted from a chip that is not there
  if the bytes read happen to be one.
* `fatfs.c:239-241`, `fatfs.c:314-325`: FAT16 volumes are accepted, and their tables decoded as FAT12.
* `at45db.c:80-85`: a chip of odd pages has its page size reprogrammed, and `at45db_start` returns without waiting. The first read
  that comes, that of the boot sector, finds the chip busy and reads anything. (`OnlyReprogrammingGoesOn`.)
* `at45db.c:166-169`: `at45db_bwrite` does not advance `buf`: every page gets the contents of the first.
* `spi.c:195`: the loop of `__dma_tx_wait` lacks its semicolon and clears the flag it should wait for. An exchange ends when all
  has come back, which implies that all has been sent. (`AtRest`, `WholeExchange`.)
* `spi.c:208`: the count of a stream has sixteen bits. An exchange of 65536 bytes moves none and does not return, a longer
  one moves what is left over. (`Hopeless`, `WholeExchange`.)
* `spi.c:226-245`: the handlers do not look at what they are called for. A transfer error of the receiving stream leaves its interrupt raised for
  ever, and one of the sending stream leaves the thread waiting for bytes that do not come. (`CallsReturn` excepts both.)

## 6. What is assumed and left out

* The host is not in the repository. The one of `HostUpdate` is the weakest that
  `protocol.h` allows: one command at a time; after an error, a wrong CRC or no reply it
  is silent until the session has ended, and starts again.
* Checksums: in `Session` CRC8 tells whether the bytes are those of one frame, in `HostUpdate` CRC32 whether two
  sequences of words are the same. `Frames` backs the first for damage that is small; collisions are left out. A frame whose
  first byte is damaged is another command, which `Session` has, and `Frames` has not.
* The flash controller does what libopencm3 says of it: an erase sets every bit of a
  sector, a program clears bits, an unaligned program is ignored; an unaligned read gives 0
  (`flash.c:48`). The flash is also mapped at address 0. Bus faults are left out.
* `Bootloader` takes the reading of a command, `Session` the carrying out of one, as a step.
* In `FatFs` the external flash answers every read but that of no sector: `at45db_read` has no error it could return. The
  volumes of the run that have files are FAT12, and some of their chains broken; the theorems hold for any. `test_fatfs` in `main.c` is not called by anything.
* The chip of `At45db` is taken to do what the driver needs of it: the new page size holds as soon as the chip is ready,
  busy it answers nothing but its status and begins nothing, and a command cut short does nothing. The contents of `_txb` are 0xFF.
  The addresses of the run are small, so that two of their three bytes are zero: that all three are right is proved, and not model-checked. No call names
  pages or bytes behind the last one; the driver does not look. The buffers can be reached by the DMA, or the transfer fails.
* `Boot` assumes that the bus raises no interrupt between the start of the USB core inside `usbd_init` and the assignment
  of `usbd`: a host waits 100 ms before it resets a device that has come up. An interrupt
  that is pending and enabled is handled before the next call, not in the middle of one; each call
  touches a part of the board that no handler looks at, but for `timer`, whose one store is a step. The
  DMA interrupts are enabled but never raised: nothing that `main` calls starts an exchange. Whether the LED is
  lit, and the pins, are left out (`spi_gpio_init`, `usart_gpio_init` and `usb_gpio_init` are not called).
* The debug output of `bl_dbg` is left out, although it is in the default build, whose `Makefile` defines `BLDEBUG`. It goes one
  way, changes nothing the program reads, and nothing prints behind `usart_stop`; but it is blocking, and takes up to about four
  milliseconds of 115200 baud. In the stretches where `Session` is `Busy`, and in `Boot`, any time may pass anyway. The messages at the
  start of a command (`bl.c:110` and its like) come between two bytes of it, where `Tick` takes the loop to look at the ring at least once between two ticks: the silence that
  `SilenceRealigns` and `SilenceEndsSession` count begins, in that build, when such a message has been sent.
* Not modelled: `spi_exchange_nodma`, which nothing calls; the USB descriptors, which are data, and the control requests of CDC/ACM, which answer and
  change nothing; `_sbrk`, which only the `snprintf` of `d_print` calls, and the `Makefile` has the line that would define `DPRINT` commented out.
  No property depends on them. `main.c:64` (`test_fatfs`) writes `buf[ret]` with a
  `ret` that may be below zero; it is not called.

## 7. Plan

In this order; each item with its runs, and its proofs where the module allows them.

Done: the ring; the geometry and the frames that carry it; the loop under any host and under one that updates, with the update
as its abstract specification; the framing, with a host replaced by another; the FAT driver from mounting to reading; the external flash and
the exchange under it, as a store of pages; start-up and hand-over.

1. **Boot** with **Bootloader**: the blank application that `main.c:116` jumps into, and what is pending in the NVIC when
   it does (`bl.c:51`).
2. The USB side of BOOT: whether the host sees the reply that `bl.c:243` leaves in the endpoint before `usbd_stop`.
