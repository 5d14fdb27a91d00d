# A TLA+ model of the OPTR firmware

The repository is the firmware of an SSD (OpenSSD Jasmine) whose FTL keeps the
*order* of the writes: after a power failure the drive holds the image of a
prefix of the write commands it was given, and that prefix covers the last
flush. This directory models the FTL (`src/ftl_optr`) with a power failure after
every flash operation, its write buffer with flash operations in flight, the host
interface (`src/sata`) with its interrupt handler, the flash and memory routines
below them (`src/target_spw`), the installers (`src/installer`) with the bad
blocks they look after, and the simulator the firmware is tested with
(`src/vst`). TLC checks all of it on small instances; TLAPS proves that the FTL implements the
abstract disk, power failures and recovery included, and the central invariants of
its write buffer on hardware, of the host interface, of the command decoding, of
the batch installer and of the simulator's memories.

## 1. Inventory

| part | source | state | operations | what can go wrong |
|---|---|---|---|---|
| command handlers | `ftl.c` | `g_epoch` | write, read, flush, close, open, trim, idle | order of flush, GC, epoch, checkpoint |
| write buffer | `cache.c`, `board.c` | buffers with lpn, dirty, span, epoch; LRU list; `pool_bank`; `buf_id_incomplete`, `stall` | pool, enqueue, dequeue, flush, find a clean buffer, wait | overwrite of a page not yet in flash; a buffer reused while it is programmed; a search that does not end |
| page map | `pgmap.c` | logical to physical map, active page per bank, log page per bank | allocate a page, write the summary, persist and restore the map | links between blocks, two copies of the map table |
| block manager | `blkmgr.c` | ring of blocks per bank with tail, rsv, head; counts of valid pages; victim waiting for its erase; log and map blocks; bad-block bitmap | take, reserve, collect, erase, reclaim the log, read the scan list | erase of what recovery needs; programming an unerased page; wrong counts; use or erase of a bad block |
| log | `log.c` | pending map entries and dependencies, timer request | record entries, dependencies, tags | a tag that promises too much |
| recovery | `recovery.c` | (computed) commit epoch, spans and counts per epoch, cut | analyze, rebuild | half a write, lost flush, unsound cut |
| host interface | `sata/*.c` | hardware event queue, one slow command slot, features, geometry | main loop, interrupt handler, decoding, slow commands, identify data | commands lost or reordered; wrong sectors; promises of the identify data broken |
| timer | `target_spw/misc.c` | | asks for a flush every `AUTO_FLUSH` seconds | race with `record_depent` |
| flash wrappers | `target_spw/flash*.c` | registers of the command port, Waiting Room, bank states, read ring | read, program, copy-back, modified copy-back, erase, transfers to the host | a register kept from the last command; a buffer taken too early |
| memory utilities, hash table | `target_spw/mem_util.c`, `shashtbl.c` | DRAM with check bytes; chains of nodes and a pool | bit, byte, word access, copy, compare, search; insert, remove, update | word boundaries; a node lost or in two chains |
| installers | `installer/*.c` | scan lists in memory, on disk, in block zero of each bank | scan, save, load, erase, install | the factory's bad-block marks lost; a drive that starts without its list |
| simulator | `vst/` | virtual flash and DRAM, child processes | runs the firmware, forks at a crash, checks the recovered image | a false alarm or a missed fault |
| the rest | `uart.c`, `initialize.c`, `stat.c`, `test.c`, `tc`, `script`, `vst/scripts` | | output, set-up, counters, workloads | no state the rest depends on |

How the parts interact. There is one thread: `Main` takes a command from the
event queue and calls `ftl_write` or `ftl_read`, or runs a slow command (flush
among them), or pools the write buffer. Interrupts store slow commands and set
the timer's request. Everything else is calls: the handlers fill the write
buffer; `dequeue` and `garbage_collection` get pages from the page map, which
takes blocks from the block manager; every change of the map is also put in the
list of pending map entries; an overwrite of a dirty buffer leaves a dependency;
checkpoints write both to the log, followed by a tag; a log nearly full makes
the whole map be persisted and the log be erased. On hardware a flash operation
is handed to the controller and goes on by itself: the firmware waits for a bank
or a buffer by polling, and pools other buffers meanwhile. The installer writes
block zero of each bank; the firmware reads it at start-up and derives from it
which blocks every later erase may touch.

The behaviours that are hard: the power failing between any two flash operations;
pages of one write reaching different banks at different times; overwrites that
never reach flash; garbage collection moving pages of writes that recovery may
undo; deferred erases; the windows of a reclaim; programs and reads in flight
that end in any order; commands and resets that arrive while Main is anywhere;
an installer that stops between any two steps. `PROJECT.json` lists each at its
line under `hazards`. The following are real, too, and no property covers them:

* `log.c:170`: the buffer of map entries is bounded by an assertion that is
  compiled out; a long batch of garbage collections fills it.
* `ftl.c:355`: the flush the timer asks for is done by the next write command, so
  on an idle drive never.
* `recovery.c:47`: the table of spans is built in the cache buffers and never
  cleared; it relies on DRAM being zero. With the simulator's default sizes it is
  also larger than the buffers it is put in.
* `pgmap.c:123`: trim clears map entries and not the counts, ignores buffers and
  is not logged (it is compiled out).
* `sata_cmd.c:325`: `pio_sector_transfer` waits for the end of the transfer with
  the FIQ disabled; a reset in the middle is never seen.
* `log.c:138`, `pgmap.c:217`: on hardware the dependency page is programmed from
  `DEP_BUF` while the next overwrite may change it, and the commit page of the
  map can reach flash before map pages of other banks.
* `blkmgr.c` with `MT29F64G08CFABA`: `BAD_BLK_BMP_BYTES` is smaller than the
  bitmap of the blocks of that chip.
* `installer.c:828`, `board.c:79`, `sata_identify.c:288`, `vram.c:247` and `:466`,
  `vst.c:518`, `vpage.c:52`, `installer_unix.c:857`, `mem_util.c:333`: sizes and
  indices checked by nothing but assertions or the shape of the caller.

## 2. Modules

| module | code | |
|---|---|---|
| `OrderedDisk` | `vram.c`, `vst.c`, `checker.c` (their oracles) | the promise |
| `BlkList` | `blkmgr.c` | the ring `blk_list_t` as pure operators |
| `OptrRecovery` | `recovery.c` | flash contents and what recovery computes from them |
| `OptrFtl` | `ftl.c`, `cache.c`, `pgmap.c`, `blkmgr.c`, `log.c` | the FTL, EXTENDS the three above |
| `FlashCtrl`, `CachePipe` | `flash.c`, `board.c`, `cache.c`, `ftl.c` | write buffer and reads with flash operations in flight |
| `SataHost` | `sata_main.c`, `sata_isr.c`, `sata_cmd.c` | main loop, interrupt, queue, slot, rings |
| `AtaCmd` | `sata_table.c`, `sata_identify.c`, `sata_cmd.c`, `sata_isr.c` | what each command means |
| `FlashWrapper`, `MemUtil`, `ShashTbl` | `target_spw` | page operations by register, memory access, hash table |
| `BadBlocks` | `blkmgr.c`, `board.c` | NAND with defects, the firmware's bad-block list and erases |
| `Installer`, `InstallerMenu` | `installer.c`, `deprecated/*.c` | the batch and the interactive installers, EXTEND `BadBlocks` |
| `VstMemory`, `VstHarness` | `vram.c`, `vflash.c`, `vpage.c`, `port.c`; `vst.c` | the simulator's memories and its driver |
| `OptrFtlProofs`, `OptrLogProofs`, `OptrRecoveryProofs` | | theorems about the FTL, each EXTENDS the one before |
| `CachePipeProofs`, `SataHostProofs`, `AtaCmdProofs`, `InstallerProofs`, `VstMemoryProofs` | | theorems about the module they are named after |
| `MCOptrFtl`, `MCCachePipe`, `MCAtaCmd` | | sets of commands for TLC |
| `MCTargetSpw`, `MCInstallers`, `MCVst` | | several modules or instances in one run |

The last three have a variable `part` that says which module and which instance
a behaviour is about; nothing flows between the parts, and the variables of the
others rest.

### The FTL

`OrderedDisk`: writes are issued one at a time, pages are put one by one, a power
failure leaves `View(p)` for some `p` from the durable prefix on. This is
`check_prefix` with `replay_to_commit` (`vst/src/vram.c`), the flush check of
`vst/src/vst.c` and `chk_lpn_consistent` (`checker.c`) in one.

`OptrFtl` is the machine. `pc` names the place in the code, `back` where
`ftl_prefix_flush` returns to.

| variable | code |
|---|---|
| `flash[bank][blk]` | data pages with their spare area, and the link in the summary page |
| `log`, `maps`, `mapIdx` | log blocks as one sequence of pages; the two map blocks; `map_blk_idx` |
| `cache`, `lru`, `pool` | `cache_t.ents` with `EPOCHS`, `lru_list`, `pool_bank` |
| `pgmap`, `vcount`, `active`, `ring` | the DRAM tables, `active_ppns[1]`, `blk_lists[1]` with `vt_blk` |
| `deps`, `mapents`, `timer` | `chkpt_t`: dependencies and map entries not yet in the log, `require_flush_depent` |
| `w`, `bank`, `done`, `idx`, `victim`, `gcPage`, `nvalid` | locals of the running handler |
| `hist`, `flushed`, `incomplete` | history: writes issued, length of the prefix flushed, what recovery reported |

One step ends with at most one flash operation, so that `CrashAndRecover`,
enabled in every state, is the simulator's cut after every program and erase
(`vflash.c`). Pure runs of DRAM work are one step with the operation they lead
to. Actions: `HostWrite`, `WritePool`, `LookupMiss`, `LookupHit`, `CleanPool`,
`CleanFound`, `DepFull`, `Written` are `ftl_write`; `FlushDeps`, `FlushBank`,
`FlushAgain`, `FlushDone` are `ftl_prefix_flush` with `record_depent` and
`flush_write_buf`; `GcSkip`, `GcBegin`, `GcCopy`, `GcEnd`, `GcRound` are the GC
loop and `garbage_collection`; `RecordMapent`, `RecordTag`, `PersistMap`,
`EraseMap`, `EraseLog` are the checkpoint and the reclaim; `SummaryPage` is the
first half of `get_and_inc_active_ppn`; `HostFlush` starts `ftl_flush` or
`ftl_close`; `IdlePool` and `PoolStep` are the idle branch of `Main`; `Timer` is
the interrupt.

Abstractions. The payload is the number of the write that produced a page
(`ver`); pages are whole here (`CachePipe` has partial ones). The log is one
sequence: the real one goes round the banks, and `LogThreshold` counts pages
where the code counts blocks (`log_blk_cnt < 3`). Region 0 is left out, as no
data is written to it. The map pages and the commit page are one step, since a
map without commit page counts as none, and the erase of the log and of a map
block are one step, since each starts with the block that makes the rest
unreadable. An epoch of 0 in a map commit counts as "no table", as in the code.
Flash operations are synchronous, as in the simulator build, which is also the
only build with recovery and spare tags. A recovered drive is only read: the
firmware does not rebuild the block lists. What recovery computes in loops is
defined in `OptrRecovery` by what the loop leaves: of the map entries for a page the
last one, of the pages it may choose from the newest and of those the first one
scanned; a page and an entry are known by their place in the scan (`at`).

### The write buffer on hardware

`FlashCtrl` is the controller: one command in the Waiting Room, one in each bank,
in order within a bank and in any order across banks. A transfer between DRAM and
a bank is made when the bank goes idle, the moment at which a buffer changed too
early does most harm. `CachePipe` is the firmware's thread on top of it: `pc`
names the register it polls or the place where it is about to touch what the
controller touches. `stall` and `incomplete` are the two fields of `cache_t` that
guard a buffer, `rdId`, `rdPtr`, `ready` the read ring; a page has `Part`s, so
that a write may need the rest of the page read first (`prewait`, `preread`).
`Holds` compares the parts that were ever written: the others keep what the buffer
had before. `PromptAccept` is an assumption about the hardware the code makes
(`flash.c:36`): an idle bank has taken its command before the firmware polls
again. Without it `ProgramsCarryIssued` fails as soon as a bank has three buffers
(six writes are enough): `wait_bank_free` sees a bank that has not yet taken the
program of buffer 0, the pre-read into buffer 1 replaces `buf_id_incomplete`, and
a hit then fills buffer 0 while its program is on its way. `place` is where the
thread stands in its own code while `dequeue` waits for a summary page.

### The host interface

State of `SataHost` and the code: `eq` is the hardware event queue, `eqFull` and
`held` are `eq_full` and `g_sata_action_flags`, `slow` the slot for slow
commands, `srst` the flag of a soft reset in progress; `wr` and `rd` are the
rings with `SATA_WBUF_PTR`, `BM_WRITE_LIMIT`, `g_ftl_read_buf_id` and
`SATA_RBUF_PTR`; `intr`, `fis`, `ctl` and `link` are registers; `cmd` is what the
host waits for. `GetEvent`, `NoEvent`, `NoSlowCmd`, `TakeSlowCmd`,
`SearchAtaFunction`, `RunSlowCmd`, `ClearSlowCmd` are the lines of `Main` at which
it reads or writes what the interrupt handler shares; `FtlWritePage` and
`FtlReadPage` are one turn of the loops of `ftl_write` and `ftl_read`, of which
this module keeps the waits for buffers. `HandleGotCfis`, `HandleSrst`,
`HandlePhyOnline` are the branches of `fiq_handler`, which runs before Main takes
its next step. The controller (`ReceivePage`, `SendPage`) and the host are
external. It is what entitles `OptrFtl` to a host that gives one command at a
time.

A command is `read`, `write`, `flush` (any slow command that flushes; those that
only answer differ in nothing modelled) or `bad` (out of range). Every read and
write has the same number of pages. One assumption is about time
(`TightPlaces`): where Main is a few instructions from its next step (between the
look at the queue and the look at the slot, before the code is read, and
between the answer of a slow command and the release of the slot), a host that
is answered does not get its next command in before that step. Without it the
model shows a flush that overtakes a write and a lost slow command; both need the
link to be faster than a handful of instructions. Resets are not restricted.

`AtaCmd` has what `SataHost` abstracts from: the fields of the command FIS, the
three tables, the range check, the functions, the identify data. One command is
in progress at a time. The widths of the fields are constants, so that each can
overflow in a small instance. With `HostReadsIdentify` the host keeps to the
addresses and codes the identify data report; the queued commands 0x60 and 0x61
are then never sent. Strings, timings and the checksum of the data are left out.

### `target_spw`

`FlashWrapper` goes down to the registers of the command port: an operation is a
sequence of commands, each sets some registers and the others keep the value
of the last one. `asked_nand` and `asked_dram` are what the caller asked for. The
caller keeps its own rules (erased pages, no memory another bank still uses).
`MemUtil` has DRAM as the processor and the memory unit address it, with the
check bytes in between, next to `bytes`, the memory as callers see it; a byte is
the set of its bits. `mem_search_min_max` has no caller and is there in the
simulator's form. `ShashTbl` has chains and pools of nodes next to `table`; no part
of this firmware calls it. Its assertion on the node index is checked before the pool
is looked at, as in the code, and stops the program where `OPTION_ENABLE_ASSERT`
is on (`target_spw/target.h`); `jasmine.h` has it off, and the run has both.

### Installers and bad blocks

`BadBlocks` is the NAND with its defects, which the factory marks in the spare
area: an erase loses the mark. A page is what was programmed in it, one or several
times. Its actions are the start-up of the firmware (`build_bad_blk_list`,
`init_blk_list`, `erase_all_blks`), the erases of the log and of one block of a role,
and a power cut. `Installer` is the batch program, one action per command of the
ROM code that changes the NAND and per file; `InstallerMenu` the interactive
ones, one action per operation of the menu, whose loop a fault cuts off at any
bank or page. `LoadSeparator` is the one difference between the two. The firmware
runs only between two runs of the installer, since it needs the drive in normal
mode; the ROM code (bank 0 is what it boots from) is external. `FaultKinds` and
`MaxFaults` bound what fails: a program, an installer that stops at any place, a
save that stops. The result of an erase is never looked at: an erase that fails is
covered by the read-back that follows, unless the installer is also stopped
before it, against which there is nothing. `EpochPages` bounds the log pages
between two checks of whether the log is low, which `ftl_write` and `record_tag` make at
their ends. The assumptions on the constants say what the firmware needs of them:
`record_tag` calls itself while the log is low, so an empty log may not be low
(`(NUM_LOG_BLKS_PER_BANK - 1) * NUM_BANKS >= 3`), and the pages between two checks
must fit in what a log that is not low has left (§4). Not in the model: the factory-mode handshake, timings,
`print_scan_list`; a scan list that overflows the scan buffer is in no run.

### The simulator

`VstMemory` has simulated pages (a tag and one version per sector) next to `cell`
and `nand`, the memories they stand for. Its guards `AloneHost` and `AloneMeta` are
the rule of `vpage.c:15`, which the firmware has to keep, and no more than that:
host data go only to pages without metadata beside them, metadata only to pages that
lose no host data by it. For the second the layout helps, since a store of metadata
that ends at the end of a page also takes the tag of the next page and `ftl.h` puts no
table in front of a buffer of host data. For the first it does not: a copy of host
data that ends at the end of a page tags the next one (`vram.c:139-146`), and behind
the last buffer of the cache is `HEAD_BUF(0)`. `CopyPages` are the targets of such
copies and `Behind` the pages after them. Metadata there keeps its bytes and may have
a tag over them until the next store; the firmware programs it right after one
(`Persist`), so `WritePage` leaves it alone. `BitDram` untags the page of the base
address and not that of the byte it changes (`vram.c:87`, `:97`). Metadata has the grain
of a sector; the loops of `memcpy` and `memset` are one step. `VstHarness` is
the driver: it plays a trace, forks a child per crash, at most `n_jobs` at a time,
and counts verdicts. The firmware is external and may be faulty; the driver has
to tell. `Bound` stands for the number of bytes after which a run ends. Trace
files and synthetic traces, image files and `one_pass` are left out.

## 3. Properties and runs

Each run ends within five minutes with two workers.

| run | module | bounds | what it shows |
|---|---|---|---|
| `order` | `MCOptrFtl` | 2 banks, 3 pages, 2 buffers per bank, 5 writes of 1 or 2 pages that overlap, checkpoints, flushes, crash | prefix and flush semantics, the refinement, chains of dependencies |
| `gc` | `MCOptrFtl` | 2 banks of 5 blocks with 3 data pages each, 1 buffer per bank, 9 writes, idle pooling, crash | GC with deferred erase: blocks left, counts, victims, erased pages, the assertions of `garbage_collection`, map entries |
| `chkpt` | `MCOptrFtl` | 4 pages, 2 buffers per bank, 5 writes, timer, close, crash, log of 8 pages, weak fairness | checkpoints, reclaim, the two map tables, room in the log, every command ends |
| `pipe` | `MCCachePipe` | 2 banks, 4 pages of 3 parts, 2 buffers per bank, 2 read buffers, 4 commands | reuse of buffers, partial pages, reads and flushes with programs in flight |
| `host` | `SataHost` | 4 commands, event queue full at 2 entries, 3 write and 2 read buffers, 2 pages per command, 2 resets | order, data, answers, the held command, resets |
| `commands` | `MCAtaCmd` | all command codes; fields of 4, 8, 32, 64, 128, 256 values for a drive of 24 sectors | the right sectors, nothing refused, every command answered |
| `target` | `MCTargetSpw` | 2 banks, 3 or 4 blocks, 1 or 2 planes or dies, 2 operations (3 for the ring); 3 keys, 2 per bank, assertions on and off; 16 bytes, 2 operations | page operations, hash table and memory access do what was asked |
| `installers` | `MCInstallers` | 2 banks of 10 blocks, 3 of them log, bad blocks at both ends of the roles, 2 faults | no mark is lost, a drive that starts knows its bad blocks, installs can be repeated |
| `vst` | `MCVst` | 1 block, 3 to 5 pages of DRAM of 1 or 2 sectors, a page of metadata behind a target of copies, 1 version; a trace of 4 entries, one of which wraps first in the second repetition, 2 crashes, 2 jobs | the simulator's memory is exact, its verdicts are until an address wraps late |
| `flushlost`, `srstlost`, `partlist` | | | the findings below (expected violations) |

The FTL:

* `PrefixSemantics`: the recovered image is exactly the first `incomplete`
  writes (`check_prefix`).
* `FlushSemantics`: that prefix covers the last completed flush, once a
  checkpoint of some write exists.
* `RoomLeft`: blocks taken are free and erased or erasable, the head of the ring
  does not come round to the reserved blocks and no victim is one of them, a victim
  has been written to its end, a collection gains at least one page (the assertion
  "GC threshold set too large", compiled out on hardware), and no reclaim comes at
  the one epoch whose map table would count as none. The code looks at none of
  this: `GC_THRESHOLD` and the number of spare blocks have to be chosen so that it
  holds. With four blocks instead of the five of `gc` it does not: between two
  checkpoints every used block can be reserved; `get_victim_blk` then goes round the
  whole ring, and takes a block that recovery still scans.
* `CountsExact`: the counts are exact, and a collection copies as many pages as
  they promise (the other assertion at the end of `garbage_collection`).
* `ProgramsErasedPages`: `chk_overwrite` and `chk_non_seq_write` of the
  simulator, although a victim is freed before it is erased.
* `ChainReserved`: the blocks recovery scans are in the reserved part of the ring.
* `MapentsComplete`: map table, logged and pending map entries together always
  give the current map.
* `CheckpointComplete`: at a tag nothing is left in DRAM that is not in flash.
* `DepsForward`: dependencies lead from a write to a later one.
* `LogFits`: the log stays within its blocks between two reclaims. With the
  bounds of `chkpt` 8 pages suffice and 7 do not.
* `ImplementsOrderedDisk` (action property): every step is a step of `OrderedDisk`
  or leaves it unchanged: collection, checkpoints and pooling never change what a
  read returns. `NeverForgets`: no step takes back a write that a power failure
  just before would have kept.
* `CommandsComplete` under `WF_vars(FtlStep)`.

The write buffer on hardware: `ProgramsCarryIssued` (nobody fills a buffer before
its page is in flash), `NewestKept` (the last write of every part is in its
buffer or will be in the page it is mapped to), `HostReadsNewest`, `FlushOnFlash`
(when `flush_write_buf` returns everything is in flash), `CommandsEnd`.

The host interface: `ExecutesInOrder` (the queue and the slot, served in turn, do
not reorder or repeat commands), `DataMatches` (pages in the rings belong to the
command that finds them, and no answer but to the outstanding command, until a
reset), `HeldIsQueued` and `QueueBounded` (the command held back can always be
released, and the queue does not grow although resets leave its entries in
place), `FlushCoversAnswered`, `CommandsAnswered` (each command is answered
unless a reset comes); `ExactSectors`, `IdentifyKept` (the capacity reported can
be reached, the commands reported as supported have a function, the sizes
agree), `EveryCommandAnswered`.

The rest: `CallsAsAsked`, `SyncIsDone`, `TableExact`, `DramExact`; `MarksSurvive`,
`BootableKnowsDefects`, `LogOfGoodBlocks`, `Repairable`; `MemoryExact`,
`VerdictsExact`, `RunEnds`. Each is stated in a comment above its definition. Three of
them describe what the code does where it falls short: `TableExact` says that the
assertion of an insertion stops a caller within the limit only in a bank that was full
before, and then although the pool has a node; `MemoryExact` that a tag is over metadata
only behind a target of copies and never in flash; `VerdictsExact` that a wrong
verdict comes only after an address has wrapped in a later repetition of the trace.

Fairness. The firmware is a single loop, so it always takes its next step
(`FtlStep`, `Thread`, `DeviceStep`, Main and the interrupt of `SataHost`); the
controller finishes what it was given; a host that announced data sends it. Host
commands, timer, resets and power failures get no fairness. `Repairable` assumes
that a user whose install failed tries again: weak fairness of the installer's
next step and strong fairness of starting it with the install command, and
faults are bounded. `RunEnds` assumes that parent and children run on. Deadlock is
checked in `commands`, `installers` and `partlist`; elsewhere the system really
stops: after close, after recovery, at the last command of the bound; in `host` a
reset can leave Main waiting for pages of an aborted command, and whether they
come depends on the controller.

Why the bounds are enough. Two banks are what it takes for the pages of one
write to be torn apart; three overlapping writes make a chain of dependencies
and the bounds allow five; two buffers per bank give an LRU order to get wrong;
with five blocks and a GC threshold of two writes go on next to collections, and
nine writes take the ring round, to a block that was collected; six log pages before a reclaim let a
reclaim happen twice. In `pipe` three pages share a bank of two buffers, so that
four commands reuse a buffer whose page is in flight. An event queue that is full
at two entries is full in most behaviours of four commands, commands of two pages
do not fit in the two buffers the controller may fill once another is there, and
two resets let one arrive while the other is being handled. In `installers` one
more bad block would leave a role without blocks, and two faults let a repair
fail, too. In `commands` each field is tried at both ends of its range. Every
property has a mutant of the code that breaks it under the same bounds
(`PROJECT.json`, `mutants`), among them the removal of the flush before GC that
`README.md` of the repository suggests as an experiment.

### Findings

`srstlost`: a reset that arrives while a slow command runs, for instance a flush
that takes longer than the host is willing to wait, is stored in the slot
(`sata_isr.c:87`, `:293`) and wiped out when the running command returns
(`sata_main.c:110`); `ata_srst` never runs, although `sata.h:186` calls an SRST "as
if it were an ATA command". The shortest trace TLC prints is a link that comes
back at the very end of a slow command; the same happens for the whole duration
of `ata_flush_cache` (place `run`).

`flushlost`: before the first checkpoint the only tag in the log is that of
`format()`, whose epoch is `g_epoch - 1 = 0xFFFFFFFF` (`log.c:209`). No page has
a larger epoch (`recovery.c:449`), so the cut wraps round to 0 and recovery
returns the empty image, although a flush has completed. The flush check of
the simulator (`vst.c:142`) would report it; it crashes only every 100000 flash
operations, long after the first checkpoint. `FlushSemantics` therefore starts
with the first checkpoint, and so does the durable prefix of the refinement.

`partlist`: `load_scan_list_from_file` sets `scan_list_loaded` after the first
bank's file, does not look at what `fread` returns, and `main` ignores its FAIL
(`installer.c:1516`). When a save was interrupted, `install` passes its check for
a loaded list (`:1413`), erases block zero and writes an empty list for the other
banks, whose bad blocks the firmware then erases. The properties of `installers`
therefore start from a save that was not cut off (`SaveCutOff`).

Reached by the runs, and stated in their properties:

* `vst.c:388`: a wrapped address replaces the one in the trace, also for the children
  that replay it from the start. In `vst`, with a drive of 6 sectors and repetitions
  moved by 2 sectors, the entry `(4, 2)` is written at 4 first and at 0 in the second
  repetition; a crash during the write after that leaves an image with sector 4 of
  the first repetition, the child replays 0 in its place, and correct firmware fails.
* `shashtbl.c:63`: the assertion counts the nodes ever taken from the slice, so that
  it fails for an insertion the pool has a node for: with a limit of 2, insert,
  insert, remove, insert (part "asserts" of `target`).
* `vram.c:126`, `:139`, `:186`: the loops over pages end at the page of the first byte
  behind the range. The first full page that goes into the last buffer of the cache
  (`cache.c:70`) tags `HEAD_BUF(0)`; that `persist_tag` stores into it before it programs
  it (`log.c:210`) is all that keeps the tag of the log from being taken for host data.

Seen while modelling and kept out of the runs by their bounds:

* `sata_isr.c:150`: `lba + sector_count` is computed in 32 bits and lba is cut to
  32 bits (`:130`), so that some addresses past the end pass the range check.
* `sata_cmd.c:212`: INITIALIZE DEVICE PARAMETERS gets no sector count (its code is
  not in a class with `ATR_SECT_CNT`) and always aborts, so that CHS addresses are
  decoded with a geometry of zero.
* `sata_cmd.c:67`: SET FEATURES gets no sector count for the same reason, so that
  auto-activation is never enabled although the command is answered without
  error. `:76`: turning off the write cache clears a flag that nobody reads;
  word 85 of the identify data says it is on.
* `vst.c:126`: the last sector is not compared. `checker.c:43`: the version of a
  sector is looked up whatever the tag of its page.
* `installer_unix.c:1011`: the interactive installer loads part of a list like
  `partlist`. `deprecated/installer.c:1258`: it looks the list up under a
  backslash and saves it under a slash.
* `shashtbl.c:68`: the distance of two slices is computed from pages of a block,
  their limit from pages of a bank.

## 4. Proofs

Every theorem is about all values of the constants that satisfy the named
assumptions of the modules. Each `*Proofs` module starts with its invariant, every
part of it with a comment; then come lemmas about data (rings, sequences, finite
sets), one lemma for each group of actions and part of the invariant, and the
theorems last. All invariants were model-checked under the bounds of section 3
before they were proved.

### The FTL

From `NumBlksAssumption`, `RecoveryAssumption`, `LpnsAssumption` (a drive has
finitely many pages) and `FtlAssumption`, power failures included:

| module | theorem | statement |
|---|---|---|
| `OptrFtlProofs` | `InductiveInvariant` | `Spec => []IInv` |
| | `TypeCorrect` | `Spec => []TypeOK` |
| | `TagsAreComplete` | `Spec => []CheckpointComplete` |
| | `DependenciesForward` | `Spec => []DepsForward` |
| | `NeverOverwrites` | `Spec /\ []RoomLeft => []ProgramsErasedPages` |
| | `CountsAreExact` | `Spec /\ []RoomLeft => []CountsExact` |
| | `DiskInvariant` | `Spec /\ []RoomLeft => []DInv` |
| `OptrRecoveryProofs` | `RecoveryInvariant` | `Spec /\ []RoomLeft => []FullInv` |
| | `RecoversPrefix` | `Spec /\ []RoomLeft => []PrefixSemantics` |
| | `KeepsFlushed` | `Spec /\ []RoomLeft => []FlushSemantics` |
| | `MapRebuildable` | `Spec /\ []RoomLeft => []MapentsComplete` |
| | `RecoveryGrows` | `Spec /\ []RoomLeft => NeverForgets` |
| | `ImplementsDisk` | `Spec /\ []RoomLeft => ImplementsOrderedDisk` |
| | `ChainStaysReserved` | `Spec /\ []RoomLeft => []ChainReserved` |

`IInv` is `TypeOK /\ EpochInv /\ FlushInv /\ CacheInv /\ DepsForward`.
`EpochInv` ties `g_epoch` to the number of writes issued, by place in the code;
it gives the bound on epochs (`MaxWrites < GcTag`) and is needed because a tag is written
both with and without a write in progress. `FlushInv` says what has already been
emptied at each place: dependencies from `FlushDeps` on, the buffers of the
banks passed in a round with `done` still set, map entries before the tag. That
is what makes `CheckpointComplete`, not inductive by itself, follow. `CacheInv`
bounds the epoch of every dirty buffer and separates it from the running write,
which makes a new dependency strictly forward.

The theorems with `[]RoomLeft` are about drives on which nothing runs out. This
depends on thresholds, sizes and workload and is no consequence of the assumptions;
run `gc` shows it for a drive with collections all the time, and that it breaks when
checkpoints release no blocks. The invariant of the first two is `SInv`:

* `BankOk`: positions of the ring in order with `free` counted exactly but for the
  block about to be handed over, free blocks erased except the one waiting for its
  erase, used blocks closed, the active one erased from its page on. The ring
  itself is `RingOk`: no block twice.
* `MapOk`, `HomeOk`, `CacheHome`: the map leads to pages that exist and hold the
  logical page, none of them in the block waiting for its erase; pages and buffers
  stay in the bank of their logical page. Without this an erase could take a
  mapped page, and a program could count for a block of another bank.
* `VictimInv`, `CountInv`: during a collection the victim is at the tail, pages
  before `gcPage` are no longer mapped, and `nvalid` plus those still mapped is
  the count; elsewhere the count is the number of map entries. That the victim
  may be freed with its erase pending follows from this and from `MapOk`.

`DInv` adds what the refinement needs. `OneBuf` and `MissInv`: a page has one buffer
(a second one could be read instead of the newer). `CleanStored`: what a clean
buffer holds is what the map leads to (`Stored`), which is why it may be given
up; a collection that moves the page keeps it. `TagInv` and `FlushedInv` carry the
durable prefix through a reclaim: until the map table is committed the tag is in
the log, afterwards the table has an epoch, so that `Checkpointed` never becomes
false. The proof sorts the steps by what they do to the data (`Stays`, `Stores`,
`Buffers`): the first two leave what every page reads as, the third is `Put`.
So far the step that ends in `recovered` is left out (`ImplementsUntilPowerFails`).

Recovery is the rest. `RecInv`, that a recovered drive holds the first `incomplete`
writes, is a fact about the step `CrashAndRecover`, which is enabled everywhere; so the
proof is about what recovery *would* return at any moment, a function of flash, log
and map tables. Between a tag and the next one (a tag covers the writes before
`Saved`) this is put together from, in `OptrLogProofs`:

* `LogInv`: the epochs of the tags grow; behind the tag the replay goes on from there
  are dependencies, then at most the map entries of a checkpoint under way, and tags of
  the same epoch; the newer map table is the current map, and at a reclaim the log is
  erased only when nothing of it is needed any more.
* `ChainInv`: from the active page of the tag the summary pages lead, block after
  block, to the active page of now, through the blocks from the mark `rsv` to the head
  (`ChainAt`). This replaces the recursive `ChainOf` (`ChainBlocks`). The last page a
  bank has programmed is the last one scanned, so that every program adds one page to
  what is scanned, and nothing else does (`NextScan`).
* `AcctInv`: every page of a write since the tag is in flash where the scan finds
  it, in a dirty buffer, covered by a dependency that an overwrite left, or still to
  be put (`Located`), and their number is that of the pages of the write
  (`CountOk`). Six kinds of steps change it (`AcctSteps`): issue, put, overwrite,
  program, copy, none.

And in `OptrRecoveryProofs`:

* `CutIs`: the epoch that `find_first_incomplete_write` and
  `pull_epoch_incomplete` arrive at is the largest prefix of the writes that is
  *safe*: each of them is complete in flash and log, and no logged dependency leads
  from inside the prefix to the outside. The account is what makes "as many pieces
  as its span says" mean complete. `NextCut`: no step of the firmware makes the cut
  smaller, since a page that has reached flash stays in the scan and a new dependency
  starts at a write that was not complete. `FlushOk`: at the end of a flush the cut is
  everything issued.
* `MapNow`: map table, logged and pending map entries give the current map.
* `OldInv`: a page that nobody has written since the tag is where the replay
  with the copies finds it; and that place holds what the first `Saved` writes left
  of it and is not going to be erased, or else a write that recovery keeps has
  written the page again. This is the property that ties garbage collection to
  recovery: a victim may lose its old pages because `gc` begins after a flush, at
  the end of which the cut covers everything in it.
* `HistInv`: a read returns the last write to the page.

From these the page that `rebuild` chooses for each logical page is one of the last
write to it before the cut (`RecoverKeeps`), which is `PrefixSemantics` and the step
`Crash` of `OrderedDisk`. `FullInv` is the conjunction of all parts. `TypeOK` says nothing of
the map after recovery. The liveness property `CommandsComplete`, and `LogFits` and
`RoomLeft`, which depend on the sizes, stay with TLC.

### The write buffer on hardware

`CachePipeProofs`, from `PipeAssumption` and, as a hypothesis of each theorem,
`PromptAccept` (see section 2; without it the statements are false):

* `TypeCorrect`: `Spec => []TypeOK`
* `ProgramsFindTheirData`: `Spec => []ProgramsCarryIssued`
* `NewestIsKept`: `Spec => []NewestKept`
* `HostReads`: `Spec => []HostReadsNewest`
* `FlushReachesFlash`: `Spec => []FlushOnFlash`

`OneInv` is what `PromptAccept` gives: a bank never has more than one command, in
the Waiting Room or in the bank. The other parts speak of that command (`InBank`)
and of what buffers and flash will hold when it is done (`Later`, `Flash`).
`ThreadInv` says what the thread has found out at each place (a miss is still a
miss, the buffer it chose is still clean, its bank is held by `stall`), `EntsInv`
that a page has one buffer. `ProgInv` and `ReadInv` are the core: the one
`buf_id_incomplete` of a bank, shared by programs, pre-reads and hits, names the
buffer the bank works on, or the thread is filling it and does not touch the same
parts; `EraseInv` and `FillInv` exclude the other operations meanwhile. `BufInv`
and `FlashInv` then say where the last write of each part is, `SlotInv` the same for
the slots of the read ring, `FlushInv` what `flush_write_buf` has seen empty.
`CountInv` bounds the pages taken by the writes issued: a write is owed two, of
which a summary page may have lent one. The attempt to prove `NewestKept` found an
error in an earlier form of the model: where the thread stands while `dequeue`
waits for a summary page is now `place`, and no longer the place `dequeue` returns
to.

### The host interface

`SataHostProofs`, from `SataAssumption` alone and with resets at any time:

* `HostTypeCorrect`: `Spec => []TypeOK`
* `HeldCommandQueued`: `Spec => []HeldIsQueued`
* `QueueStaysBounded`: `Spec => []QueueBounded`
* `CommandsInOrder`: `Spec => []ExecutesInOrder`
* `FlushesCover`: `Spec => []FlushCoversAnswered`
* `DataOfItsCommand`: `Spec => []DataMatches`

`IInv` is `TypeOK /\ PlaceInv /\ HeldInv`. `PlaceInv` says what Main, the
controller and the interrupt find at each place (pages left, a code in the
slot); `HeldInv` strengthens `HeldIsQueued` by "the queue is full while a command
is held", without which a later entry could be appended behind the held one.

The next three rest on `OInv`, which adds `HostInv` (what the host waits for when a
command is in the FIS, with the controller or nowhere), `SlowInv` (while a slow
command is pending or runs no other command is on its way, and what is left in the
queue when Main turns to the slot), `FullInv` (a full queue has a command held back
and is not answered) and `LineInv`. `LineInv` puts executed commands, queue, slow
slot and FIS in one line: `OrderInv` says that each part of the line lies before
the next, `KindInv` which commands are in which part, `AckInv` that a write
answered has left the FIS, `NothingLost` that until the first reset every command
in range is somewhere in the line. The assumption `EqLimit > 1` is the code's
(`HW_EQ_SIZE` is 128 with a margin of 4, `sata_main.c:27`);
`QueueBounded` is false for a limit of one.

`DataMatches` needs to know what lies in the two rings, and rests on
`DInv = OInv /\ SyncInv /\ RingsInv`. `SyncInv` says that until the first reset
whatever holds a command (the FIS, the held command, the slow slot, the transfer)
holds the one the host waits for. `RingsInv` says that there is a function `P`,
the pages of all commands up to each, such that the pages in a ring are those from
`lo` to `hi` of that count (`Window`), where one end is what the FTL has handled
and the other what the link has moved. `P` is quantified inside the invariant since
the model chooses the number of pages only when a transfer starts. `WindowPut` and
`WindowGet` are the two steps of a ring, with the remainders of its pointers;
`OneOwner` says that a page of the count belongs to one command.

### What each command means

`AtaCmdProofs`, from `AtaAssumption` and for a host that keeps to the
identify data (`HostReadsIdentify`; without it no address need be in range):

* `SectorsExact`: `Spec => []ExactSectors`
* `IdentifyDataKept`: `Spec => []IdentifyKept`

Its `IInv` adds five parts to the two properties. `MediaInv` and `WorkInv` carry
the command from the FIS to the event: its fields fit their registers, its
sectors the drive, and what was decoded is what it named. `IdnInv` says that what
the host has read is still true, which rests on `GeometryInv`: the geometry stays
zero, since INITIALIZE DEVICE PARAMETERS is never given a count. Lemma `Search`
takes the tables entry by entry: no command reported as supported leads to an
abort, only code 0x91 changes the geometry, and 0x27 and 0xF8 lead to the
function that reports the size. `PlaceInv` says when sectors have been handed over.

### The installer and the bad blocks

`InstallerProofs`, from `BadBlocksAssumption` and, as a hypothesis of each theorem,
`InstallerConstants`:

* `InstallerTypeCorrect`: `Spec => []TypeOK`
* `LogOfGoodBlks`: `Spec => [](LogEraseExact /\ LogNeverRunsOut)`
* `SdramIsAsBuilt`: `Spec => []SdramAsBuilt`
* `MarksKept`: `Spec => [](~SaveCutOff => marks = defects)`
* `BootableKnows`: `Spec => [](~SaveCutOff => BootableKnowsDefects)`

They are about the batch installer with any number of banks, planes, blocks and
pages; run `installers` checks the same properties on two instances of it, and on
the interactive installer, which has no theorem.

`AnyInv` is `TypeOK /\ ListInv /\ FwInv /\ LogInv /\ OrderInv`. `ListInv`: whatever
is kept of a bank, in a file, in memory or in block zero, are defects of that
bank, so that the firmware takes no good block for a bad one and every role has its
blocks. `FwInv`: the roles are those of the bitmap, and above block 1 the valid
counts mark the same blocks as the bitmap once `format` is done. `LogEraseExact` then
follows from lemma `ErasesTheLog`: both searches go through the good blocks in the
order of their ranks (`NextGood`), one step of the recursive function `LogErase` for
each. `LogInv` says where the log is: the banks take turns, so that there is a
block `k` and a page `p` at which the banks from `bank_active` on are, and the others
one page further (`LogAt`); `log_blk_cnt` is then known exactly, and the pages left,
together with those used since the last check, are at least `EpochPages`. The proof
gave the bound on `EpochPages` in `BadBlocksConstants`: with a check that stops at
three blocks left, `NUM_BANKS * (PAGES_PER_VBLK - 1) + 3 - NUM_BANKS` pages are sure,
and a bound that ignored the blocks other banks had already taken let the log run
out with five banks or more. The assumption `(NUM_LOG_BLKS_PER_BANK - 1) * NUM_BANKS >= 3`
is what keeps `record_tag` from reclaiming again at once.

`Safe` is `marks = defects /\ FullInv /\ BootInv`, and holds as long as no save was
cut off (`SaveCutOff`, for good once true). `FullInv` follows the complete lists from
the scan to the files, to memory and to block zero, and from there to the bitmap; it
makes every erase one of a block that has no mark (`ErasesNoBad`). `BootInv` is the
order of the install: from the fill pages on every bank has its list, and a boot
bank that starts goes with a list in every bank, but between the first erase and
the comparison of the lists. There a drive can start only when the erase of the boot
bank failed, which `erase_flash` does not notice; `EraseFailed` says that no fault is
then left. Hence the hypothesis `FewFaults` of `MarksKept` and `BootableKnows`: where
an erase may fail, at most one step does. Any number of other faults is allowed.
Without the hypothesis both are false: an erase that fails and an installer that is
stopped before the comparison leave a drive that starts with lists erased.

### The simulator's memories

`VstMemoryProofs`, from `MemoryConstants`:

* `MemoryIsExact`: `Spec => [](HostDataExact /\ MetadataExact /\ KeptVersionExact /\ NoFalseMismatch)`

It is what `MemoryExact` of run `vst` says, for pages, buffers and requests of any
size and any set of targets of copies. `IInv` is `TypeOK`, `PageOk` of every page of
DRAM and flash, and `ErasedOk`. `SectOk`, one sector of `PageOk`, puts the first two
properties together: neither holds by itself after a copy that changes the tag. A
page that is not behind a target of copies has, besides, no tag over metadata; one in
flash never has. `ErasedOk` is why a program may be of either kind: `is_erased` means
no tag and no data, while the versions of an earlier use are still there, which
`tag_page` has to clear. The actions come down to three lemmas about a page:
`HostPage`, written with a tag, where metadata may stay under it (`LaidOn`) if the page is
behind a target; `MetaPage`, written without one; and `BitPage`, whose tag is left as
it is. `AloneHost` and `AloneMeta` are needed for the sectors that the write leaves alone,
and nowhere else. The pages a copy tags are those of its range and, by `PageNext`, at
most the one after its last, which is in `Behind` (`CopyHostKeeps`); `PersistKeeps` is
`MetaPage` before the program, so that what reaches flash has no tag. That `memcpy` goes by
the tag of the first source page is right because the others have the same
(`CopyHost`), and a copy of metadata needs no such guard: it is enough that it
copies no host data.
The last two properties are about reads and follow from the invariant.

### Only model-checked

Liveness (`CommandsComplete`, `CommandsEnd`, `CommandsAnswered`,
`EveryCommandAnswered`, `SyncIsDone`, `Repairable`, `RunEnds`), since TLAPS has no
rules for fairness and ENABLED here; what recursion over data computes (the memory
search), since the induction theorems of the library take an operator as parameter and
cannot be instantiated (recovery is proved all the same: what its loops leave is
defined without recursion, and for the chain of blocks and the pull of the cut, which
are recursive functions over numbers, the least counterexample is enough); `LogFits` and
`RoomLeft`, which depend on the sizes; the interactive installer; the verdicts of the
simulator (`VerdictsExact`); and the properties of `target`.

## 5. Not modelled

* PIO transfers of READ and WRITE BUFFER, retries of `R_OK`, strings and timings
  of the identify data.
* Trim (`OPTION_SUPPORT_TRIM` is 0), the warm-up of `ftl_idle`, region 0.
* Of the flash wrappers `nand_page_program_from_host` and
  `nand_page_ptprogram_from_host`, which have no caller and rest on the hardware
  buffer manager, and the interrupt of read failures; of `mem_util.c` the forms
  for SRAM, a register write and a wait.
* The log pages over banks and blocks, and the map pages one by one: `OptrFtl`
  has them as one sequence and one step (see above). Recovery and flash operations
  in flight are not in one model, because no build has both.
* Start-up, UART, board test, statistics (output, registers, counters);
  `sdram.h`, `bank.h` and the other headers (tables of sizes, which are the
  constants of the modules); `ntddstor.h` (part of Windows); the synthesis of
  traces and the plotting scripts.

## 6. Left to do

1. `MapLog`: log pages over banks and blocks, block counts as in the code, and
   the map pages, each a step of its own, refining the sequence of `OptrFtl`.
2. Theorems: `TableExact` of `ShashTbl`; `CallsAsAsked` of `FlashWrapper`.
