------------------------------ MODULE BadBlocks ------------------------------
(***************************************************************************)
(* The initial bad blocks of the NAND, as the firmware of the hardware     *)
(* build handles them: block zero of every bank, where the installer left  *)
(* the scan list and the firmware image, the bitmap build_bad_blk_list     *)
(* derives from it (ftl_optr/blkmgr.c), the roles init_blk_list gives to   *)
(* the good blocks, and the three ways in which the firmware erases:       *)
(* all blocks at start-up, the log blocks, one block of a role.            *)
(*                                                                         *)
(* A vblk is PlanesPerVblk consecutive pblks of both chips of a bank.  The *)
(* factory marks a defect in the spare area of the block: the mark is lost *)
(* when the block is erased.                                               *)
(***************************************************************************)
EXTENDS Naturals, FiniteSets

CONSTANTS
  NUM_BANKS, PBLKS_PER_BANK,
  PlanesPerVblk,          \* NUM_PLANES with OPTION_2_PLANE, 1 without
  NUM_LOG_BLKS_PER_BANK,
  SCAN_LIST_ITEMS,        \* entries that fit in the page of a scan list
  STAMP_PAGE_OFFSET, FW_PAGE_OFFSET,
  NumFwPages,             \* num_fw_pages of the installed image
  PAGES_PER_VBLK,
  EpochPages,             \* most log pages between two checks of whether the
                          \* log is low, at the ends of ftl_write and record_tag
  ManualBad,              \* bank -> vblks hard-wired in manual_set_bad_blk
  DefectChoices           \* the defects a drive may leave the factory with

VBLKS_PER_BANK == PBLKS_PER_BANK \div PlanesPerVblk
Bank == 0 .. NUM_BANKS - 1
PBlk == 0 .. PBLKS_PER_BANK - 1
VBlk == 0 .. VBLKS_PER_BANK - 1
Chip == {"high", "low"}
Entry == PBlk \X Chip                   \* an entry of a scan list
Planes(v) == {v * PlanesPerVblk + p : p \in 0 .. PlanesPerVblk - 1}

SCAN_LIST_PAGE_OFFSET == 0
FormatMarkPage == FW_PAGE_OFFSET + NumFwPages
BlockZero == SCAN_LIST_PAGE_OFFSET .. FormatMarkPage
FwPages == FW_PAGE_OFFSET .. FW_PAGE_OFFSET + NumFwPages - 1
BootBank == 0           \* the bank the ROM code loads the firmware from

\* The vblks that a bank with these defects must not use.
BadVBlks(b, ds) == {v \in VBlk : \E e \in ds : e[1] \in Planes(v)} \cup ManualBad[b]

\* Block zero is good, the defects fit in a scan list, and enough blocks are
\* left for the map and the log.
Usable(b, ds) ==
  /\ \A e \in ds : e[1] > 0
  /\ Cardinality(ds) <= SCAN_LIST_ITEMS
  /\ Cardinality((2 .. VBLKS_PER_BANK - 1) \ BadVBlks(b, ds))
       >= 2 + NUM_LOG_BLKS_PER_BANK

\* An entry of a scan list has 15 bits for the block.  record_tag calls itself
\* while the log is low, which must not be so after it has been erased.  The
\* last line leaves a page in each block of the log but the ones in use.
BadBlocksConstants ==
  /\ {NUM_BANKS, PBLKS_PER_BANK, PlanesPerVblk, NumFwPages} \subseteq Nat \ {0}
  /\ PBLKS_PER_BANK % PlanesPerVblk = 0 /\ PBLKS_PER_BANK <= 32768
  /\ NUM_LOG_BLKS_PER_BANK \in Nat /\ SCAN_LIST_ITEMS \in Nat /\ SCAN_LIST_ITEMS < 65535
  /\ (NUM_LOG_BLKS_PER_BANK - 1) * NUM_BANKS >= 3
  /\ PAGES_PER_VBLK \in Nat /\ PAGES_PER_VBLK > 1
  /\ {STAMP_PAGE_OFFSET, FW_PAGE_OFFSET} \subseteq Nat
  /\ 0 < STAMP_PAGE_OFFSET /\ STAMP_PAGE_OFFSET < FW_PAGE_OFFSET
  /\ ManualBad \in [Bank -> SUBSET VBlk]
  /\ DefectChoices \subseteq [Bank -> SUBSET Entry]
  /\ \A ds \in DefectChoices, b \in Bank : Usable(b, ds[b])
  /\ EpochPages \in Nat
  /\ EpochPages <= NUM_BANKS * (PAGES_PER_VBLK - 1)
  /\ EpochPages + NUM_BANKS <= (NUM_BANKS * (PAGES_PER_VBLK - 1)) + 3

ASSUME BadBlocksAssumption == BadBlocksConstants

VARIABLES
  defects, marks,     \* the defects of each bank; the marks still readable
  blk0,               \* bank -> page of block zero -> what it holds
  mode,               \* "off", "open", "run"; "stuck": while (1)
  bmp, vcmax,         \* bad block bitmap; blocks whose vcount is VC_MAX
  role,               \* bank -> [map, log, data]: vblks of each role
  blk_log,            \* bank -> the next log block
  log_ppn,            \* bank -> <<block, page>> of the log
  log_blk_cnt,
  bank_active, used   \* chkpt.bank_active; log pages since the last check

nand == <<defects, marks, blk0>>
roles == <<bmp, vcmax, role>>
logvars == <<blk_log, log_ppn, log_blk_cnt, bank_active, used>>
fwvars == <<mode, roles, logvars>>

-----------------------------------------------------------------------------
\* Block zero

NoList == [num |-> 0, list |-> {}]      \* scan_list_t after FILL_WITH_ZERO
Page(kind, ecc, list) == [kind |-> kind, ecc |-> ecc, list |-> list]
Blank == Page("blank", "normal", NoList)
Torn == Page("torn", "normal", NoList)

\* A page is programmed once between two erases; a second program that is
\* not the same data leaves neither.
Programmed(old, new) == IF old \in {Blank, new} THEN new ELSE Torn

\* What the ROM code needs to start the firmware: the stamp and the whole
\* image, both in the strong ECC mode.
Bootable ==
  /\ blk0[BootBank][STAMP_PAGE_OFFSET] = Page("stamp", "strong", NoList)
  /\ \A pg \in FwPages : blk0[BootBank][pg] = Page("fw", "strong", NoList)

-----------------------------------------------------------------------------
\* build_bad_blk_list

\* What the read of the scan list leaves in the interrupt flags, and in the
\* buffer: a blank page reads as all ones, num_entries included.
Corrupted(page) ==
  page.kind # "blank" /\ (page.kind # "list" \/ page.ecc # "normal")
ScanListRead(page) ==
  IF page.kind = "blank" THEN [num |-> 65535, list |-> {}] ELSE page.list

Trusted(page) ==
  LET r == ScanListRead(page)
  IN  /\ ~Corrupted(page)
      /\ r.num <= SCAN_LIST_ITEMS
      /\ \A e \in r.list : e[1] > 0 /\ e[1] < PBLKS_PER_BANK

ScannedBad(page) ==
  LET r == ScanListRead(page)
  IN  {v \in VBlk \ {0} :
         IF Trusted(page) THEN \E e \in r.list : e[1] \in Planes(v)
                          ELSE r.num \in Planes(v)}  \* the search still sees it

BuildBadBlkList(b) ==
  ScannedBad(blk0[b][SCAN_LIST_PAGE_OFFSET]) \cup ManualBad[b]

-----------------------------------------------------------------------------
\* Erasing

Erased(b, vblks) ==
  marks[b] \ ((UNION {Planes(v) : v \in vblks}) \X Chip)

EraseAllBad(bad) == VBlk \ {0}          \* mutant: the bad ones too
EraseAll(bad) == VBlk \ ({0} \cup bad)

\* The least block after v that is not in skip, as the do-while loops find it.
NextBlk(v, skip) ==
  CHOOSE w \in (v + 1) .. VBLKS_PER_BANK :
    w \notin skip /\ \A x \in (v + 1) .. (w - 1) : x \in skip

-----------------------------------------------------------------------------
\* init_blk_list: blocks 0 and 1 are left out; the first two good ones hold
\* the map, the next ones the log, the others data.

Rank(S, v) == Cardinality({w \in S : w <= v})
Roles(bad) ==
  LET good == (2 .. VBLKS_PER_BANK - 1) \ bad
  IN  [map  |-> {v \in good : Rank(good, v) <= 2},
       log  |-> {v \in good : Rank(good, v) \in 3 .. 2 + NUM_LOG_BLKS_PER_BANK},
       data |-> {v \in good : Rank(good, v) > 2 + NUM_LOG_BLKS_PER_BANK}]
First(S) == CHOOSE v \in S : \A w \in S : v <= w
Last(S) == CHOOSE v \in S : \A w \in S : v >= w

-----------------------------------------------------------------------------
\* ftl_open on the hardware: init_blkmgr (which erases), init_pgmap (which
\* takes a log block of every bank), and format.

\* init_blkmgr and init_pgmap.  erase_all_blks sets VC_MAX for the bad
\* blocks, but the array is cleared after it: only blocks 0 and 1 have it.
InitBlkmgr ==
  /\ mode = "off" /\ Bootable
  /\ bmp' = [b \in Bank |-> BuildBadBlkList(b)]
  /\ marks' = [b \in Bank |-> Erased(b, EraseAll(bmp'[b]))]
  /\ vcmax' = [b \in Bank |-> {0, 1}]
  /\ role' = [b \in Bank |-> Roles(bmp'[b])]
  /\ log_ppn' = [b \in Bank |-> <<First(role'[b].log), 0>>]
  /\ blk_log' = [b \in Bank |-> NextBlk(First(role'[b].log), bmp'[b])]
  /\ log_blk_cnt' = NUM_LOG_BLKS_PER_BANK * NUM_BANKS - NUM_BANKS
  /\ bank_active' = 0 /\ used' = 0
  /\ mode' = "open"
  /\ UNCHANGED <<defects, blk0>>

\* format, up to record_tag: the vcount of a bad block is VC_MAX again.  The
\* mark goes to the page after the image, at every start-up.
FormatKeepVcount ==             \* mutant: the blocks are erased, no more
  /\ mode = "open"
  /\ marks' = [b \in Bank |-> Erased(b, EraseAll(bmp[b]))]
  /\ blk0' = [blk0 EXCEPT ![0][FormatMarkPage] =
                Programmed(@, Page("mark", "normal", NoList))]
  /\ mode' = "run"
  /\ UNCHANGED <<defects, roles, logvars>>
Format ==
  /\ mode = "open"
  /\ marks' = [b \in Bank |-> Erased(b, EraseAll(bmp[b]))]
  /\ vcmax' = [b \in Bank |-> (vcmax[b] \cap {0}) \cup bmp[b]]
  /\ blk0' = [blk0 EXCEPT ![0][FormatMarkPage] =
                Programmed(@, Page("mark", "normal", NoList))]
  /\ mode' = "run"
  /\ UNCHANGED <<defects, bmp, role, logvars>>

-----------------------------------------------------------------------------
\* The log: get_log_ppn takes the banks in turn, one page each; a new block
\* when only the last page of the block is left.

GetLogBlk(b) ==
  IF blk_log[b] > Last(role[b].log)
    THEN mode' = "stuck" /\ UNCHANGED <<blk_log, log_ppn>>
    ELSE /\ blk_log' = [blk_log EXCEPT ![b] = NextBlk(@, bmp[b])]
         /\ log_ppn' = [log_ppn EXCEPT ![b] = <<blk_log[b], 1>>]
         /\ mode' = mode

\* The bound on used: between two checks a write and its flushes record the
\* dependencies, and a checkpoint the map entries, in a few pages.
GetLogPpn ==
  LET b == bank_active
  IN  /\ mode = "run" /\ used < EpochPages
      /\ IF log_ppn[b][2] = PAGES_PER_VBLK - 1
           THEN GetLogBlk(b) /\ log_blk_cnt' = log_blk_cnt - 1
           ELSE /\ log_ppn' = [log_ppn EXCEPT ![b][2] = @ + 1]
                /\ UNCHANGED <<mode, blk_log, log_blk_cnt>>
      /\ bank_active' = (b + 1) % NUM_BANKS
      /\ used' = used + 1
      /\ UNCHANGED <<nand, roles>>

ReachReclaim == log_blk_cnt < 3

\* erase_all_log_blks starts at the first log block and skips by vcount, not
\* by bitmap: the set of blocks it erases, after n rounds through the banks.
LogErase[n \in 0 .. NUM_LOG_BLKS_PER_BANK] ==
  [b \in Bank |->
     IF n = 0 THEN {}
     ELSE IF n = 1 THEN {First(role[b].log)}
     ELSE LET S == LogErase[n - 1][b] IN S \cup {NextBlk(Last(S), vcmax[b])}]
LogErased(b) == LogErase[NUM_LOG_BLKS_PER_BANK][b]

\* The end of record_tag: the check, and blkmgr_reclaim_log followed by
\* revert_log_ppn of every bank when the log is low.
RecordTag ==
  /\ mode = "run" /\ used > 0
  /\ used' = 0
  /\ IF ReachReclaim
       THEN /\ marks' = [b \in Bank |-> Erased(b, LogErased(b))]
            /\ log_ppn' = [b \in Bank |-> <<First(role[b].log), 0>>]
            /\ blk_log' = [b \in Bank |->
                             NextBlk(First(role[b].log), bmp[b])]
            /\ log_blk_cnt' = NUM_LOG_BLKS_PER_BANK * NUM_BANKS - NUM_BANKS
            /\ bank_active' = 0
       ELSE UNCHANGED <<marks, log_ppn, blk_log, log_blk_cnt, bank_active>>
  /\ UNCHANGED <<defects, blk0, mode, roles>>

\* The end of ftl_write: when the log is low a checkpoint follows, and with it
\* record_tag; otherwise the count starts again.
CheckThreshold ==
  /\ mode = "run" /\ used > 0 /\ ~ReachReclaim
  /\ used' = 0
  /\ UNCHANGED <<nand, mode, roles, blk_log, log_ppn, log_blk_cnt, bank_active>>

\* Garbage collection erases a data block, the persisting of the map a map
\* block: any of them, in any order.
EraseInUse(b) ==
  /\ mode = "run"
  /\ \E v \in role[b].data \cup role[b].map :
       marks' = [marks EXCEPT ![b] = Erased(b, {v})]
  /\ UNCHANGED <<defects, blk0, fwvars>>

-----------------------------------------------------------------------------
\* The power is cut at any time; all but the NAND is lost.
PowerOff ==
  /\ mode # "off"
  /\ mode' = "off"
  /\ bmp' = [b \in Bank |-> {}] /\ vcmax' = [b \in Bank |-> {}]
  /\ role' = [b \in Bank |-> [map |-> {}, log |-> {}, data |-> {}]]
  /\ blk_log' = [b \in Bank |-> 0] /\ log_ppn' = [b \in Bank |-> <<0, 0>>]
  /\ log_blk_cnt' = 0 /\ bank_active' = 0 /\ used' = 0
  /\ UNCHANGED nand

FwInit ==
  /\ defects \in DefectChoices /\ marks = defects
  /\ blk0 = [b \in Bank |-> [pg \in BlockZero |-> Blank]]
  /\ mode = "off"
  /\ bmp = [b \in Bank |-> {}] /\ vcmax = [b \in Bank |-> {}]
  /\ role = [b \in Bank |-> [map |-> {}, log |-> {}, data |-> {}]]
  /\ blk_log = [b \in Bank |-> 0] /\ log_ppn = [b \in Bank |-> <<0, 0>>]
  /\ log_blk_cnt = 0 /\ bank_active = 0 /\ used = 0

Firmware ==
  \/ InitBlkmgr \/ Format \/ GetLogPpn \/ RecordTag \/ CheckThreshold \/ PowerOff
  \/ \E b \in Bank : EraseInUse(b)
==============================================================================
