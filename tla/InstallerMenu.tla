---------------------------- MODULE InstallerMenu ----------------------------
(***************************************************************************)
(* The interactive installers (installer/deprecated): the user of a drive  *)
(* in factory mode chooses the operations of a menu - initialise, scan for *)
(* initial bad blocks, read the scan list from block zero, save it to a    *)
(* directory or read it from one, erase everything, install - in any order *)
(* and as often as wanted.  One action per operation: the loop over banks  *)
(* and pages of each ends at a point that a fault chooses.                 *)
(*                                                                         *)
(* Between two sessions the drive may be started in normal mode: the       *)
(* firmware of BadBlocks then builds its bad block bitmap from block zero  *)
(* and erases; what it does later is in Installer's runs.                  *)
(*                                                                         *)
(* The two programs differ in the name under which a saved list is looked  *)
(* up: LoadSeparator is "/" in installer_unix.c, "\" in installer.c.       *)
(***************************************************************************)
EXTENDS BadBlocks

CONSTANTS
  Dir,              \* names of directories the user may type
  LoadSeparator,
  ScanBufItems,     \* entries in ROM_SCAN_BUF_SIZE bytes, less two
  MaxFaults,        \* bound: faults of one behaviour
  FaultKinds        \* those that may happen, of "program": one fails,
                    \* "stop": the installer is killed, "save": it ends
                    \* while it saves the scan list

MenuConstants ==
  /\ BadBlocksConstants
  /\ LoadSeparator \in {"/", "\\"} /\ MaxFaults \in Nat
  /\ FaultKinds \subseteq {"program", "stop", "save"}

VARIABLES
  on,         \* is the menu shown?
  hc,         \* [up, loaded, lists]: installer_context_t
  ecc,        \* the mode the last reset_fctrl asked for
  dirs,       \* directories that exist
  files,      \* path -> what the file holds
  kept,       \* directory -> the lists of its save, if finished (history)
  warned,     \* the user agreed to erase the initial bad blocks (history)
  faults

disk == <<dirs, files, kept>>
vars == <<nand, fwvars, on, hc, ecc, disk, warned, faults>>

Path == Dir \X {"/", "\\"} \X Bank
Absent == [state |-> "absent", list |-> NoList]
Short == [state |-> "short", list |-> NoList]
Saved(l) == [state |-> "saved", list |-> l]
NoHc == [up |-> FALSE, loaded |-> FALSE, lists |-> [b \in Bank |-> NoList]]

Fault(kind) ==
  kind \in FaultKinds /\ faults < MaxFaults /\ faults' = faults + 1
NoFault == faults' = faults
Leave == on' = FALSE /\ hc' = NoHc          \* exit, ERR_EXIT or killed
Stay == UNCHANGED <<on, hc>>

-----------------------------------------------------------------------------
\* main up to the menu: open_target_drv ends the program when the SDRAM is
\* not of the size built for.
Open ==
  /\ ~on /\ mode = "off"
  /\ on' = TRUE /\ hc' = NoHc
  /\ UNCHANGED <<nand, fwvars, ecc, disk, warned, faults>>

ResetFctrl(strong_ecc) == ecc' = IF strong_ecc THEN "strong" ELSE "normal"

\* init: bank_bmp is what answers with the expected identity; the bank above
\* the last one stands for those the firmware was not built for.
Initialize ==
  /\ on
  /\ ResetFctrl(FALSE)
  /\ \E bank_bmp \in SUBSET (0 .. NUM_BANKS), yes \in BOOLEAN :
       hc' = [hc EXCEPT !.up = bank_bmp = Bank \/ (Bank \subseteq bank_bmp /\ yes)]
  /\ UNCHANGED <<nand, fwvars, on, disk, warned, faults>>

-----------------------------------------------------------------------------
\* scan_bad_blks

\* The result of the ROM code: a block once, with the chips that are bad.
RomScan(b) ==
  {[blk |-> v, chips |-> {c \in Chip : <<v, c>> \in marks[b]}] :
     v \in {e[1] : e \in marks[b]} \ {0}}
Entries(result) == {<<e.blk, c>> : e \in result, c \in Chip} \cap
                   UNION {{e.blk} \X e.chips : e \in result}
NumEntries(result) == Cardinality(Entries(result))

TotalBadBlks == LET S == {<<b, e>> \in Bank \X Entry :
                            e \in marks[b] /\ e[1] # 0} IN Cardinality(S)

\* Every entry is appended to the list of its bank, those already in it too.
\* Bound: no scan whose result would not fit in the lists.
Scan ==
  /\ on /\ hc.up
  /\ IF TotalBadBlks > ScanBufItems THEN Leave
     ELSE LET new(b) == Entries(RomScan(b))
              num(b) == hc.lists[b].num + NumEntries(RomScan(b))
          IN  /\ \A b \in Bank : num(b) <= SCAN_LIST_ITEMS
              /\ hc' = [hc EXCEPT !.loaded = TRUE, !.lists =
                   [b \in Bank |-> [num |-> num(b),
                                    list |-> hc.lists[b].list \cup new(b)]]]
              /\ on' = on
  /\ UNCHANGED <<nand, fwvars, ecc, disk, warned, faults>>

-----------------------------------------------------------------------------
\* erase_flash

\* A chip whose block is in the list is left out of the erase; the others
\* lose what the block holds, the mark of a defect included.
Spared(l) == l.list
EraseFlash(first, last) ==
  LET hit(b) == ((first .. last) \X Chip) \ Spared(hc.lists[b])
  IN  /\ marks' = [b \in Bank |-> marks[b] \ hit(b)]
      /\ blk0' = [b \in Bank |-> IF {0} \X Chip \subseteq hit(b)
                                   THEN [pg \in BlockZero |-> Blank]
                                   ELSE blk0[b]]

\* MENU_ERASE_ALL, confirmed: from block 0 to block PBLKS_PER_BANK, the one
\* behind the last, which no bank has.  Here every erase succeeds: none of
\* the results is looked at.
EraseAllFlash ==
  /\ on
  /\ EraseFlash(0, PBLKS_PER_BANK)
  /\ warned' = (warned \/ ~hc.loaded)
  /\ UNCHANGED <<defects, fwvars, on, hc, ecc, disk, faults>>

-----------------------------------------------------------------------------
\* save_scan and load_scan_list_from_file

SavePath(d, b) == <<d, "/", b>>
LoadPath(d, b) == <<d, LoadSeparator, b>>

Mkdir(d) == d \notin dirs

\* The directory must be new.  A save that ends early has created the file
\* of a bank and written those before it.
SaveScan(d) ==
  /\ on /\ hc.loaded /\ Mkdir(d)
  /\ dirs' = dirs \cup {d}
  /\ \/ /\ NoFault /\ Stay
        /\ files' = [p \in Path |-> IF \E b \in Bank : p = SavePath(d, b)
                                      THEN Saved(hc.lists[p[3]]) ELSE files[p]]
        /\ kept' = [kept EXCEPT ![d] = {hc.lists}]
     \/ /\ Fault("save") /\ Leave /\ kept' = kept
        /\ \E last \in Bank :
             files' = [p \in Path |->
               IF p # SavePath(d, p[3]) \/ p[3] > last THEN files[p]
               ELSE IF p[3] = last THEN Short ELSE Saved(hc.lists[p[3]])]
  /\ UNCHANGED <<nand, fwvars, ecc, warned>>

\* The files are read up to the first that is missing; a short one leaves
\* the list as it was.  One file is enough to set scan_list_loaded.
Opened(d) == {b \in Bank : \A c \in 0 .. b :
                files[LoadPath(d, c)].state # "absent"}
ListFrom(d, b) ==
  LET f == files[LoadPath(d, b)]
  IN  IF b \in Opened(d) /\ f.state = "saved" THEN f.list ELSE hc.lists[b]
LoadScanListFromFile(d) ==
  /\ on /\ d \in dirs
  /\ hc' = [hc EXCEPT !.loaded = @ \/ Opened(d) # {},
                      !.lists = [b \in Bank |-> ListFrom(d, b)]]
  /\ UNCHANGED <<nand, fwvars, on, ecc, disk, warned, faults>>

-----------------------------------------------------------------------------
\* load_scan_list_from_nand

\* The interrupt flags of the read, in an ECC mode: all ones, or not what
\* that mode has written.
GetBspIntr(b, pg, how) ==
  IF blk0[b][pg] = Blank THEN "FIRQ_ALL_FF"
  ELSE IF blk0[b][pg].kind = "torn" \/ blk0[b][pg].ecc # how
    THEN "FIRQ_DATA_CORRUPT" ELSE "none"
ReadPage(b, pg, how) ==
  LET intr == GetBspIntr(b, pg, how)
  IN  IF intr = "FIRQ_DATA_CORRUPT" THEN "ERR_CORRUPT"
      ELSE IF intr = "FIRQ_ALL_FF" THEN "ERR_BLANK" ELSE "OK"

Found == {b \in Bank : ReadPage(b, SCAN_LIST_PAGE_OFFSET, ecc) = "OK"}
LoadedIf(found) == found = Bank
LoadScanListFromNand ==
  /\ on /\ hc.up
  /\ hc' = [hc EXCEPT
       !.lists = [b \in Bank |-> IF b \in Found
                    THEN blk0[b][SCAN_LIST_PAGE_OFFSET].list ELSE @[b]],
       !.loaded = @ \/ LoadedIf(Found)]
  /\ UNCHANGED <<nand, fwvars, on, ecc, disk, warned, faults>>

-----------------------------------------------------------------------------
\* install

\* The programs of install_block_zero as <<step, bank, page>>, in the order
\* of the loops: the lists, the pages up to the stamp, the stamps, the image.
StepOf(pg) ==
  IF pg = SCAN_LIST_PAGE_OFFSET THEN 1
  ELSE IF pg < STAMP_PAGE_OFFSET THEN 2
  ELSE IF pg = STAMP_PAGE_OFFSET THEN 3 ELSE 4
Programs == {<<StepOf(pg), b, pg>> :
               b \in Bank, pg \in 0 .. STAMP_PAGE_OFFSET \cup FwPages}
Before(x, y) ==
  \/ x[1] < y[1]
  \/ x[1] = y[1] /\ (x[2] < y[2] \/ (x[2] = y[2] /\ x[3] < y[3]))

EccOf(pg) == IF pg < STAMP_PAGE_OFFSET THEN "normal" ELSE "strong"
DataOf(b, pg) ==
  Page(IF pg = SCAN_LIST_PAGE_OFFSET THEN "list"
       ELSE IF pg < STAMP_PAGE_OFFSET THEN "fill"
       ELSE IF pg = STAMP_PAGE_OFFSET THEN "stamp" ELSE "fw",
       EccOf(pg), IF pg = SCAN_LIST_PAGE_OFFSET THEN hc.lists[b] ELSE NoList)

\* Block zero after the programs of a set; those of torn have failed.
Written(base, done, torn) ==
  [b \in Bank |-> [pg \in BlockZero |->
     LET x == <<StepOf(pg), b, pg>>
     IN  IF x \in torn THEN Torn
         ELSE IF x \in done THEN Programmed(base[b][pg], DataOf(b, pg))
         ELSE base[b][pg]]]

\* Every page is read back.  The lists are compared when all are written, and
\* a failed stamp does not keep the other banks from theirs; any other
\* failure ends the install at once.
DoneUpTo(x) ==
  {y \in Programs : Before(y, x) \/ (x[1] \in {1, 3} /\ y[1] = x[1])}

InstallBlockZero(base) ==
  \/ \* all goes well: the drive is reset, the program ends
     /\ blk0' = Written(base, Programs, {}) /\ NoFault
     /\ Leave /\ ResetFctrl(FALSE)
  \/ \* a page that differs: back to the menu, in the mode of that step
     \E x \in Programs :
       /\ blk0' = Written(base, DoneUpTo(x), {x}) /\ Fault("program")
       /\ Stay /\ ResetFctrl(EccOf(x[3]) = "strong")
  \/ \* killed before one of the programs
     \E x \in Programs :
       /\ blk0' = Written(base, {y \in Programs : Before(y, x)}, {})
       /\ Fault("stop") /\ Leave /\ ResetFctrl(EccOf(x[3]) = "strong")

\* erase_flash(0, 0), of which no result is looked at (here it succeeds), and
\* the pages; or the installer is killed between the erases of two banks.
\* Without an image (load_firmware_image) nothing is done.
EraseZero(banks) == [b \in Bank |->
  IF b \in banks /\ ({0} \X Chip) \cap Spared(hc.lists[b]) = {}
    THEN [pg \in BlockZero |-> Blank] ELSE blk0[b]]
Install ==
  /\ on /\ hc.up /\ hc.loaded
  /\ marks' = [b \in Bank |-> marks[b] \ (({0} \X Chip) \ Spared(hc.lists[b]))]
  /\ \/ InstallBlockZero(EraseZero(Bank))
     \/ \E b \in Bank : /\ Fault("stop") /\ Leave /\ ecc' = ecc
                       /\ blk0' = EraseZero(0 .. b - 1)
  /\ UNCHANGED <<defects, fwvars, disk, warned>>

-----------------------------------------------------------------------------
\* MENU_EXIT
Exit == on /\ Leave
        /\ UNCHANGED <<nand, fwvars, ecc, disk, warned, faults>>

\* The drive is started in normal mode while the installer does not run.
FirmwareStep == ~on /\ (InitBlkmgr \/ PowerOff)
                /\ UNCHANGED <<on, hc, ecc, disk, warned, faults>>

Init ==
  /\ FwInit
  /\ on = FALSE /\ hc = NoHc /\ ecc = "normal"
  /\ dirs = {} /\ files = [p \in Path |-> Absent]
  /\ kept = [d \in Dir |-> {}] /\ warned = FALSE /\ faults = 0

Next ==
  \/ Open \/ Initialize \/ Scan \/ LoadScanListFromNand \/ Install
  \/ EraseAllFlash \/ Exit \/ FirmwareStep
  \/ \E d \in Dir : SaveScan(d) \/ LoadScanListFromFile(d)

Spec == Init /\ [][Next]_vars
-----------------------------------------------------------------------------
\* The user who was never told "Because you have not read a scan list,
\* initial bad blocks will also be erased" keeps the marks of every bad
\* block, whatever was scanned, loaded, erased and installed in whatever
\* order (the two warnings of MENU_ERASE_ALL, erase_flash).
WarnedBeforeLoss == ~warned => marks = defects

\* A drive that starts knows its bad blocks: an install that reached the
\* image, in this session or an earlier one, left in block zero of every bank
\* a list that covers the bank (install, install_block_zero).
MenuBootableKnowsDefects ==
  ~warned /\ Bootable =>
    \A b \in Bank : \A e \in defects[b] :
      e[1] \div PlanesPerVblk \in BuildBadBlkList(b) \cup {0}

\* README 3.1: a drive with an installed firmware can be reinstalled from
\* its own block zero: after "initialize", "read scan list from flash block
\* 0" finds the list of every bank, also when the last install was cut off.
ReinstallPossible ==
  Bootable => \A b \in Bank :
    /\ ReadPage(b, SCAN_LIST_PAGE_OFFSET, "normal") = "OK"
    /\ blk0[b][SCAN_LIST_PAGE_OFFSET].kind = "list"

\* README 3.3: "read scan list from file" restores what "save scan list to
\* file" has saved in the directory, for every bank.
SavedListsRestorable ==
  \A d \in Dir : \A lists \in kept[d] :
    Opened(d) = Bank /\ \A b \in Bank : ListFrom(d, b) = lists[b]
==============================================================================
