------------------------------ MODULE Installer ------------------------------
(***************************************************************************)
(* The installer (installer/installer.c): a host program that, on a drive  *)
(* in factory mode, scans the NAND for initial bad blocks and saves the    *)
(* scan list to a directory of files (command 1), or loads the scan list   *)
(* from the files and installs the list and the firmware in block zero of  *)
(* every bank (command 0).  One action per command the ROM code executes   *)
(* that changes the NAND, and per file written or read.  Between two runs  *)
(* of the installer the drive may be started in normal mode: the firmware  *)
(* of BadBlocks then runs.                                                 *)
(*                                                                         *)
(* FaultKinds are the faults that may happen - the installer or the drive  *)
(* stops at any point (ERR_EXIT, a lost device, a killed process), a       *)
(* program fails - and MaxFaults bounds how many do.                       *)
(***************************************************************************)
EXTENDS BadBlocks

CONSTANTS
  MaxFaults,
  FaultKinds,       \* those that may happen, of "id": a bank does not answer
                    \* as built for, "image": the firmware image is missing,
                    \* "erase", "program": one fails, "stop": the installer
                    \* stops, "save": it stops while it saves the scan list
  DRAM_SIZE,        \* the SDRAM the firmware was built for, in MB
  IdOutputs         \* what a bank may answer to FC_READ_ID: sequences of
                    \* five <<high, low>> bytes, as CheckFlashId reads them

InstallerConstants ==
  /\ MaxFaults \in Nat
  /\ FaultKinds \subseteq {"id", "image", "erase", "program", "stop", "save"}
  /\ DRAM_SIZE \in {16, 32, 64}

VARIABLES
  hc,         \* [up, loaded, lists]: installer_context_t
  filled,     \* banks whose entry of hc.lists was scanned or loaded
  pc, bank,   \* where the installer is, and its rbank; "idle": not running
  cmd,        \* argv[2]
  ecc,        \* what the last reset_fctrl asked for
  files, dir, \* bank -> the file of its scan list; does ./bad_blocks exist?
  sdram,      \* the SDRAM of the drive
  faults

disk == <<files, dir>>
prog == <<hc, filled, pc, bank, cmd, ecc>>
vars == <<nand, fwvars, prog, disk, sdram, faults>>

Absent == [state |-> "absent", list |-> NoList]
Short == [state |-> "short", list |-> NoList]   \* created, not yet written
Saved(l) == [state |-> "saved", list |-> l]
NoHc == [up |-> FALSE, loaded |-> FALSE, lists |-> [b \in Bank |-> NoList]]

Fault(kind) ==
  kind \in FaultKinds /\ faults < MaxFaults /\ faults' = faults + 1
NoFault == faults' = faults

\* The installer ends, whatever the reason; nothing it kept is left.
Exit == /\ pc' = "idle" /\ bank' = 0 /\ cmd' = 0 /\ hc' = NoHc
        /\ filled' = {} /\ ecc' = ecc
Goto(where) == pc' = where /\ bank' = 0
NextBankOr(where) ==
  IF bank < NUM_BANKS - 1 THEN bank' = bank + 1 /\ pc' = pc ELSE Goto(where)

-----------------------------------------------------------------------------
\* open_target_drv

\* A write to one address of the SDRAM is seen at another when the address
\* lines that tell them apart are not connected; a 32 MB device may also
\* have nothing at the address of the 32 MB test.
Aliases(mb, addr) == \/ mb = 16 /\ addr \in {"test16", "test32"}
                     \/ mb = 32 /\ addr = "test32"
Holds(mb, addr, hole) == ~(mb = 32 /\ addr = "test32" /\ hole)

DetectSdramSize(mb, hole) ==
  IF Aliases(mb, "test16") THEN 16
  ELSE IF ~Holds(mb, "test32", hole) \/ Aliases(mb, "test32") THEN 32 ELSE 64

\* main: ERR_EXIT when the SDRAM is not of the size built for.
Open(c) ==
  /\ pc = "idle" /\ mode = "off"
  /\ \E hole \in BOOLEAN :
       IF DetectSdramSize(sdram, hole) = DRAM_SIZE
         THEN Goto("init") /\ cmd' = c ELSE UNCHANGED <<pc, bank, cmd>>
  /\ hc' = NoHc /\ filled' = {} /\ NoFault
  /\ UNCHANGED <<nand, fwvars, disk, sdram, ecc>>

-----------------------------------------------------------------------------
\* init

NAND_SPEC_MF == 236
NAND_SPEC_ID == <<215, 148, 114, 84>>       \* K9LCG08U1M, low byte first

\* Both chips must answer the same five bytes; five equal bytes mean that
\* there is no chip.
CheckFlashId(id, maker, spec) ==
  IF \E i \in 1 .. 5 : id[i][1] # id[i][2] THEN "FLASH_ID_ERROR"
  ELSE IF \A i \in 1 .. 5 : id[i] = id[1] THEN "FLASH_ID_VOID"
  ELSE IF id[1][2] # maker \/ \E i \in 2 .. 5 : id[i][2] # spec[i - 1]
    THEN "FLASH_ID_ERROR" ELSE "FLASH_ID_OK"

\* The bank above the last one stands for the banks the firmware was not
\* built for; when one answers the user is asked.  All banks as built for is
\* the normal case, any other outcome a fault.
Init_ ==
  /\ pc = "init"
  /\ \E id \in [0 .. NUM_BANKS -> IdOutputs], yes \in BOOLEAN :
       LET bmpOk == {b \in 0 .. NUM_BANKS :
                       CheckFlashId(id[b], NAND_SPEC_MF, NAND_SPEC_ID)
                         = "FLASH_ID_OK"}
       IN  /\ hc' = [hc EXCEPT !.up =
                       bmpOk = Bank \/ (Bank \subseteq bmpOk /\ yes)]
           /\ IF bmpOk = Bank THEN NoFault ELSE Fault("id")
  /\ ecc' = "normal"
  /\ Goto(IF cmd = 1 THEN "scan" ELSE "load")
  /\ UNCHANGED <<nand, fwvars, disk, sdram, cmd, filled>>

-----------------------------------------------------------------------------
\* scan_bad_blks and save_scan

\* The scan starts at block 1, and appends to the lists.
ScanResult(b) == {e \in marks[b] : e[1] >= 1}
Scan ==
  /\ pc = "scan"
  /\ IF hc.up
       THEN /\ hc' = [hc EXCEPT !.loaded = TRUE, !.lists =
                [b \in Bank |->
                   [num |-> hc.lists[b].num + Cardinality(ScanResult(b)),
                    list |-> hc.lists[b].list \cup ScanResult(b)]]]
            /\ filled' = Bank
       ELSE UNCHANGED <<hc, filled>>
  /\ Goto("mkdir") /\ NoFault
  /\ UNCHANGED <<nand, fwvars, disk, sdram, cmd, ecc>>

MakeDir ==
  /\ pc = "mkdir" /\ NoFault
  /\ IF hc.loaded /\ ~dir
       THEN dir' = TRUE /\ Goto("save") /\ UNCHANGED <<hc, filled, cmd, ecc>>
       ELSE dir' = dir /\ Exit
  /\ UNCHANGED <<nand, fwvars, files, sdram>>

SaveFile ==
  /\ pc = "save" /\ NoFault
  /\ files' = [files EXCEPT ![bank] = Saved(hc.lists[bank])]
  /\ IF bank < NUM_BANKS - 1
       THEN bank' = bank + 1 /\ UNCHANGED <<pc, hc, filled, cmd, ecc>>
       ELSE Exit
  /\ UNCHANGED <<nand, fwvars, dir, sdram>>

\* The installer stops before fopen has created a file, or after, before it is
\* written.
StopInSave ==
  /\ pc = "save" /\ Fault("save")
  /\ files' = files \/ files' = [files EXCEPT ![bank] = Short]
  /\ Exit
  /\ UNCHANGED <<nand, fwvars, dir, sdram>>

-----------------------------------------------------------------------------
\* load_scan_list_from_file: FAIL at the first file that is missing, but
\* main does not look; what a short file lacks is left as it was.
LoadFile ==
  /\ pc = "load" /\ NoFault
  /\ IF files[bank].state = "absent" THEN Goto("install") /\ UNCHANGED <<hc, filled>>
     ELSE /\ hc' = [hc EXCEPT !.loaded = TRUE, !.lists[bank] =
                      IF files[bank].state = "saved" THEN files[bank].list ELSE @]
          /\ filled' = IF files[bank].state = "saved" THEN filled \cup {bank}
                                                      ELSE filled
          /\ NextBankOr("install")
  /\ UNCHANGED <<nand, fwvars, disk, sdram, cmd, ecc>>

\* install, up to the erase: what it checks.
InstallAllowed(image) == hc.up /\ hc.loaded /\ image
InstallNoErase ==               \* mutant: block zero is not erased first
  /\ pc = "install"
  /\ \E image \in BOOLEAN :
       /\ IF InstallAllowed(image)
            THEN Goto("lists") /\ UNCHANGED <<hc, filled, cmd, ecc>>
            ELSE Exit
       /\ IF image THEN NoFault ELSE Fault("image")
  /\ UNCHANGED <<nand, fwvars, disk, sdram>>
Install ==
  /\ pc = "install"
  /\ \E image \in BOOLEAN :
       /\ IF InstallAllowed(image)
            THEN Goto("erase") /\ UNCHANGED <<hc, filled, cmd, ecc>>
            ELSE Exit
       /\ IF image THEN NoFault ELSE Fault("image")
  /\ UNCHANGED <<nand, fwvars, disk, sdram>>

\* erase_flash of one block: a chip whose block is in the list is disabled,
\* and nothing is sent when both are.
ErasedChips(l, blk) == {c \in Chip : <<blk, c>> \notin l.list}

\* erase_flash(0, 0): no result is looked at.
EraseZero ==
  /\ pc = "erase"
  /\ \/ /\ NoFault
        /\ marks' = [marks EXCEPT ![bank] =
                       @ \ ({0} \X ErasedChips(hc.lists[bank], 0))]
        /\ blk0' = [blk0 EXCEPT ![bank] =
                      IF ErasedChips(hc.lists[bank], 0) = Chip
                        THEN [pg \in BlockZero |-> Blank] ELSE @]
     \/ Fault("erase") /\ UNCHANGED <<marks, blk0>>      \* the erase fails
  /\ NextBankOr("lists")
  /\ UNCHANGED <<defects, fwvars, disk, sdram, hc, filled, cmd, ecc>>

-----------------------------------------------------------------------------
\* install_block_zero

\* A program of one page, which may fail: written, or torn.
ProgramPage(pg, data) ==
  \/ /\ NoFault
     /\ blk0' = [blk0 EXCEPT ![bank][pg] = Programmed(@, data)]
  \/ /\ Fault("program")
     /\ blk0' = [blk0 EXCEPT ![bank][pg] = Torn]

\* STEP 1: the lists, in the normal ECC mode; all are written before they
\* are read back and compared.
ListPage(b) == Page("list", "normal", hc.lists[b])
WriteLists ==
  /\ pc = "lists"
  /\ ecc' = "normal"
  /\ ProgramPage(SCAN_LIST_PAGE_OFFSET, ListPage(bank))
  /\ NextBankOr("compare")
  /\ UNCHANGED <<defects, marks, fwvars, disk, sdram, hc, filled, cmd>>

CompareNothing ==               \* mutant: the lists are not read back
  /\ pc = "compare" /\ NoFault
  /\ Goto("fill") /\ UNCHANGED <<hc, filled, cmd, ecc>>
  /\ UNCHANGED <<nand, fwvars, disk, sdram>>
CompareLists ==
  /\ pc = "compare" /\ NoFault
  /\ IF \A b \in Bank : blk0[b][SCAN_LIST_PAGE_OFFSET] = ListPage(b)
       THEN Goto("fill") /\ UNCHANGED <<hc, filled, cmd, ecc>>
       ELSE Exit
  /\ UNCHANGED <<nand, fwvars, disk, sdram>>

\* STEP 2: the pages between the list and the stamp, with write_to_flash,
\* which reads back what it wrote; the first page that differs is the end.
FillPages ==
  /\ pc = "fill"
  /\ LET todo == {pg \in SCAN_LIST_PAGE_OFFSET + 1 .. STAMP_PAGE_OFFSET - 1 :
                    blk0[bank][pg] # Page("fill", "normal", NoList)}
         pg == First(todo)
     IN  IF todo = {}
           THEN /\ NextBankOr("stamp") /\ NoFault
                /\ ecc' = IF bank = NUM_BANKS - 1 THEN "strong" ELSE ecc
                /\ UNCHANGED <<blk0, hc, filled, cmd>>
           ELSE /\ ProgramPage(pg, Page("fill", "normal", NoList))
                /\ IF blk0'[bank][pg] = Torn THEN Exit ELSE UNCHANGED prog
  /\ UNCHANGED <<defects, marks, fwvars, disk, sdram>>

\* STEP 3: the stamp, in the strong mode.  A failure is remembered and the
\* other banks are stamped too.
WriteStamp ==
  /\ pc = "stamp"
  /\ ProgramPage(STAMP_PAGE_OFFSET, Page("stamp", ecc, NoList))
  /\ IF bank < NUM_BANKS - 1
       THEN bank' = bank + 1 /\ UNCHANGED <<pc, hc, filled, cmd, ecc>>
       ELSE IF \A b \in Bank : blk0'[b][STAMP_PAGE_OFFSET].kind = "stamp"
         THEN Goto("image") /\ UNCHANGED <<hc, filled, cmd, ecc>>
         ELSE Exit
  /\ UNCHANGED <<defects, marks, fwvars, disk, sdram>>

\* STEP 4: the image, a page at a time; then the drive is reset.
WriteImage ==
  /\ pc = "image"
  /\ LET todo == {pg \in FwPages :
                    blk0[bank][pg] # Page("fw", ecc, NoList)}
         pg == First(todo)
     IN  IF todo = {}
           THEN /\ NoFault /\ UNCHANGED blk0
                /\ IF bank < NUM_BANKS - 1
                     THEN bank' = bank + 1
                          /\ UNCHANGED <<pc, hc, filled, cmd, ecc>>
                     ELSE Exit
           ELSE /\ ProgramPage(pg, Page("fw", ecc, NoList))
                /\ IF blk0'[bank][pg] = Torn THEN Exit ELSE UNCHANGED prog
  /\ UNCHANGED <<defects, marks, fwvars, disk, sdram>>

-----------------------------------------------------------------------------
\* The installer stops: killed, ERR_EXIT, or the drive is gone.
Stop ==
  /\ pc \notin {"idle", "save"} /\ Fault("stop")
  /\ Exit
  /\ UNCHANGED <<nand, fwvars, disk, sdram>>

InstallerStep ==
  \/ Init_ \/ Scan \/ MakeDir \/ SaveFile \/ LoadFile \/ Install \/ EraseZero
  \/ WriteLists \/ CompareLists \/ FillPages \/ WriteStamp \/ WriteImage

\* The firmware runs only while the installer does not have the drive.
FirmwareStep ==
  /\ pc = "idle" /\ Firmware
  /\ UNCHANGED <<prog, disk, sdram, faults>>

Init ==
  /\ FwInit
  /\ hc = NoHc /\ filled = {} /\ pc = "idle" /\ bank = 0 /\ cmd = 0
  /\ ecc = "normal"
  /\ files = [b \in Bank |-> Absent] /\ dir = FALSE
  /\ sdram \in {16, 32, 64} /\ faults = 0

Next == \/ Open(0) \/ Open(1) \/ InstallerStep \/ StopInSave \/ Stop
        \/ FirmwareStep

Spec == Init /\ [][Next]_vars
-----------------------------------------------------------------------------
\* A save that was stopped has left a bank without its list, for good: the
\* directory is there, and save_scan does not go on when it is.
SaveCutOff == dir /\ pc # "save" /\ \E b \in Bank : files[b].state # "saved"

\* A drive that starts knows its bad blocks: as soon as the boot bank holds
\* the stamp and the image, the scan list of EVERY bank can be read by
\* build_bad_blk_list and covers the defects of the bank - the order in which
\* install_block_zero writes, and what it reads back, guarantee it whichever
\* step fails.
BootableKnowsDefects ==
  pc = "idle" /\ Bootable =>
    \A b \in Bank : \A e \in defects[b] :
      e[1] \div PlanesPerVblk \in BuildBadBlkList(b) \cup {0}

\* The blocks erase_all_log_blks finds through the valid counts are those
\* get_log_blk hands out by the bitmap: none is left with old log pages, and
\* no block of another role is erased.
LogEraseExact ==
  mode = "run" => \A b \in Bank : LogErased(b) = role[b].log

\* "Running out of log blocks": this should not happen (get_log_blk,
\* blkmgr.c:134), whatever the bad blocks of the banks are.
LogNeverRunsOut == mode # "stuck"

\* The installer goes on only with a drive whose SDRAM is of the size the
\* firmware was built for (open_target_drv).
SdramAsBuilt == pc # "idle" => sdram = DRAM_SIZE

\* An install that passed its checks has the scan list of every bank in
\* memory: what "scan list not loaded" is there to refuse (installer.c:1414).
ListsLoaded == pc \in {"erase", "lists"} => filled = Bank
==============================================================================
