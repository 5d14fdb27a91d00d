---------------------------- MODULE MCInstallers ----------------------------
(***************************************************************************)
(* The installers of src/installer and the firmware they install, in one   *)
(* model.  part says which program a behaviour is about; the variables     *)
(* only another one has rest.                                              *)
(*                                                                         *)
(*   "menu"     InstallerMenu, a directory to save the scan list in        *)
(*   "one"      Installer and the firmware of BadBlocks, a vblk of one     *)
(*              plane as the firmware is built                             *)
(*   "planes"   the same, a vblk of two planes                             *)
(*                                                                         *)
(* Two banks, small enough that one more bad block would leave a role      *)
(* without blocks.                                                         *)
(***************************************************************************)
EXTENDS InstallerMenu, TLC

VARIABLES
  part,
  filled, pc, bank, cmd, dir, sdram       \* Installer

ownVars == <<filled, pc, bank, cmd, dir, sdram>>
menuVars == <<on, dirs, kept, warned>>
mcVars == <<part, vars, ownVars>>

MCNoManual == [b \in 0 .. 1 |-> {}]
MCManual == (0 :> {6}) @@ (1 :> {})

\* A block that is bad in one chip, another that is bad in both.
MCDefects == { (0 :> {<<3, "high">>}) @@ (1 :> {<<4, "low">>, <<4, "high">>}) }
\* One plane: a bad block between the log blocks, next to the map blocks, or
\* in one of the two blocks that have no role.
MCDefectsOne ==
  { (0 :> {<<3, "high">>}) @@ (1 :> {<<5, "low">>, <<5, "high">>}),
    (0 :> {<<1, "low">>}) @@ (1 :> {<<4, "high">>, <<6, "low">>}) }
\* Two planes: either plane of a vblk; block 1 shares vblk 0 with block 0.
MCDefectsTwo ==
  { (0 :> {<<7, "high">>}) @@ (1 :> {<<10, "low">>, <<13, "high">>}),
    (0 :> {<<1, "low">>}) @@ (1 :> {<<3, "low">>, <<9, "high">>}) }

\* What a bank may answer: the expected chips, none, one, two that differ.
Good == <<<<236, 236>>, <<215, 215>>, <<148, 148>>, <<114, 114>>, <<84, 84>>>>
MCIdOutputs ==
  {Good, [i \in 1 .. 5 |-> <<255, 255>>],
   [i \in 1 .. 5 |-> <<255, Good[i][2]>>], [Good EXCEPT ![2] = <<211, 211>>]}

One == INSTANCE Installer WITH
  ManualBad <- MCManual, DefectChoices <- MCDefectsOne,
  MaxFaults <- 2, FaultKinds <- {"id", "image", "program", "stop", "save"},
  DRAM_SIZE <- 64, IdOutputs <- MCIdOutputs

Two == INSTANCE Installer WITH
  PBLKS_PER_BANK <- 20, PlanesPerVblk <- 2,
  ManualBad <- MCManual, DefectChoices <- MCDefectsTwo,
  MaxFaults <- 1, FaultKinds <- {"erase", "program", "stop"},
  DRAM_SIZE <- 64, IdOutputs <- MCIdOutputs

TwoPlanes == INSTANCE BadBlocks WITH
  PBLKS_PER_BANK <- 20, PlanesPerVblk <- 2,
  ManualBad <- MCManual, DefectChoices <- MCDefectsTwo

ASSUME ConstantsInRange ==
  /\ MenuConstants
  /\ One!BadBlocksConstants /\ One!InstallerConstants
  /\ TwoPlanes!BadBlocksConstants /\ Two!InstallerConstants

MCInit ==
  /\ part \in {"menu", "one", "planes"}
  /\ CASE part = "menu" -> Init
       [] part = "one" -> One!Init
       [] part = "planes" -> Two!Init
  /\ IF part = "menu"
       THEN /\ filled = {} /\ pc = "idle" /\ bank = 0 /\ cmd = 0
            /\ dir = FALSE /\ sdram = 64
       ELSE on = FALSE /\ dirs = {} /\ kept = <<>> /\ warned = FALSE

MCNext ==
  /\ UNCHANGED part
  /\ \/ part = "menu" /\ Next /\ UNCHANGED ownVars
     \/ part = "one" /\ One!Next /\ UNCHANGED menuVars
     \/ part = "planes" /\ Two!Next /\ UNCHANGED menuVars

\* The program is not stopped for ever, and the user, whatever else is done
\* with the drive, starts the install again and again.
MCSpec ==
  /\ MCInit /\ [][MCNext]_mcVars
  /\ WF_mcVars(/\ UNCHANGED <<part, menuVars>>
               /\ \/ part = "one" /\ One!InstallerStep
                  \/ part = "planes" /\ Two!InstallerStep)
  /\ SF_mcVars(/\ UNCHANGED <<part, menuVars>>
               /\ \/ part = "one" /\ One!Open(0)
                  \/ part = "planes" /\ Two!Open(0))

-----------------------------------------------------------------------------
\* A save that was cut off has left a file that holds nothing or, with the
\* batch installer, none.
SaveCutOff ==
  IF part = "menu" THEN \E f \in DOMAIN files : files[f].state = "short"
                   ELSE One!SaveCutOff

\* The marks of the initial bad blocks survive every scan, load, failed or
\* repeated install, every erase of the menu the user was not warned of, and
\* every erase of the firmware (erase_flash, erase_all_blks,
\* erase_all_log_blks).  A save cut off in the middle breaks it: partlist.
MarksSurvive ==
  ~SaveCutOff =>
    IF part = "menu" THEN WarnedBeforeLoss ELSE marks = defects

\* A drive that starts knows its bad blocks: once block zero of the boot bank
\* is complete, the list of every bank can be read and covers the bank,
\* whichever step of this or an earlier install failed (one fault only where an
\* erase may fail: its result is not looked at).  The lists can be had again,
\* from block zero or from a directory whose save was finished.
BootableKnowsDefects ==
  /\ ~SaveCutOff =>
       CASE part = "menu" -> MenuBootableKnowsDefects
         [] part = "one" -> One!BootableKnowsDefects /\ One!SdramAsBuilt
         [] part = "planes" -> Two!BootableKnowsDefects /\ Two!SdramAsBuilt
  /\ part = "menu" => ReinstallPossible /\ SavedListsRestorable

\* The log blocks of a bank with bad blocks: what is erased is what is handed
\* out again, and it never runs out.
LogOfGoodBlocks ==
  CASE part = "menu" -> TRUE
    [] part = "one" -> One!LogEraseExact /\ One!LogNeverRunsOut
    [] part = "planes" -> Two!LogEraseExact /\ Two!LogNeverRunsOut

\* Once the scan list is saved, installing again and again ends with a drive
\* that starts: no failed or interrupted install leaves block zero in a state
\* that a later install cannot repair.
Repairable ==
  []((part # "menu" /\ \A b \in Bank : files[b].state = "saved")
       => <>Bootable)

\* An install that passed its checks has the scan list of every bank: what
\* "scan list not loaded" is there to refuse (installer.c:1414).
ListsLoaded == part = "one" => One!ListsLoaded
=============================================================================
