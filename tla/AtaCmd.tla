------------------------------- MODULE AtaCmd -------------------------------
(***************************************************************************)
(* What the SATA commands mean: the decoding of a command FIS and its      *)
(* range check (handle_got_cfis), the tables that give a command its class *)
(* and its function (sata_table.c), the slow command functions             *)
(* (sata_cmd.c), and the identify data from which the host learns what it  *)
(* may ask for (sata_identify.c).  One command is in progress at a time;   *)
(* SataHost has the queue, the slot, resets and the link.                  *)
(*                                                                         *)
(* The widths of the registers are constants, so that every field can      *)
(* overflow in a small instance; as built they are the powers of two given *)
(* beside them.                                                            *)
(***************************************************************************)
EXTENDS Integers, Sequences, FiniteSets

CONSTANTS
  MAX_LBA,        \* NUM_LSECTORS - 1
  Byte,           \* 2^8:  sector count of a 28-bit command
  Half,           \* 2^16: sector count of a 48-bit command and of an event
  Lba28,          \* 2^28: LBA of a 28-bit command
  EqLba,          \* 2^30: LBA of an event (sata_main.c:48)
  Word,           \* 2^32: UINT32
  Lba48,          \* 2^48
  DefaultGeometry, \* words 1, 3 and 6: cylinders, heads, sectors per track
  Opcodes,        \* the command codes the host tries
  Addresses,      \* the LBAs the host tries
  Triples,        \* the cylinder, head, sector triples the host tries
  Counts,         \* the values of the sector count field the host tries
  HostReadsIdentify \* the host keeps to what IDENTIFY DEVICE reports

ASSUME AtaAssumption ==
  /\ Byte \in Nat \ {0} /\ Half \in Nat /\ Lba28 \in Nat /\ EqLba \in Nat
  /\ Word \in Nat /\ Lba48 \in Nat /\ MAX_LBA \in Nat
  /\ Byte <= Half /\ Half <= MAX_LBA /\ MAX_LBA + 1 < Lba28
  /\ Lba28 < EqLba /\ EqLba < Word /\ Word < Lba48
  /\ Opcodes \subseteq 0 .. 255
  /\ Addresses \subseteq 0 .. Lba48 - 1 /\ Counts \subseteq 0 .. Half - 1
  /\ Triples \subseteq Nat \X Nat \X Nat
  /\ HostReadsIdentify \in BOOLEAN

VARIABLES
  ctx,   \* g_sata_context: geometry and enabled features
  pc,    \* "idle", "recv" (FIS in the registers), "event", "slow", "answered"
  fis,   \* the command FIS of the host
  work,  \* event or slow command made from it: [code, lba, count]
  ans,   \* how the last command ended
  exec,  \* sectors the FTL was given for the last command, or NoExec
  idn    \* the identify data the host has read, or NoData

vars == <<ctx, pc, fis, work, ans, exec, idn>>

NoExec == [rw |-> "none", lba |-> 0, count |-> 0]
NoData == [cap28 |-> -1]
NoWork == [code |-> 0, lba |-> 0, count |-> 0]
NoFis == [op |-> 0, form |-> "lba", lba |-> 0, chs |-> <<0, 0, 0>>, count |-> 0, feat |-> 0]

-----------------------------------------------------------------------------
(* ata_cmd_class_table. *)

CclFtlD2h == {\h20, \h24, \h25, \h29, \h60, \hC4, \hC8}
CclFtlH2d == {\h30, \h34, \h35, \h39, \h61, \hC5, \hCA}
AtrLbaNor == {\h20, \h30, \h40, \h92, \hC4, \hC5, \hC8, \hCA, \hF9, \hFC}
AtrLbaExt == {\h24, \h25, \h29, \h2F, \h34, \h35, \h37, \h39, \h3F, \h42, \hFD}
AtrSectCnt == {\h06}
AtrNoSect == {\h37, \hF9, \hFF}

(* ata_command_code_table and ata_function_table, entry by entry.
   NoFunction is INVALID32; OPTION_SUPPORT_TRIM is 0 as built. *)

ata_command_code_table ==
  << \h00, \h06, \h08, \h10, \h25, \h24, \h29, \h20, \h27, \h2F, \h35, \h34,
     \h39, \h30, \h37, \h3F, \h40, \h42, \h70, \h90, \h91, \h92, \h94, \h95,
     \h96, \h97, \h98, \h99, \hB0, \hB1, \hC8, \hCA, \hC4, \hC5, \hC6, \hD0,
     \hE0, \hE1, \hE2, \hE3, \hE4, \hE5, \hE6, \hE7, \hE8, \hEA, \hEC, \hEF,
     \hF1, \hF2, \hF3, \hF4, \hF5, \hF6, \hF8, \hF9, \hFC, \hFD, \hFF, \hFF >>

NoFunction == "not_supported"

ata_function_table ==
  << "nop", NoFunction, NoFunction, "ok", NoFunction, NoFunction, NoFunction,
     NoFunction, "read_native_max", NoFunction, NoFunction, NoFunction,
     NoFunction, NoFunction, NoFunction, NoFunction, "ok", "ok", "seek",
     "diagnostics", "init_params", NoFunction, "flush", "flush", "flush",
     "flush", "power_mode", "flush", NoFunction, NoFunction, NoFunction,
     NoFunction, NoFunction, NoFunction, "ok", NoFunction, "flush", "flush",
     "flush", "flush", "buffer", "power_mode", "flush", "flush", "buffer",
     "flush", "identify", "set_features", NoFunction, NoFunction, NoFunction,
     NoFunction, NoFunction, NoFunction, "read_native_max", NoFunction,
     NoFunction, NoFunction, "diagnostics" >>

\* The first entry with the code decides; the last entry only fills the table.
SearchAtaFunction(code) ==
  LET found == {i \in 1 .. Len(ata_command_code_table) : ata_command_code_table[i] = code}
  IN IF found = {} THEN NoFunction
     ELSE ata_function_table[CHOOSE i \in found : \A j \in found : i <= j]

-----------------------------------------------------------------------------
(* handle_got_cfis. *)

ChsToLba(chs) ==
  ((chs[1] * ctx.heads + chs[2]) * ctx.secs + chs[3] - 1) % Word

DecodedLba(f) ==
  CASE f.op \in AtrLbaNor -> IF f.form = "chs" THEN ChsToLba(f.chs) ELSE f.lba % Lba28
    [] f.op \in AtrLbaExt -> f.lba % Word
    [] OTHER -> 0

\* mutant: zero means zero
FullZero(count, max, op) == count

\* A sector count of zero stands for the largest one, unless the command has
\* no sectors.
Full(count, max, op) == IF count = 0 /\ op \notin AtrNoSect THEN max ELSE count

DecodedCount(f) ==
  CASE f.op \in AtrLbaNor -> Full(f.count % Byte, Byte, f.op)
    [] f.op \in AtrLbaExt -> Full(f.count % Half, Half, f.op)
    [] f.op \in AtrSectCnt -> f.count % Half
    [] OTHER -> 0

\* mutant: the last sector of the drive is refused
OutOfRangeLast(op, lba, count) ==
  (lba + count) % Word > MAX_LBA /\ op \notin AtrNoSect

\* lba + sector_count > MAX_LBA + 1, in 32 bits
OutOfRange(op, lba, count) ==
  (lba + count) % Word > MAX_LBA + 1 /\ op \notin AtrNoSect

Answer(a) == ans' = [status |-> a, max |-> 0]

\* mutant: a command of class CCL_UNDEFINED is dropped
HandleGotCfisDrop ==
  LET lba == DecodedLba(fis)
      count == DecodedCount(fis)
  IN /\ pc = "recv"
     /\ IF OutOfRange(fis.op, lba, count)
        THEN pc' = "answered" /\ Answer("IDNF") /\ UNCHANGED work
        ELSE /\ pc' = IF fis.op \in CclFtlD2h \cup CclFtlH2d THEN "event"
                      ELSE IF fis.op = 1 THEN "recv" ELSE "slow"
             /\ work' = [code |-> fis.op, lba |-> lba, count |-> count]
             /\ UNCHANGED ans
     /\ UNCHANGED <<ctx, fis, exec, idn>>

HandleGotCfis ==
  LET lba == DecodedLba(fis)
      count == DecodedCount(fis)
  IN /\ pc = "recv"
     /\ IF OutOfRange(fis.op, lba, count)
        THEN pc' = "answered" /\ Answer("IDNF") /\ UNCHANGED work
        ELSE /\ pc' = IF fis.op \in CclFtlD2h \cup CclFtlH2d THEN "event" ELSE "slow"
             /\ work' = [code |-> fis.op, lba |-> lba, count |-> count]
             /\ UNCHANGED ans
     /\ UNCHANGED <<ctx, fis, exec, idn>>

\* eventq_get: the event has 30 bits of LBA and 16 of count, where zero stands
\* for 2^16; Main gives it to ftl_read or ftl_write, and the controller ends
\* the transfer with a good status.
GetEvent ==
  LET count == work.count % Half
  IN /\ pc = "event"
     /\ exec' = [rw |-> IF work.code \in CclFtlD2h THEN "read" ELSE "write",
                 lba |-> work.lba % EqLba,
                 count |-> IF count = 0 THEN Half ELSE count]
     /\ pc' = "answered"
     /\ Answer("ok")
     /\ UNCHANGED <<ctx, fis, work, idn>>

-----------------------------------------------------------------------------
(* The slow command functions. *)

\* What Main does with a slow command: it runs the function and frees the slot.
RunSlow(function) ==
  /\ pc = "slow"
  /\ SearchAtaFunction(work.code) = function
  /\ pc' = "answered"
  /\ UNCHANGED <<fis, work, exec>>

\* send_status_to_host(0): flush, standby, idle and sleep (after ftl_flush),
\* read verify, recalibrate, set multiple mode, check power mode; the buffer
\* commands transfer HIL_BUF first; ata_srst answers with its signature.
AnswerOk ==
  /\ \E f \in {"ok", "flush", "power_mode", "buffer", "diagnostics"} : RunSlow(f)
  /\ Answer("ok")
  /\ UNCHANGED <<ctx, idn>>

AnswerAbort ==
  /\ \E f \in {"nop", NoFunction} : RunSlow(f)
  /\ Answer("ABRT")
  /\ UNCHANGED <<ctx, idn>>

AtaSeek ==
  /\ RunSlow("seek")
  /\ Answer(IF work.lba > MAX_LBA THEN "IDNF" ELSE "ok")
  /\ UNCHANGED <<ctx, idn>>

EnabledBy == [f \in {\h02, \h10, \hAA} |->
                CASE f = \h02 -> "wcache" [] f = \h10 -> "autoact" [] f = \hAA -> "lookahead"]
DisabledBy == [f \in {\h82, \h90, \h55} |->
                CASE f = \h82 -> "wcache" [] f = \h90 -> "autoact" [] f = \h55 -> "lookahead"]

\* The features that a SET FEATURES with this count leaves enabled, out of e.
\* The two about SATA take effect when the count names auto-activate (2).
Features(e, feat, count) ==
  CASE feat \in {\h10, \h90} /\ count % Byte # 2 -> e
    [] feat \in DOMAIN EnabledBy -> e \cup {EnabledBy[feat]}
    [] feat \in DOMAIN DisabledBy -> e \ {DisabledBy[feat]}
    [] OTHER -> e

KnownFeatures == DOMAIN EnabledBy \cup DOMAIN DisabledBy \cup {\h03}

AtaSetFeatures ==
  /\ RunSlow("set_features")
  /\ ctx' = [ctx EXCEPT !.enabled = Features(@, fis.feat, work.count)]
  /\ IF fis.feat \in KnownFeatures
     THEN Answer("ok") ELSE Answer("ABRT")
  /\ UNCHANGED idn

Lesser(a, b) == IF a < b THEN a ELSE b

\* The geometry of the drive is what the host sets; as built MAX_LBA is past
\* CHS_MAX_ADDR, here the drive bounds the cylinders.
AtaInitializeDeviceParameters ==
  LET heads == fis.chs[2] + 1
      secs == work.count % Byte
  IN /\ RunSlow("init_params")
     /\ IF secs = 0
        THEN Answer("ABRT") /\ UNCHANGED ctx
        ELSE /\ Answer("ok")
             /\ ctx' = [ctx EXCEPT !.heads = heads, !.secs = secs,
                                   !.cyls = Lesser(MAX_LBA \div (heads * secs), Half - 1)]
     /\ UNCHANGED idn

\* The LBA that READ NATIVE MAX ADDRESS answers with, in the form asked for.
NativeMax ==
  IF work.code = \h27 THEN MAX_LBA
  ELSE IF fis.form = "chs" THEN DefaultGeometry[1] * DefaultGeometry[2] * DefaultGeometry[3] - 1
  ELSE MAX_LBA % Lba28

AtaReadNativeMaxAddress ==
  /\ RunSlow("read_native_max")
  /\ ans' = [status |-> "ok", max |-> NativeMax]
  /\ UNCHANGED <<ctx, idn>>

\* The command codes behind the bits of words 82 and 83 that are set, and
\* those every drive has; the subcommands of SET FEATURES behind bits 5 and 6.
Word82_83 ==
  {\hE4, \hE8} \cup {\hE0, \hE1, \hE2, \hE3, \hE5, \hE6} \cup {\hE7, \hEA}
    \cup {\h24, \h25, \h29, \h34, \h35, \h39, \h42}
    \cup {\h20, \h30, \h40, \h90, \hC4, \hC5, \hC6, \hC8, \hCA, \hEC}

IdentifyData ==
  [ geometry |-> <<ctx.cyls, ctx.heads, ctx.secs>>,  \* words 54 to 56
    geometryValid |-> TRUE,                           \* word 53 bit 0
    cap28 |-> Lesser(MAX_LBA + 1, Lba28 - 1),         \* words 60 and 61
    cap48 |-> MAX_LBA + 1,                            \* words 100 and 101
    supported |-> Word82_83,
    features |-> {"wcache", "lookahead"} \cup (ctx.enabled \cap {"autoact"}) ]
                                                      \* words 85 and 79

AtaIdentifyDevice ==
  /\ RunSlow("identify")
  /\ idn' = IdentifyData
  /\ Answer("ok")
  /\ UNCHANGED ctx

DeviceStep ==
  \/ HandleGotCfis \/ GetEvent
  \/ AnswerOk \/ AnswerAbort \/ AtaSeek \/ AtaSetFeatures \/ AtaIdentifyDevice
  \/ AtaInitializeDeviceParameters \/ AtaReadNativeMaxAddress

-----------------------------------------------------------------------------
(* The host. *)

Media == CclFtlD2h \cup CclFtlH2d

\* The sectors a media command names, by the geometry the host was last told.
HostGeometry == IF idn # NoData THEN idn.geometry ELSE DefaultGeometry
Named(f) ==
  [lba |-> IF f.form = "chs" /\ f.op \in AtrLbaNor
           THEN (f.chs[1] * HostGeometry[2] + f.chs[2]) * HostGeometry[3] + f.chs[3] - 1
           ELSE f.lba,
   count |-> LET max == IF f.op \in AtrLbaExt THEN Half ELSE Byte
             IN IF f.count = 0 THEN max ELSE f.count]

\* A host that has read the identify data asks for sectors that it reports.
\* Queued commands (0x60, 0x61) need the bit of word 76 that is clear.
Allowed(f) ==
  HostReadsIdentify /\ f.op \in Media =>
    /\ idn # NoData
    /\ f.op \in idn.supported
    /\ f.form = "chs" =>
         /\ f.chs[1] < idn.geometry[1] /\ f.chs[2] < idn.geometry[2]
         /\ f.chs[3] \in 1 .. idn.geometry[3]
    /\ Named(f).lba + Named(f).count <= IF f.op \in AtrLbaExt THEN idn.cap48 ELSE idn.cap28

\* The command FISes worth telling apart: those that address sectors vary in
\* address and count, SET FEATURES in subcommand and count, INITIALIZE DEVICE
\* PARAMETERS in head and count.
Fises(op) ==
  IF op \in AtrLbaNor \cup AtrLbaExt
  THEN [op : {op}, form : {"lba"},
        lba : IF op \in AtrLbaNor THEN Addresses \cap (0 .. Lba28 - 1) ELSE Addresses,
        chs : {NoFis.chs}, feat : {0},
        count : IF op \in AtrLbaNor THEN Counts \cap (0 .. Byte - 1) ELSE Counts]
       \cup
       [op : {op} \cap AtrLbaNor, form : {"chs"}, lba : {0}, chs : Triples, feat : {0},
        count : Counts \cap (0 .. Byte - 1)]
  ELSE IF op = \hEF
  THEN [op : {op}, form : {"lba"}, lba : {0}, chs : {NoFis.chs},
        feat : KnownFeatures \cup {\h05}, count : {0, 2}]
  ELSE [op : {op}, form : {"lba", "chs"}, lba : {0}, chs : Triples \cap {<<0, h, 0>> : h \in 0 .. 15},
        feat : {0}, count : Counts \cap (0 .. Byte - 1)]

Host ==
  /\ pc = "idle"
  /\ \E op \in Opcodes : \E f \in Fises(op) :
       /\ Allowed(f)
       /\ fis' = f
  /\ pc' = "recv"
  /\ UNCHANGED <<ctx, work, ans, exec, idn>>

\* The host has seen the answer: what is left of the command is forgotten.
SeeAnswer ==
  /\ pc = "answered"
  /\ pc' = "idle"
  /\ fis' = NoFis /\ work' = NoWork /\ exec' = NoExec /\ Answer("none")
  /\ UNCHANGED <<ctx, idn>>

\* The state after sata_reset: the context is cleared, two features are on.
Init ==
  /\ ctx = [cyls |-> 0, heads |-> 0, secs |-> 0, enabled |-> {"wcache", "lookahead"}]
  /\ pc = "idle" /\ fis = NoFis /\ work = NoWork
  /\ ans = [status |-> "none", max |-> 0]
  /\ exec = NoExec
  /\ idn = NoData

Next == Host \/ SeeAnswer \/ DeviceStep
Spec == Init /\ [][Next]_vars

\* The interrupt is taken and the main loop runs; the host may stop.
FairSpec == Spec /\ WF_vars(DeviceStep)

-----------------------------------------------------------------------------
(* Properties. *)

Answered == pc = "answered"

\* A read or write that keeps to the capacity the identify data report reaches
\* the FTL for exactly the sectors the host named, in the right direction,
\* through 28-bit and 48-bit fields, counts of zero and the event queue.
ExactSectors ==
  exec # NoExec =>
    /\ exec.lba = Named(fis).lba /\ exec.count = Named(fis).count
    /\ exec.rw = IF fis.op \in CclFtlH2d THEN "write" ELSE "read"

\* Every sector that the identify data report can be reached: no such read or
\* write is refused.
CapacityReachable == Answered /\ fis.op \in Media => ans.status = "ok"

\* A command that the identify data report as supported has a function: the
\* three tables (class, code, function) agree entry by entry.
SupportedNotAborted ==
  Answered /\ fis.op \in Word82_83 => ans.status # "ABRT"

\* READ NATIVE MAX ADDRESS, the words 60/61 and the words 100/101 give one size.
NativeMaxAgrees ==
  Answered /\ fis.op \in {\h27, \hF8} /\ fis.form = "lba" /\ idn # NoData =>
    ans.max + 1 = IF fis.op = \h27 THEN idn.cap48 ELSE idn.cap28

\* What the identify data promise, the commands keep.
IdentifyKept == CapacityReachable /\ SupportedNotAborted /\ NativeMaxAgrees

\* Every command is answered, one that no table knows too.
EveryCommandAnswered == pc = "recv" ~> pc = "answered"

=============================================================================
