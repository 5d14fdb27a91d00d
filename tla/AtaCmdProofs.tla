---------------------------- MODULE AtaCmdProofs ----------------------------
(***************************************************************************)
(* A host that keeps to the identify data gets what they promise: its      *)
(* reads and writes reach the FTL for the sectors it named, and the        *)
(* capacity, the commands and the sizes reported are kept - for every size *)
(* of the drive and every width of the fields that AtaAssumption allows.   *)
(***************************************************************************)
EXTENDS AtaCmd, WellFoundedInduction, TLAPS

\* The sectors a media command asks for, by its count field.
Sectors(f) == IF f.count = 0 THEN IF f.op \in AtrLbaExt THEN Half ELSE Byte
              ELSE f.count

FeatureNames == {"wcache", "autoact", "lookahead"}

\* INITIALIZE DEVICE PARAMETERS gets no count and changes nothing, so that the
\* geometry stays as sata_reset left it.
GeometryInv ==
  ctx \in [cyls : {0}, heads : {0}, secs : {0}, enabled : SUBSET FeatureNames]

\* What the host has read is what the drive would still report.
IdnInv ==
  idn # NoData =>
    /\ idn.geometry = <<0, 0, 0>> /\ idn.supported = Word82_83
    /\ idn.cap28 = MAX_LBA + 1 /\ idn.cap48 = MAX_LBA + 1

\* A media command is in the form of an LBA, its fields fit their registers,
\* its sectors the drive.
MediaInv ==
  pc # "idle" /\ fis.op \in Media =>
    /\ fis.op \in Word82_83 /\ fis.form = "lba"
    /\ fis.lba \in Nat /\ fis.count \in Nat
    /\ fis.count < (IF fis.op \in AtrLbaExt THEN Half ELSE Byte)
    /\ fis.lba + Sectors(fis) <= MAX_LBA + 1

\* The work is the command, decoded.
WorkInv ==
  /\ pc = "event" => /\ fis.op \in Media /\ work.code = fis.op
                     /\ work.lba = fis.lba /\ work.count = Sectors(fis)
  /\ pc = "slow" => /\ fis.op \notin Media /\ work.code = fis.op
                    /\ work.code = \h91 => work.count = 0

PlaceInv ==
  /\ pc \in {"idle", "recv", "event", "slow", "answered"}
  /\ exec # NoExec => pc = "answered" /\ fis.op \in Media

IInv == /\ GeometryInv /\ IdnInv /\ MediaInv /\ WorkInv /\ PlaceInv
        /\ ExactSectors /\ IdentifyKept

USE AtaAssumption

-----------------------------------------------------------------------------
(* The tables. *)

\* What the entries of the two tables at the same place have to do with each
\* other.
LEMMA InitParamsRow ==
  ASSUME NEW i \in 1 .. 59, ata_function_table[i] = "init_params"
  PROVE  ata_command_code_table[i] = \h91
<1>1. CASE i <= 30
  BY <1>1 DEF ata_function_table, ata_command_code_table, NoFunction
<1>2. CASE i > 30
  BY <1>2 DEF ata_function_table, NoFunction
<1> QED BY <1>1, <1>2

LEMMA AbortedRow ==
  ASSUME NEW i \in 1 .. 59, ata_function_table[i] \in {"nop", NoFunction, "set_features"}
  PROVE  ata_command_code_table[i] \notin Word82_83 \ Media
BY DEF ata_function_table, ata_command_code_table, NoFunction,
       Word82_83, Media, CclFtlD2h, CclFtlH2d

LEMMA NativeMaxRow ==
  ASSUME NEW i \in 1 .. 59, ata_command_code_table[i] \in {\h27, \hF8}
  PROVE  ata_function_table[i] = "read_native_max"
BY DEF ata_function_table, ata_command_code_table

\* Every command reported as supported, but for reads and writes, has an entry.
LEMMA SupportedHaveRows ==
  ASSUME NEW c \in (Word82_83 \ Media) \cup {\h27, \hF8}
  PROVE  \E i \in 1 .. 60 : ata_command_code_table[i] = c
BY DEF ata_command_code_table, Word82_83, Media, CclFtlD2h, CclFtlH2d

LEMMA FirstOf ==
  ASSUME NEW T \in SUBSET Nat, T # {}
  PROVE  LET first == CHOOSE i \in T : \A j \in T : i <= j
         IN  first \in T /\ \A j \in T : first <= j
<1>1. PICK i \in T : \A j \in T : <<j, i>> \notin OpToRel(<, Nat)
  BY WFMin, NatLessThanWellFounded
<1>2. \A j \in T : ~ (j < i)
  BY <1>1 DEF OpToRel
<1>3. \E x \in T : \A j \in T : x <= j
  BY <1>2
<1> QED BY <1>3, Zenon

\* A function comes from an entry with the code: never from the last one,
\* which repeats the code before it and has no function.
LEMMA SearchedRow ==
  ASSUME NEW c, \E i \in 1 .. 60 : ata_command_code_table[i] = c
  PROVE  \E i \in 1 .. 59 : /\ ata_command_code_table[i] = c
                            /\ SearchAtaFunction(c) = ata_function_table[i]
<1> DEFINE found == {i \in 1 .. 60 : ata_command_code_table[i] = c}
           first == CHOOSE i \in found : \A j \in found : i <= j
<1>1. Len(ata_command_code_table) = 60
  BY DEF ata_command_code_table
<1>2. SearchAtaFunction(c) = ata_function_table[first]
  BY <1>1 DEF SearchAtaFunction
<1>3. found \in SUBSET Nat /\ found # {}
  OBVIOUS
<1>4. \A i : i \in found <=> i \in 1 .. 60 /\ ata_command_code_table[i] = c
  OBVIOUS
<1>5. first \in found /\ \A j \in found : first <= j
  <2> HIDE DEF found
  <2> QED BY <1>3, FirstOf
<1> HIDE DEF found, first
<1>6. ata_command_code_table[59] = ata_command_code_table[60]
  BY DEF ata_command_code_table
<1>7. first # 60
  <2> SUFFICES ASSUME first = 60 PROVE FALSE
    OBVIOUS
  <2>1. 59 \in found
    BY <1>4, <1>5, <1>6
  <2> QED BY <1>5, <2>1
<1>8. first \in 1 .. 59 /\ ata_command_code_table[first] = c
  BY <1>4, <1>5, <1>7
<1> QED BY <1>2, <1>8

LEMMA NoRow ==
  ASSUME NEW c, ~ \E i \in 1 .. 60 : ata_command_code_table[i] = c
  PROVE  SearchAtaFunction(c) = NoFunction
<1>1. Len(ata_command_code_table) = 60
  BY DEF ata_command_code_table
<1> QED BY <1>1 DEF SearchAtaFunction

LEMMA Search ==
  ASSUME NEW c
  PROVE  /\ SearchAtaFunction(c) = "init_params" => c = \h91
         /\ SearchAtaFunction(c) \in {"nop", NoFunction, "set_features"}
              => c \notin Word82_83 \ Media
         /\ c \in {\h27, \hF8} => SearchAtaFunction(c) = "read_native_max"
<1>1. CASE \E i \in 1 .. 60 : ata_command_code_table[i] = c
  <2>1. PICK i \in 1 .. 59 : /\ ata_command_code_table[i] = c
                            /\ SearchAtaFunction(c) = ata_function_table[i]
    BY <1>1, SearchedRow
  <2> QED BY <2>1, InitParamsRow, AbortedRow, NativeMaxRow
<1>2. CASE ~ \E i \in 1 .. 60 : ata_command_code_table[i] = c
  <2>1. SearchAtaFunction(c) = NoFunction
    BY <1>2, NoRow
  <2> QED BY <1>2, <2>1, SupportedHaveRows DEF NoFunction
<1> QED BY <1>1, <1>2

-----------------------------------------------------------------------------
(* Decoding. *)

LEMMA ModSmall == ASSUME NEW n \in Nat, NEW x \in 0 .. n - 1 PROVE x % n = x
OBVIOUS

LEMMA ModSelf == ASSUME NEW n \in Nat \ {0} PROVE n % n = 0 /\ 0 % n = 0
OBVIOUS

LEMMA Widths ==
  /\ {Byte, Half, Lba28, EqLba, Word} \subseteq Nat \ {0}
  /\ Byte <= Half /\ Half <= MAX_LBA /\ MAX_LBA + 1 < Lba28
  /\ MAX_LBA + 1 < EqLba /\ MAX_LBA + 1 < Word
OBVIOUS

\* The media commands that are reported as supported, by their form.
LEMMA MediaForms ==
  /\ Media \cap Word82_83 \subseteq AtrLbaNor \cup AtrLbaExt
  /\ AtrLbaNor \cap AtrLbaExt = {}
  /\ (Media \cap Word82_83) \cap (AtrNoSect \cup AtrSectCnt) = {}
  /\ CclFtlD2h \cap CclFtlH2d = {}
BY DEF Media, Word82_83, CclFtlD2h, CclFtlH2d, AtrLbaNor, AtrLbaExt,
       AtrNoSect, AtrSectCnt

LEMMA MediaDecoded ==
  ASSUME NEW f, f.op \in Media \cap Word82_83, f.form = "lba",
         f.lba \in Nat, f.count \in Nat,
         f.count < (IF f.op \in AtrLbaExt THEN Half ELSE Byte),
         f.lba + Sectors(f) <= MAX_LBA + 1
  PROVE  /\ DecodedLba(f) = f.lba /\ DecodedCount(f) = Sectors(f)
         /\ Sectors(f) \in 1 .. Half
         /\ ~OutOfRange(f.op, f.lba, Sectors(f))
<1>1. Sectors(f) \in 1 .. Half
  BY Widths DEF Sectors
<1>2. f.lba < Lba28 /\ f.lba < Word /\ f.lba + Sectors(f) < Word
  BY <1>1, Widths
<1>3. DecodedLba(f) = f.lba
  <2>1. f.lba % Lba28 = f.lba /\ f.lba % Word = f.lba
    BY <1>2, Widths, ModSmall
  <2> QED BY <2>1, MediaForms DEF DecodedLba
<1>4. DecodedCount(f) = Sectors(f)
  <2>1. CASE f.op \in AtrLbaExt
    <3>1. f.count % Half = f.count
      BY <2>1, Widths, ModSmall
    <3>2. f.op \notin AtrLbaNor /\ f.op \notin AtrNoSect \cup AtrSectCnt
      BY <2>1, MediaForms
    <3>3. DecodedCount(f) = Full(f.count % Half, Half, f.op)
      BY <2>1, <3>2 DEF DecodedCount
    <3> QED BY <2>1, <3>1, <3>2, <3>3 DEF Full, Sectors
  <2>2. CASE f.op \in AtrLbaNor
    <3>1. f.count % Byte = f.count
      BY <2>2, Widths, ModSmall, MediaForms
    <3>2. f.op \notin AtrLbaExt /\ f.op \notin AtrNoSect \cup AtrSectCnt
      BY <2>2, MediaForms
    <3>3. DecodedCount(f) = Full(f.count % Byte, Byte, f.op)
      BY <2>2, <3>2 DEF DecodedCount
    <3> QED BY <2>2, <3>1, <3>2, <3>3 DEF Full, Sectors
  <2> QED BY <2>1, <2>2, MediaForms
<1>5. ~OutOfRange(f.op, f.lba, Sectors(f))
  <2>1. (f.lba + Sectors(f)) % Word = f.lba + Sectors(f)
    BY <1>1, <1>2, Widths, ModSmall
  <2> QED BY <1>1, <2>1, Widths DEF OutOfRange
<1> QED BY <1>1, <1>3, <1>4, <1>5

\* The count of an event: 16 bits, of which zero is the largest.
LEMMA EventCount ==
  ASSUME NEW n \in 1 .. Half
  PROVE  (IF n % Half = 0 THEN Half ELSE n % Half) = n
<1>1. CASE n = Half
  BY <1>1, Widths, ModSelf
<1>2. CASE n < Half
  <2>1. n % Half = n
    BY <1>2, Widths, ModSmall
  <2> QED BY <2>1
<1> QED BY <1>1, <1>2, Widths

-----------------------------------------------------------------------------
(* The invariant. *)

LEMMA InitIInv == Init => IInv
<1> SUFFICES ASSUME Init PROVE IInv
  OBVIOUS
<1> USE DEF Init
<1>1. GeometryInv
  BY DEF GeometryInv, FeatureNames
<1>2. IdnInv /\ MediaInv /\ WorkInv /\ PlaceInv
  BY DEF IdnInv, MediaInv, WorkInv, PlaceInv
<1>3. ExactSectors /\ IdentifyKept
  BY DEF ExactSectors, IdentifyKept, CapacityReachable, SupportedNotAborted,
         NativeMaxAgrees, Answered
<1> QED BY <1>1, <1>2, <1>3 DEF IInv

\* A host that keeps to the identify data gives its media commands as LBAs: the
\* geometry they report has no sectors.
LEMMA HostMedia ==
  ASSUME HostReadsIdentify, IInv, NEW op \in Opcodes, NEW f \in Fises(op),
         Allowed(f), f.op \in Media
  PROVE  /\ f.op \in Word82_83 /\ f.form = "lba"
         /\ f.lba \in Nat /\ f.count \in Nat
         /\ f.count < (IF f.op \in AtrLbaExt THEN Half ELSE Byte)
         /\ f.lba + Sectors(f) <= MAX_LBA + 1
<1>1. idn # NoData /\ f.op \in Word82_83 /\ idn.geometry = <<0, 0, 0>>
  BY DEF Allowed, IInv, IdnInv
<1>2. f.op \in AtrLbaNor \cup AtrLbaExt
  BY <1>1, MediaForms
<1>3. /\ f.op = op /\ f.form \in {"lba", "chs"} /\ f.chs \in Triples \cup {NoFis.chs}
      /\ f.lba \in Addresses \cup {0}
      /\ f.count \in Counts
      /\ f.op \in AtrLbaNor => f.count < Byte
  <2>1. op \in AtrLbaNor \cup AtrLbaExt
    <3> SUFFICES ASSUME op \notin AtrLbaNor \cup AtrLbaExt PROVE FALSE
      OBVIOUS
    <3>1. f.op = op
      BY DEF Fises
    <3> QED BY <1>2, <3>1
  <2>2. f \in [op : {op}, form : {"lba"},
               lba : IF op \in AtrLbaNor THEN Addresses \cap (0 .. Lba28 - 1) ELSE Addresses,
               chs : {NoFis.chs}, feat : {0},
               count : IF op \in AtrLbaNor THEN Counts \cap (0 .. Byte - 1) ELSE Counts]
        \/ f \in [op : {op} \cap AtrLbaNor, form : {"chs"}, lba : {0}, chs : Triples,
                  feat : {0}, count : Counts \cap (0 .. Byte - 1)]
    BY <2>1 DEF Fises
  <2> QED BY <2>1, <2>2, Widths
<1>4. f.chs \in Nat \X Nat \X Nat
  BY <1>3 DEF NoFis
<1>5. f.form = "lba"
  <2> SUFFICES ASSUME f.form = "chs" PROVE FALSE
    BY <1>3
  <2>1. f.chs[1] < 0
    BY <1>1 DEF Allowed
  <2> QED BY <1>4, <2>1
<1>6. f.lba \in Nat /\ f.count \in Nat /\ f.count < Half
  <2>1. f.lba \in Nat
    <3>1. Addresses \cup {0} \subseteq Nat
      OBVIOUS
    <3> QED BY <1>3, <3>1, Zenon
  <2>2. f.count \in 0 .. Half - 1
    <3>1. Counts \subseteq 0 .. Half - 1
      OBVIOUS
    <3> QED BY <1>3, <3>1, Zenon
  <2> QED BY <2>1, <2>2
<1>7. f.count < (IF f.op \in AtrLbaExt THEN Half ELSE Byte)
  BY <1>2, <1>3, <1>6
<1>8. Named(f).lba = f.lba /\ Named(f).count = Sectors(f)
  BY <1>5 DEF Named, Sectors
<1>9. f.lba + Sectors(f) <= MAX_LBA + 1
  BY <1>1, <1>8 DEF Allowed, IInv, IdnInv
<1> QED BY <1>1, <1>5, <1>6, <1>7, <1>9

LEMMA HostStep == ASSUME HostReadsIdentify, IInv, Host PROVE IInv'
<1> USE DEF IInv
<1>1. /\ pc = "idle" /\ pc' = "recv" /\ exec = NoExec
      /\ UNCHANGED <<ctx, work, ans, exec, idn>>
  BY DEF Host, PlaceInv
<1>2. PICK op \in Opcodes : \E f \in Fises(op) : Allowed(f) /\ fis' = f
  BY DEF Host
<1>3. PICK f \in Fises(op) : Allowed(f) /\ fis' = f
  BY <1>2
<1>4. GeometryInv' /\ IdnInv'
  BY <1>1 DEF GeometryInv, IdnInv
<1>5. MediaInv'
  BY <1>3, HostMedia DEF MediaInv, Sectors
<1>6. WorkInv' /\ PlaceInv'
  BY <1>1 DEF WorkInv, PlaceInv
<1>7. ExactSectors' /\ IdentifyKept'
  BY <1>1 DEF ExactSectors, IdentifyKept, CapacityReachable, SupportedNotAborted,
              NativeMaxAgrees, Answered
<1> QED BY <1>4, <1>5, <1>6, <1>7

LEMMA SeeAnswerStep == ASSUME IInv, SeeAnswer PROVE IInv'
<1> USE DEF SeeAnswer
<1>1. GeometryInv' /\ IdnInv'
  BY DEF IInv, GeometryInv, IdnInv
<1>2. MediaInv' /\ WorkInv' /\ PlaceInv' /\ ExactSectors'
  BY DEF MediaInv, WorkInv, PlaceInv, ExactSectors
<1>3. IdentifyKept'
  BY DEF IdentifyKept, CapacityReachable, SupportedNotAborted, NativeMaxAgrees, Answered
<1> QED BY <1>1, <1>2, <1>3 DEF IInv

LEMMA GotCfisStep == ASSUME IInv, HandleGotCfis PROVE IInv'
<1> DEFINE lba == DecodedLba(fis)
           count == DecodedCount(fis)
           refused == OutOfRange(fis.op, lba, count)
           decoded == [code |-> fis.op, lba |-> lba, count |-> count]
<1>1. pc = "recv" /\ UNCHANGED <<ctx, fis, exec, idn>>
  BY DEF HandleGotCfis
<1>2. IF refused
      THEN pc' = "answered" /\ ans' = [status |-> "IDNF", max |-> 0]
      ELSE /\ pc' = IF fis.op \in Media THEN "event" ELSE "slow"
           /\ work' = decoded
  BY DEF HandleGotCfis, Answer, Media
<1>3. ASSUME fis.op \in Media
      PROVE  ~refused /\ lba = fis.lba /\ count = Sectors(fis)
  BY <1>1, <1>3, MediaDecoded DEF IInv, MediaInv
<1>4. fis.op \in {\h27, \h91, \hF8} => lba = 0 /\ count = 0
  BY DEF DecodedLba, DecodedCount, AtrLbaNor, AtrLbaExt, AtrSectCnt
<1>5. fis.op \in {\h27, \hF8} => ~refused
  BY <1>4, Widths, ModSelf DEF OutOfRange
<1> HIDE DEF lba, count, refused
<1>6. GeometryInv' /\ IdnInv' /\ MediaInv'
  BY <1>1 DEF IInv, GeometryInv, IdnInv, MediaInv, Sectors
<1>7. WorkInv'
  <2>1. CASE refused
    BY <1>2, <2>1 DEF WorkInv
  <2>2. CASE ~refused /\ fis.op \in Media
    <3>1. pc' = "event" /\ work' = decoded
      BY <1>2, <2>2
    <3> QED BY <1>1, <1>3, <2>2, <3>1 DEF WorkInv, Sectors
  <2>3. CASE ~refused /\ fis.op \notin Media
    <3>1. pc' = "slow" /\ work' = decoded
      BY <1>2, <2>3
    <3> QED BY <1>1, <1>4, <2>3, <3>1 DEF WorkInv
  <2> QED BY <2>1, <2>2, <2>3
<1>8. exec' = NoExec
  BY <1>1 DEF IInv, PlaceInv
<1>9. PlaceInv' /\ ExactSectors'
  BY <1>2, <1>8 DEF PlaceInv, ExactSectors, NoExec
<1>10. IdentifyKept'
  <2>1. CASE refused
    BY <1>1, <1>2, <1>3, <1>5, <2>1
       DEF IdentifyKept, CapacityReachable, SupportedNotAborted, NativeMaxAgrees
  <2>2. CASE ~refused
    BY <1>2, <2>2 DEF IdentifyKept, CapacityReachable, SupportedNotAborted,
                      NativeMaxAgrees, Answered
  <2> QED BY <2>1, <2>2
<1> QED BY <1>6, <1>7, <1>9, <1>10 DEF IInv

LEMMA GetEventStep == ASSUME IInv, GetEvent PROVE IInv'
<1>1. /\ pc = "event" /\ pc' = "answered" /\ ans' = [status |-> "ok", max |-> 0]
      /\ UNCHANGED <<ctx, fis, work, idn>>
  BY DEF GetEvent, Answer
<1>2. /\ fis.op \in Media \cap Word82_83 /\ fis.form = "lba"
      /\ fis.lba \in Nat /\ fis.count \in Nat
      /\ fis.count < (IF fis.op \in AtrLbaExt THEN Half ELSE Byte)
      /\ fis.lba + Sectors(fis) <= MAX_LBA + 1
  BY <1>1 DEF IInv, MediaInv, WorkInv
<1>3. work.code = fis.op /\ work.lba = fis.lba /\ work.count = Sectors(fis)
  BY <1>1 DEF IInv, WorkInv
<1>4. Sectors(fis) \in 1 .. Half
  BY <1>2, MediaDecoded
<1>5. work.lba % EqLba = fis.lba
  <2>1. fis.lba \in 0 .. EqLba - 1
    BY <1>2, <1>4, Widths
  <2> QED BY <1>3, <2>1, Widths, ModSmall
<1>6. exec' = [rw |-> IF fis.op \in CclFtlD2h THEN "read" ELSE "write",
               lba |-> fis.lba, count |-> Sectors(fis)]
  BY <1>3, <1>4, <1>5, EventCount DEF GetEvent
<1>7. GeometryInv' /\ IdnInv' /\ MediaInv' /\ WorkInv' /\ PlaceInv'
  BY <1>1, <1>2 DEF IInv, GeometryInv, IdnInv, MediaInv, WorkInv, PlaceInv, Sectors
<1>8. ExactSectors'
  <2>1. Named(fis)'.lba = fis.lba /\ Named(fis)'.count = Sectors(fis)
    BY <1>1, <1>2 DEF Named, Sectors
  <2>2. fis.op \in CclFtlD2h <=> fis.op \notin CclFtlH2d
    BY <1>2, MediaForms DEF Media
  <2> QED BY <1>1, <1>6, <2>1, <2>2 DEF ExactSectors
<1>9. IdentifyKept'
  <2>1. fis.op \notin {\h27, \hF8}
    BY <1>2 DEF Media, CclFtlD2h, CclFtlH2d
  <2> QED BY <1>1, <2>1 DEF IdentifyKept, CapacityReachable, SupportedNotAborted,
                            NativeMaxAgrees
<1> QED BY <1>7, <1>8, <1>9 DEF IInv

\* What a slow command has to show: that the geometry and what the host has
\* read stay true, and that its answer keeps what they promise.
LEMMA SlowStep ==
  ASSUME IInv, NEW function, RunSlow(function),
         GeometryInv', IdnInv',
         fis.op \in Word82_83 \ Media => ans'.status # "ABRT",
         function # "read_native_max" \/ NativeMaxAgrees'
  PROVE  IInv'
<1>1. /\ pc = "slow" /\ pc' = "answered" /\ UNCHANGED <<fis, work, exec>>
      /\ SearchAtaFunction(work.code) = function
  BY DEF RunSlow
<1>2. fis.op \notin Media /\ work.code = fis.op /\ exec = NoExec
  BY <1>1 DEF IInv, WorkInv, PlaceInv
<1>3. MediaInv' /\ WorkInv' /\ PlaceInv' /\ ExactSectors'
  BY <1>1, <1>2 DEF MediaInv, WorkInv, PlaceInv, ExactSectors, NoExec
<1>4. NativeMaxAgrees'
  <2>1. CASE fis.op \in {\h27, \hF8}
    BY <1>1, <1>2, <2>1, Search
  <2>2. CASE fis.op \notin {\h27, \hF8}
    BY <1>1, <2>2 DEF NativeMaxAgrees
  <2> QED BY <2>1, <2>2
<1>5. IdentifyKept'
  BY <1>1, <1>2, <1>4 DEF IdentifyKept, CapacityReachable, SupportedNotAborted
<1> QED BY <1>3, <1>5 DEF IInv

LEMMA SlowSteps ==
  ASSUME IInv,
         AnswerOk \/ AnswerAbort \/ AtaSeek \/ AtaSetFeatures
           \/ AtaInitializeDeviceParameters \/ AtaReadNativeMaxAddress
           \/ AtaIdentifyDevice
  PROVE  IInv'
<1> USE DEF Answer
<1>1. ASSUME UNCHANGED ctx PROVE GeometryInv'
  BY <1>1 DEF IInv, GeometryInv
<1>2. ASSUME UNCHANGED idn PROVE IdnInv'
  BY <1>2 DEF IInv, IdnInv
<1>3. ASSUME NEW f, RunSlow(f)
      PROVE  work.code = fis.op /\ SearchAtaFunction(fis.op) = f
             /\ (fis.op = \h91 => work.count = 0)
  BY <1>3 DEF RunSlow, IInv, WorkInv
<1>4. ASSUME AnswerOk PROVE IInv'
  <2>1. PICK f \in {"ok", "flush", "power_mode", "buffer", "diagnostics"} : RunSlow(f)
    BY <1>4 DEF AnswerOk
  <2>2. ans'.status = "ok" /\ UNCHANGED <<ctx, idn>>
    BY <1>4 DEF AnswerOk
  <2> QED BY <1>1, <1>2, <2>1, <2>2, SlowStep
<1>5. ASSUME AnswerAbort PROVE IInv'
  <2>1. PICK f \in {"nop", NoFunction} : RunSlow(f)
    BY <1>5 DEF AnswerAbort
  <2>2. fis.op \notin Word82_83 \ Media
    BY <1>3, <2>1, Search
  <2>3. UNCHANGED <<ctx, idn>>
    BY <1>5 DEF AnswerAbort
  <2> QED BY <1>1, <1>2, <2>1, <2>2, <2>3, SlowStep DEF NoFunction
<1>6. ASSUME AtaSeek PROVE IInv'
  <2>1. RunSlow("seek") /\ ans'.status # "ABRT" /\ UNCHANGED <<ctx, idn>>
    BY <1>6 DEF AtaSeek
  <2> QED BY <1>1, <1>2, <2>1, SlowStep
<1>7. ASSUME AtaSetFeatures PROVE IInv'
  <2>1. /\ RunSlow("set_features") /\ UNCHANGED idn
        /\ ctx' = [ctx EXCEPT !.enabled = Features(@, fis.feat, work.count)]
    BY <1>7 DEF AtaSetFeatures
  <2>2. fis.op \notin Word82_83 \ Media
    BY <1>3, <2>1, Search
  <2>3. \A e \in SUBSET FeatureNames :
          Features(e, fis.feat, work.count) \in SUBSET FeatureNames
    BY DEF Features, FeatureNames, EnabledBy, DisabledBy
  <2>4. GeometryInv'
    BY <2>1, <2>3 DEF IInv, GeometryInv
  <2> QED BY <1>2, <2>1, <2>2, <2>4, SlowStep
<1>8. ASSUME AtaInitializeDeviceParameters PROVE IInv'
  <2>1. RunSlow("init_params") /\ UNCHANGED idn
    BY <1>8 DEF AtaInitializeDeviceParameters
  <2>2. fis.op = \h91 /\ work.count = 0
    BY <1>3, <2>1, Search
  <2>3. work.count % Byte = 0
    BY <2>2, Widths, ModSelf
  <2>4. UNCHANGED ctx
    BY <1>8, <2>3 DEF AtaInitializeDeviceParameters
  <2>5. fis.op \notin Word82_83
    BY <2>2 DEF Word82_83
  <2> QED BY <1>1, <1>2, <2>1, <2>4, <2>5, SlowStep
<1>9. ASSUME AtaReadNativeMaxAddress PROVE IInv'
  <2>1. /\ RunSlow("read_native_max") /\ UNCHANGED <<ctx, idn>>
        /\ ans' = [status |-> "ok", max |-> NativeMax]
    BY <1>9 DEF AtaReadNativeMaxAddress
  <2>2. work.code = fis.op /\ UNCHANGED fis
    BY <1>3, <2>1 DEF RunSlow
  <2>3. MAX_LBA % Lba28 = MAX_LBA
    BY Widths, ModSmall
  <2>4. fis.op \in {\h27, \hF8} /\ fis.form = "lba" => NativeMax = MAX_LBA
    BY <2>2, <2>3 DEF NativeMax
  <2>5. NativeMaxAgrees'
    BY <2>1, <2>2, <2>4 DEF NativeMaxAgrees, IInv, IdnInv
  <2> QED BY <1>1, <1>2, <2>1, <2>5, SlowStep
<1>10. ASSUME AtaIdentifyDevice PROVE IInv'
  <2>1. /\ RunSlow("identify") /\ UNCHANGED ctx
        /\ idn' = IdentifyData /\ ans'.status = "ok"
    BY <1>10 DEF AtaIdentifyDevice
  <2>2. ctx.cyls = 0 /\ ctx.heads = 0 /\ ctx.secs = 0
    BY DEF IInv, GeometryInv
  <2>3. Lesser(MAX_LBA + 1, Lba28 - 1) = MAX_LBA + 1
    BY Widths DEF Lesser
  <2>4. IdnInv'
    BY <2>1, <2>2, <2>3 DEF IdnInv, IdentifyData
  <2> QED BY <1>1, <2>1, <2>4, SlowStep
<1> QED BY <1>4, <1>5, <1>6, <1>7, <1>8, <1>9, <1>10

LEMMA NextIInv == ASSUME HostReadsIdentify, IInv, [Next]_vars PROVE IInv'
<1>1. ASSUME UNCHANGED vars PROVE IInv'
  BY <1>1 DEF vars, IInv, GeometryInv, IdnInv, MediaInv, Sectors, WorkInv, PlaceInv,
     ExactSectors, Named, HostGeometry, IdentifyKept, CapacityReachable,
     SupportedNotAborted, NativeMaxAgrees, Answered
<1>2. ASSUME Next PROVE IInv'
  BY <1>2, HostStep, SeeAnswerStep, GotCfisStep, GetEventStep, SlowSteps
     DEF Next, DeviceStep
<1> QED BY <1>1, <1>2

-----------------------------------------------------------------------------
(* The theorems. *)

\* A read or write of a host that keeps to the identify data reaches ftl_read
\* or ftl_write with the first sector and the count that the host named: no
\* cut of handle_got_cfis or of the event queue changes them.
THEOREM SectorsExact ==
  ASSUME HostReadsIdentify PROVE Spec => []ExactSectors
<1>1. IInv => ExactSectors
  BY DEF IInv
<1> QED BY InitIInv, NextIInv, <1>1, PTL DEF Spec

\* What identify data promise to such a host is kept: the capacity can be read
\* and written, the commands reported have functions, the sizes agree.
THEOREM IdentifyDataKept ==
  ASSUME HostReadsIdentify PROVE Spec => []IdentifyKept
<1>1. IInv => IdentifyKept
  BY DEF IInv
<1> QED BY InitIInv, NextIInv, <1>1, PTL DEF Spec

=============================================================================
