-------------------------- MODULE CachePipeProofs --------------------------
(***************************************************************************)
(* The write buffer, the read path and the flash controller work together: *)
(* one inductive invariant, IInv, and from it the safety properties of     *)
(* CachePipe for every number of banks, buffers, pages and commands.       *)
(*                                                                         *)
(* The theorems assume PromptAccept: an idle bank takes its command before *)
(* the firmware polls again.  wait_bank_free looks at the bank and not at  *)
(* the Waiting Room (flash.c), so that without it a bank may have a        *)
(* program and a pre-read at once, and buf_id_incomplete forgets the       *)
(* first.  With it a bank never has more than one command (OneInv), which  *)
(* the rest of the invariant is about: InBank is that command, and Later   *)
(* and Flash are what buffers and flash hold once it is done.              *)
(***************************************************************************)
EXTENDS CachePipe, FiniteSetTheorems, TLAPS

-----------------------------------------------------------------------------
(* The invariant.                                                          *)

\* What bank b has been given and has not done.
InBank(b) == IF ~WrFree /\ wr.bank = b THEN wr ELSE bsp[b]
Quiet(b)  == InBank(b) = NoCmd

\* What part p of buffer f, or of page r, of bank b holds once b has done it.
Later(b, f, p) ==
  IF InBank(b).op = "read" /\ InBank(b).buf = f /\ p \in InBank(b).parts
  THEN nand[b][InBank(b).row][p]
  ELSE dram[f][p]
Flash(b, r) ==
  IF InBank(b).op = "prog" /\ InBank(b).row = r THEN InBank(b).data ELSE nand[b][r]

\* One command per bank; the thread issues a command to an idle bank.
OneInv ==
  /\ ~WrFree => BankIdle(wr.bank)
  /\ \A b \in Banks : ~BankIdle(b) => bsp[b].bank = b
  /\ place \in {"preread", "rissue"} => WrFree /\ BankIdle(bk)
  /\ pc = "dequeue" => WrFree /\ BankIdle(ret.bank)

\* Places at which the thread pools, and at which it keeps its bank.
Pooling == {"idle", "data", "clean", "prewait", "center", "rwait", "flush"}
Holding == {"prewait", "preread", "centerwr", "center", "rwait", "rissue"}

\* Where the thread is, and what it knows there.
ThreadInv ==
  /\ pc \in {"summary", "dequeue"} => ret.at \in Pooling
  /\ place \in Holding => stall[bk] /\ (pc \in {"summary", "dequeue"} => ret.bank # bk)
  /\ place \in {"data", "clean", "prewait", "preread", "centerwr", "center", "enqueue"}
       => cmd.kind = "write"
  /\ place \in {"rlookup", "rhit", "rzero", "rwait", "rissue"} => cmd.kind = "read"
  /\ place = "pool" => cmd.kind \in {"write", "idle"}
  /\ place \in {"pool", "data", "clean", "prewait", "preread"} => comp
  /\ place \in {"clean", "prewait", "preread", "centerwr", "center",
                "rzero", "rwait", "rissue"} => Hits(cmd.lpn) = {}
  /\ place \in {"prewait", "preread", "centerwr", "center"} => ~ents[bk][buf].dirty
  /\ place \in {"prewait", "preread", "rwait", "rissue"} => map[cmd.lpn] # 0
  /\ place = "rzero" => map[cmd.lpn] = 0
  /\ place = "rhit" => buf \in Hits(cmd.lpn)
  /\ place = "enqueue" => \/ buf \in Hits(cmd.lpn)
                          \/ Hits(cmd.lpn) = {} /\ ~ents[bk][buf].dirty

\* A page is in one buffer of its bank at most.
EntsInv ==
  \A b \in Banks, i \in Bufs : ents[b][i].lpn # NoLpn =>
    /\ BankOf(ents[b][i].lpn) = b
    /\ \A j \in Bufs : ents[b][j].lpn = ents[b][i].lpn => j = i

\* The running write has its page read into buffer i.
Filling(b, i) ==
  /\ b = bk /\ i = buf
  /\ place \in {"centerwr", "center"} \/ (place = "enqueue" /\ ~comp)

\* What a bank works on, and what keeps the buffer of it.
ProgInv ==
  \A b \in Banks : InBank(b).op = "prog" =>
    /\ \/ InBank(b).buf = FtlBuf(b)
       \/ incomplete[b] \in Bufs /\ InBank(b).buf = CacheBuf(b, incomplete[b])
    /\ InBank(b).row < next[b]
    /\ InBank(b).data = dram[InBank(b).buf]

ReadInv ==
  \A b \in Banks : InBank(b).op = "read" /\ ~InBank(b).sata =>
    \E i \in Bufs :
      /\ InBank(b).buf = CacheBuf(b, i)
      /\ \/ incomplete[b] = i /\ ents[b][i].dirty
         \/ Filling(b, i) /\ (place = "enqueue" => InBank(b).parts \cap cmd.parts = {})

EraseInv == \A b \in Banks : InBank(b).op = "erase" => InBank(b).rows = {}

\* While a pre-read goes on, its bank does nothing else.
FillInv ==
  /\ Filling(bk, buf) => InBank(bk).op \in {"none", "read"}
                         /\ (InBank(bk).op = "read" => InBank(bk).buf = CacheBuf(bk, buf))
  /\ place \in {"centerwr", "center"} => \A p \in Part :
       newest[cmd.lpn][p] # 0 => Later(bk, CacheBuf(bk, buf), p) = newest[cmd.lpn][p]
  /\ place = "enqueue" => \A p \in Part \ cmd.parts :
       newest[cmd.lpn][p] # 0 => Later(bk, CacheBuf(bk, buf), p) = newest[cmd.lpn][p]

\* Buffers hold what was written last ...
BufInv ==
  \A b \in Banks, i \in Bufs : ents[b][i].lpn # NoLpn /\ ~BeingReused(b, i) =>
    \A p \in Part : newest[ents[b][i].lpn][p] # 0 =>
      Later(b, CacheBuf(b, i), p) = newest[ents[b][i].lpn][p]

\* ... and so does flash, for a page that no dirty buffer holds.
FlashInv ==
  \A l \in Lpn :
    /\ map[l] < next[BankOf(l)]
    /\ (\A i \in Hits(l) : ~ents[BankOf(l)][i].dirty) =>
         \A p \in Part : newest[l][p] # 0 =>
           map[l] # 0 /\ Flash(BankOf(l), map[l])[p] = newest[l][p]

\* The slots in use.
Window == Before(rdId)
ToHost(b)  == InBank(b).op = "read" /\ InBank(b).sata
SlotRight(k) == \A p \in Part : want[k][p] # 0 => dram[RdBuf(k)][p] = want[k][p]

\* Each slot of the read ring is ready, on its way from a bank, or free.
SlotInv ==
  /\ \A k \in Slots : ready[k] => k \in Window /\ SlotRight(k)
  /\ \A k \in Window :
       ready[k] \/ \E b \in Banks : ToHost(b) /\ InBank(b).buf = RdBuf(k)
  /\ \A b \in Banks : ToHost(b) =>
       \E k \in Window :
         /\ InBank(b).buf = RdBuf(k) /\ ~ready[k] /\ InBank(b).parts = Part
         /\ \A p \in Part : want[k][p] # 0 => nand[b][InBank(b).row][p] = want[k][p]
  /\ \A b, c \in Banks : ToHost(b) /\ ToHost(c) /\ InBank(b).buf = InBank(c).buf => b = c
  /\ place = "rlimit" => NextRd # rdPtr /\ SlotRight(rdId)

\* What flush_write_buf has seen empty is empty.
FlushInv ==
  /\ place = "flush" /\ done => \A b \in Banks : b < fbank => Empty(b)
  /\ place = "finish" => \A b \in Banks : Empty(b)

\* Each write takes a page of flash, and a summary page at most: the write that
\* runs is owed two pages, and a summary page has been lent one.
Owed    == IF cmd.kind = "write" THEN 2 ELSE 0
Lent(b) == IF pc \in {"summary", "dequeue"} /\ ret.bank = b THEN 1 ELSE 0
CountInv ==
  \A b \in Banks :
    next[b] > 0 /\ next[b] + 2 * Cardinality(DirtyBufs(b)) + Owed <= 1 + 2 * ops + Lent(b)

IInv == /\ TypeOK /\ OneInv /\ ThreadInv /\ EntsInv /\ ProgInv /\ ReadInv /\ EraseInv
        /\ FillInv /\ BufInv /\ FlashInv /\ SlotInv /\ FlushInv /\ CountInv

-----------------------------------------------------------------------------
(* What the constants and the types say.                                   *)

LEMMA Consts ==
  /\ Banks \subseteq Nat /\ Bank = Banks /\ NumBanks \in Nat /\ NumBanks > 0
  /\ Bufs \subseteq Nat /\ NoBuf \notin Bufs /\ NumBufs \in Nat /\ NumBufs > 0
  /\ Slots \subseteq Nat /\ NumRdBufs \in Nat /\ NumRdBufs > 1
  /\ Lpn \subseteq Nat /\ NoLpn \notin Lpn
  /\ Row = 0..(2 * MaxOps + 2) /\ Datum = 0..MaxOps /\ MaxOps \in Nat /\ Blank = 0
  /\ Buffer = Buffers
  /\ \A l \in Lpn : BankOf(l) \in Banks
  /\ PagesPerVblk \in Nat /\ PagesPerVblk > 1
BY PipeAssumption DEF Banks, Bufs, NoBuf, Slots, NoLpn, BankOf

LEMMA Distinct ==
  /\ \A b, c, i, j : CacheBuf(b, i) = CacheBuf(c, j) => b = c /\ i = j
  /\ \A b, c, i : CacheBuf(b, i) # FtlBuf(c)
  /\ \A b, i, k : CacheBuf(b, i) # RdBuf(k)
  /\ \A b, k : FtlBuf(b) # RdBuf(k)
  /\ \A k, m : RdBuf(k) = RdBuf(m) => k = m
  /\ \A b, c : FtlBuf(b) = FtlBuf(c) => b = c
BY DEF CacheBuf, RdBuf, FtlBuf

LEMMA BufferTypes ==
  /\ \A b \in Banks, i \in Bufs : CacheBuf(b, i) \in Buffer
  /\ \A b \in Banks : FtlBuf(b) \in Buffer
  /\ \A k \in Slots : RdBuf(k) \in Buffer
BY Consts DEF Buffers

\* A read or write command is for a page of a bank.
LEMMA CmdTypes ==
  ASSUME TypeOK
  PROVE  /\ cmd.kind = "write" => cmd.lpn \in Lpn /\ cmd.parts \in SUBSET Part /\ bk \in Banks
         /\ cmd.kind = "read" => cmd.lpn \in Lpn /\ bk \in Banks
         /\ cmd.kind \in {"write", "read"} => cmd \in Cmds
<1>1. cmd \in Cmds \cup {NoHostCmd}
  BY DEF TypeOK, HostTypeOK
<1>2. CASE cmd \in Cmds
  BY <1>2, PipeAssumption, Consts DEF bk
<1>3. CASE cmd = NoHostCmd
  BY <1>3 DEF NoHostCmd
<1> QED BY <1>1, <1>2, <1>3

LEMMA InBankType ==
  ASSUME TypeOK, OneInv, NEW b \in Banks
  PROVE  /\ InBank(b) \in Cmd \cup {NoCmd}
         /\ InBank(b) # NoCmd => InBank(b).bank = b
         /\ InBank(b) = NoCmd <=> InBank(b).op = "none"
         /\ InBank(b).op \in {"none", "read", "prog", "erase"}
         /\ InBank(b).op = "read" => InBank(b) \in ReadCmd
         /\ InBank(b).op = "prog" => InBank(b) \in ProgCmd
         /\ InBank(b).op = "erase" => InBank(b) \in EraseCmd
<1>1. InBank(b) \in Cmd \cup {NoCmd}
  BY Consts DEF TypeOK, CtrlTypeOK, InBank, WrFree
<1>2. InBank(b) # NoCmd => InBank(b).bank = b
  BY DEF OneInv, InBank, BankIdle
<1>3. /\ \A c \in ReadCmd : c.op = "read"
      /\ \A c \in ProgCmd : c.op = "prog"
      /\ \A c \in EraseCmd : c.op = "erase"
      /\ NoCmd.op = "none"
  BY DEF ReadCmd, ProgCmd, EraseCmd, NoCmd
<1> QED BY <1>1, <1>2, <1>3 DEF Cmd

LEMMA PlaceOfWait ==
  ASSUME TypeOK, ThreadInv
  PROVE  /\ pc \notin {"summary", "dequeue"} => place = pc
         /\ pc \in {"summary", "dequeue"} => place \in Pooling
         /\ place \notin {"summary", "dequeue"}
BY DEF place, ThreadInv, Pooling

\* A thread that steps finds the Waiting Room free.
LEMMA ThreadFree ==
  ASSUME PromptAccept, TypeOK, OneInv, Accepted
  PROVE  WrFree /\ \A b \in Banks : BankIdle(b) <=> Quiet(b)
<1>1. WrFree
  BY DEF OneInv, Accepted
<1> QED BY <1>1 DEF Quiet, InBank, BankIdle

-----------------------------------------------------------------------------
(* What the banks have to do, after each kind of step.                     *)

LEMMA SameView ==
  ASSUME UNCHANGED flashVars
  PROVE  /\ \A b : InBank(b)' = InBank(b)
         /\ \A b, f, p : Later(b, f, p)' = Later(b, f, p)
         /\ \A b, r : Flash(b, r)' = Flash(b, r)
         /\ \A b : BankIdle(b)' = BankIdle(b)
         /\ WrFree' = WrFree
BY DEF flashVars, InBank, Later, Flash, WrFree, BankIdle

LEMMA IssueView ==
  ASSUME TypeOK, OneInv, NEW b \in Banks, NEW c \in Cmd, c.bank = b,
         WrFree, BankIdle(b), Issue(c), UNCHANGED <<bsp, dram, nand>>
  PROVE  /\ InBank(b) = NoCmd /\ InBank(b)' = c
         /\ \A x \in Banks : x # b => InBank(x)' = InBank(x)
         /\ CtrlTypeOK' /\ ~WrFree' /\ wr' = c
         /\ ~WrFree' => BankIdle(wr.bank)'
         /\ \A x \in Banks : ~BankIdle(x)' => bsp'[x].bank = x
<1>1. c # NoCmd
  BY DEF Cmd, ReadCmd, ProgCmd, EraseCmd, NoCmd
<1>2. InBank(b) = NoCmd /\ InBank(b)' = c /\ ~WrFree' /\ wr' = c
  BY <1>1 DEF InBank, Issue, WrFree, BankIdle
<1>3. \A x \in Banks : x # b => InBank(x)' = InBank(x)
  BY DEF InBank, Issue, WrFree
<1>4. CtrlTypeOK'
  BY DEF TypeOK, CtrlTypeOK, Issue
<1> QED BY <1>2, <1>3, <1>4 DEF OneInv, BankIdle

LEMMA AcceptView ==
  ASSUME TypeOK, OneInv, Accept
  PROVE  /\ \A b \in Banks : InBank(b)' = InBank(b)
         /\ CtrlTypeOK' /\ WrFree' /\ UNCHANGED <<dram, nand>>
         /\ wr.bank \in Banks
         /\ \A b \in Banks : BankIdle(b)' => BankIdle(b)
         /\ \A b \in Banks : ~BankIdle(b)' => bsp'[b].bank = b
<1>1. wr \in Cmd /\ wr.bank \in Bank
  BY DEF Accept, TypeOK, CtrlTypeOK, WrFree, Cmd, ReadCmd, ProgCmd, EraseCmd
<1>2. wr # NoCmd
  BY DEF Accept, WrFree
<1>3. /\ bsp' = [bsp EXCEPT ![wr.bank] = wr] /\ wr' = NoCmd /\ UNCHANGED <<dram, nand>>
      /\ bsp[wr.bank] = NoCmd
  BY DEF Accept, BankIdle
<1>4. bsp \in [Banks -> Cmd \cup {NoCmd}] /\ wr.bank \in Banks
  BY <1>1, Consts DEF TypeOK, CtrlTypeOK
<1>5. \A b \in Banks : InBank(b)' = InBank(b)
  BY <1>1, <1>2, <1>3, <1>4 DEF InBank, WrFree
<1>6. CtrlTypeOK'
  BY <1>1, <1>3, <1>4, Consts DEF TypeOK, CtrlTypeOK
<1>7. /\ \A b \in Banks : BankIdle(b)' => BankIdle(b)
      /\ \A b \in Banks : ~BankIdle(b)' => bsp'[b].bank = b
  BY <1>2, <1>3, <1>4 DEF BankIdle, OneInv
<1> QED BY <1>3, <1>4, <1>5, <1>6, <1>7 DEF WrFree

-----------------------------------------------------------------------------
(* The read ring.                                                          *)

LEMMA ModSmall ==
  ASSUME NEW n \in Nat, n > 0, NEW x \in Int, -n <= x, x < 2 * n
  PROVE  x % n = IF x < 0 THEN x + n ELSE IF x < n THEN x ELSE x - n
<1> DEFINE q == x \div n
           r == x % n
<1>1. r \in 0 .. n - 1 /\ x = n * q + r /\ q \in Int
  OBVIOUS
<1> HIDE DEF q, r
<1>2. ~(q >= 2)
  <2> SUFFICES ASSUME q >= 2 PROVE FALSE
    OBVIOUS
  <2>1. n * q = 2 * n + n * (q - 2) /\ n * (q - 2) >= 0
    BY <1>1
  <2> QED BY <1>1, <2>1
<1>3. ~(q <= -2)
  <2> SUFFICES ASSUME q <= -2 PROVE FALSE
    OBVIOUS
  <2>1. n * q = n * (q + 2) - 2 * n /\ n * (q + 2) <= 0
    BY <1>1
  <2> QED BY <1>1, <2>1
<1>4. CASE q = -1
  BY <1>1, <1>4 DEF r
<1>5. CASE q = 0
  BY <1>1, <1>5 DEF r
<1>6. CASE q = 1
  BY <1>1, <1>6 DEF r
<1> QED BY <1>1, <1>2, <1>3, <1>4, <1>5, <1>6

\* The slot after s, and how far slot s is from r.
LEMMA NextSlot ==
  ASSUME NEW s \in Slots
  PROVE  /\ (s + 1) % NumRdBufs \in Slots
         /\ (s + 1) % NumRdBufs = IF s = NumRdBufs - 1 THEN 0 ELSE s + 1
<1> DEFINE x == s + 1
<1>1. x \in Int /\ -NumRdBufs <= x /\ x < 2 * NumRdBufs /\ 0 < x /\ x <= NumRdBufs
      /\ NumRdBufs \in Nat /\ NumRdBufs > 1 /\ Slots = 0..(NumRdBufs - 1)
      /\ (s = NumRdBufs - 1 <=> x = NumRdBufs)
  BY Consts DEF Slots
<1> HIDE DEF x
<1>2. x % NumRdBufs = IF x < 0 THEN x + NumRdBufs
                      ELSE IF x < NumRdBufs THEN x ELSE x - NumRdBufs
  BY <1>1, ModSmall
<1>3. x % NumRdBufs \in Slots /\ x % NumRdBufs = IF x = NumRdBufs THEN 0 ELSE x
  BY <1>1, <1>2
<1> QED BY <1>1, <1>3 DEF x

LEMMA SlotDistance ==
  ASSUME NEW r \in Slots, NEW s \in Slots
  PROVE  (s - r) % NumRdBufs = IF s < r THEN s - r + NumRdBufs ELSE s - r
<1>1. s - r \in Int /\ -NumRdBufs <= s - r /\ s - r < 2 * NumRdBufs
      /\ s - r < NumRdBufs /\ NumRdBufs \in Nat /\ NumRdBufs > 0
      /\ (s < r <=> s - r < 0)
  BY Consts DEF Slots
<1>2. (s - r) % NumRdBufs = IF s - r < 0 THEN s - r + NumRdBufs
        ELSE IF s - r < NumRdBufs THEN s - r ELSE s - r - NumRdBufs
  BY <1>1, ModSmall
<1> QED BY <1>1, <1>2

LEMMA WindowFacts ==
  ASSUME rdPtr \in Slots, rdId \in Slots
  PROVE  /\ Window \subseteq Slots /\ rdId \notin Window /\ NextRd \in Slots
         /\ rdPtr # rdId => rdPtr \in Window
         /\ NextRd # rdPtr => Before(NextRd) = Window \cup {rdId}
<1> DEFINE D(s) == IF s < rdPtr THEN s - rdPtr + NumRdBufs ELSE s - rdPtr
<1>1. rdPtr \in 0 .. NumRdBufs - 1 /\ rdId \in 0 .. NumRdBufs - 1 /\ NumRdBufs \in Nat
      /\ NumRdBufs > 1 /\ Slots = 0 .. NumRdBufs - 1
  BY Consts DEF Slots
<1>2. NextRd \in Slots /\ NextRd = IF rdId = NumRdBufs - 1 THEN 0 ELSE rdId + 1
  BY NextSlot DEF NextRd
<1>3. /\ Window = {s \in Slots : D(s) < D(rdId)}
      /\ Before(NextRd) = {s \in Slots : D(s) < D(NextRd)}
  BY <1>2, SlotDistance DEF Window, Before
<1>4. NextRd # rdPtr => Before(NextRd) = Window \cup {rdId}
  BY <1>1, <1>2, <1>3
<1>5. Window \subseteq Slots /\ rdId \notin Window /\ (rdPtr # rdId => rdPtr \in Window)
  BY <1>1, <1>3
<1> QED BY <1>2, <1>4, <1>5

LEMMA WindowSent ==
  ASSUME rdPtr \in Slots, rdId \in Slots, rdPtr # rdId,
         rdPtr' = (rdPtr + 1) % NumRdBufs, rdId' = rdId
  PROVE  /\ rdPtr' \in Slots /\ Window' = Window \ {rdPtr}
         /\ NextRd' = NextRd /\ (NextRd # rdPtr => NextRd # rdPtr')
<1> DEFINE D(r, s) == IF s < r THEN s - r + NumRdBufs ELSE s - r
<1>1. rdPtr \in 0 .. NumRdBufs - 1 /\ rdId \in 0 .. NumRdBufs - 1 /\ NumRdBufs \in Nat
      /\ NumRdBufs > 1 /\ Slots = 0 .. NumRdBufs - 1
  BY Consts DEF Slots
<1>2. rdPtr' \in Slots /\ rdPtr' = IF rdPtr = NumRdBufs - 1 THEN 0 ELSE rdPtr + 1
  BY NextSlot
<1>3. /\ Window = {s \in Slots : D(rdPtr, s) < D(rdPtr, rdId)}
      /\ Window' = {s \in Slots : D(rdPtr', s) < D(rdPtr', rdId)}
  BY <1>2, SlotDistance DEF Window, Before
<1>4. Window' = Window \ {rdPtr}
  BY <1>1, <1>2, <1>3
<1>5. NextRd' = NextRd /\ NextRd = IF rdId = NumRdBufs - 1 THEN 0 ELSE rdId + 1
  BY NextSlot DEF NextRd
<1> QED BY <1>1, <1>2, <1>4, <1>5

\* Banks do not share buffers.
LEMMA ReadBuffers ==
  ASSUME IInv, NEW b \in Banks, InBank(b).op = "read"
  PROVE  \/ InBank(b).sata /\ \E k \in Slots : InBank(b).buf = RdBuf(k)
         \/ ~InBank(b).sata /\ \E i \in Bufs : InBank(b).buf = CacheBuf(b, i)
<1>1. CASE InBank(b).sata
  BY <1>1 DEF IInv, SlotInv, ToHost, Window, Before
<1>2. CASE ~InBank(b).sata
  BY <1>2 DEF IInv, ReadInv
<1> QED BY <1>1, <1>2

LEMMA CompleteView ==
  ASSUME IInv, NEW b \in Banks, Complete(b)
  PROVE  /\ InBank(b) = bsp[b] /\ InBank(b)' = NoCmd /\ bsp[b] # NoCmd
         /\ \A x \in Banks : x # b => InBank(x)' = InBank(x)
         /\ UNCHANGED wr /\ CtrlTypeOK'
         /\ \A x \in Banks : BankIdle(x) => BankIdle(x)'
         /\ \A x \in Banks : ~BankIdle(x)' => bsp'[x].bank = x
         /\ \A x \in Banks, i \in Bufs, p \in Part :
              Later(x, CacheBuf(x, i), p)' = Later(x, CacheBuf(x, i), p)
         /\ \A x \in Banks, r \in Row : Flash(x, r)' = Flash(x, r)
         /\ \A x \in Banks, r \in Row : x # b => nand'[x][r] = nand[x][r]
         /\ \A f \in Buffer : dram'[f] # dram[f] =>
              bsp[b].op = "read" /\ f = bsp[b].buf
         /\ bsp[b].op = "read" => /\ nand' = nand
              /\ \A p \in Part : dram'[bsp[b].buf][p] =
                   IF p \in bsp[b].parts THEN nand[b][bsp[b].row][p] ELSE dram[bsp[b].buf][p]
<1> DEFINE c == bsp[b]
<1>0. TypeOK /\ OneInv /\ ProgInv /\ EraseInv
  BY DEF IInv
<1>1. c # NoCmd /\ bsp' = [bsp EXCEPT ![b] = NoCmd] /\ UNCHANGED wr /\ c.bank = b
      /\ bsp \in [Banks -> Cmd \cup {NoCmd}] /\ Transfer(c)
  BY <1>0, Consts DEF Complete, BankIdle, TypeOK, CtrlTypeOK, OneInv
<1>2. InBank(b) = c /\ InBank(b)' = NoCmd
  BY <1>0, <1>1 DEF OneInv, InBank, WrFree, BankIdle
<1>3. \A x \in Banks : x # b => InBank(x)' = InBank(x)
  BY <1>1 DEF InBank, WrFree
<1>4. /\ \A x \in Banks : BankIdle(x) => BankIdle(x)'
      /\ \A x \in Banks : ~BankIdle(x)' => bsp'[x].bank = x
  BY <1>0, <1>1 DEF BankIdle, OneInv
<1>5. \A x \in Banks : bsp'[x] \in Cmd \cup {NoCmd}
  BY <1>1
<1>6. bsp' \in [Banks -> Cmd \cup {NoCmd}]
  BY <1>1
<1>7. dram \in [Buffer -> Content] /\ nand \in [Banks -> [Row -> Content]]
      /\ wr' \in Cmd \cup {NoCmd}
  BY <1>0, <1>1, Consts DEF TypeOK, CtrlTypeOK
<1> HIDE DEF c
<1>8. CASE c.op = "read"
  <2>1. c \in ReadCmd
    BY <1>0, <1>2, <1>8, InBankType
  <2>2. c.buf \in Buffer /\ c.row \in Row /\ c.bank = b /\ c.parts \subseteq Part
    BY <1>1, <2>1 DEF ReadCmd, c
  <2> DEFINE new == [p \in Part |-> IF p \in c.parts THEN nand[b][c.row][p] ELSE dram[c.buf][p]]
  <2>3. dram' = [dram EXCEPT ![c.buf] = new] /\ nand' = nand
    BY <1>1, <1>7, <1>8, <2>2 DEF Transfer, c
  <2>4. new \in Content
    BY <1>7, <2>2 DEF Content
  <2>5. \A p \in Part : new[p] = IF p \in c.parts THEN nand[b][c.row][p] ELSE dram[c.buf][p]
    OBVIOUS
  <2> HIDE DEF new
  <2>6. CtrlTypeOK'
    BY <1>6, <1>7, <2>2, <2>3, <2>4, Consts DEF CtrlTypeOK
  <2>7. dram'[c.buf] = new /\ \A f \in Buffer : f # c.buf => dram'[f] = dram[f]
    BY <1>7, <2>2, <2>3
  <2>8. ASSUME NEW x \in Banks, NEW i \in Bufs, NEW p \in Part
        PROVE  Later(x, CacheBuf(x, i), p)' = Later(x, CacheBuf(x, i), p)
    <3>1. CacheBuf(x, i) \in Buffer
      BY BufferTypes
    <3>2. CASE x = b
      BY <1>2, <1>8, <2>3, <2>5, <2>7, <3>1, <3>2 DEF Later, NoCmd
    <3>3. CASE x # b
      <4>1. c.buf # CacheBuf(x, i)
        BY <1>2, <1>8, <3>3, ReadBuffers, Distinct
      <4>2. dram'[CacheBuf(x, i)] = dram[CacheBuf(x, i)]
        BY <2>7, <3>1, <4>1
      <4> QED BY <1>3, <2>3, <3>3, <4>2 DEF Later
    <3> QED BY <3>2, <3>3
  <2>9. \A x \in Banks, r \in Row : Flash(x, r)' = Flash(x, r)
    BY <1>2, <1>3, <1>8, <2>3 DEF Flash, NoCmd
  <2> QED BY <1>1, <1>2, <1>3, <1>4, <1>8, <2>3, <2>5, <2>6, <2>7, <2>8, <2>9 DEF c
<1>9. CASE c.op = "prog"
  <2>1. c \in ProgCmd /\ c.data = dram[c.buf]
    BY <1>0, <1>2, <1>9, InBankType DEF ProgInv
  <2>2. c.buf \in Buffer /\ c.row \in Row /\ c.bank = b
    BY <1>1, <2>1 DEF ProgCmd, c
  <2>3. nand' = [nand EXCEPT ![b] = [nand[b] EXCEPT ![c.row] = dram[c.buf]]] /\ dram' = dram
    BY <1>1, <1>7, <1>9, <2>2 DEF Transfer, c
  <2>4. CtrlTypeOK'
    BY <1>6, <1>7, <2>2, <2>3, Consts DEF CtrlTypeOK
  <2>5. \A x \in Banks, r \in Row :
          nand'[x][r] = IF x = b /\ r = c.row THEN c.data ELSE nand[x][r]
    BY <1>7, <2>1, <2>2, <2>3
  <2>6. \A x \in Banks, r \in Row : Flash(x, r)' = Flash(x, r)
    BY <1>2, <1>3, <1>9, <2>5 DEF Flash, NoCmd
  <2>7. ASSUME NEW x \in Banks, NEW i \in Bufs, NEW p \in Part
        PROVE  Later(x, CacheBuf(x, i), p)' = Later(x, CacheBuf(x, i), p)
    <3>1. CASE x = b
      BY <1>2, <1>9, <2>3, <3>1 DEF Later, NoCmd
    <3>2. CASE x # b
      <4>1. InBank(x).op = "read" => InBank(x).row \in Row
        BY <1>0, InBankType DEF ReadCmd
      <4> QED BY <1>3, <2>3, <2>5, <3>2, <4>1 DEF Later
    <3> QED BY <3>1, <3>2
  <2> QED BY <1>1, <1>2, <1>3, <1>4, <1>9, <2>3, <2>4, <2>5, <2>6, <2>7 DEF c
<1>10. CASE c.op = "erase"
  <2>1. c \in EraseCmd /\ c.rows = {}
    BY <1>0, <1>2, <1>10, InBankType DEF EraseInv
  <2>2. nand' = nand /\ dram' = dram
    <3>1. nand' = [nand EXCEPT ![b] = [r \in Row |-> nand[b][r]]] /\ dram' = dram
      BY <1>1, <1>7, <1>10, <2>1 DEF Transfer, c
    <3> QED BY <1>7, <3>1
  <2>3. CtrlTypeOK'
    BY <1>6, <1>7, <2>2, Consts DEF CtrlTypeOK
  <2>4. \A x \in Banks, i \in Bufs, p \in Part :
          Later(x, CacheBuf(x, i), p)' = Later(x, CacheBuf(x, i), p)
    BY <1>2, <1>3, <1>10, <2>2 DEF Later, NoCmd
  <2>5. \A x \in Banks, r \in Row : Flash(x, r)' = Flash(x, r)
    BY <1>2, <1>3, <1>10, <2>2 DEF Flash, NoCmd
  <2> QED BY <1>1, <1>2, <1>3, <1>4, <1>10, <2>2, <2>3, <2>4, <2>5 DEF c
<1>11. c.op \in {"read", "prog", "erase"}
  BY <1>0, <1>1, <1>2, InBankType DEF c
<1> QED BY <1>8, <1>9, <1>10, <1>11

LEMMA AcceptStep == ASSUME IInv, CtrlAccept PROVE IInv'
<1> USE DEF cacheVars, ringVars, localVars, hostVars
<1>1. UNCHANGED <<cacheVars, pool, vt, map, next, ringVars, pc, ret, localVars, hostVars,
                 dram, nand>>
  BY DEF CtrlAccept, Accept
<1>2. /\ \A b \in Banks : InBank(b)' = InBank(b)
      /\ CtrlTypeOK' /\ WrFree' /\ ~WrFree
      /\ \A b \in Banks : ~BankIdle(b)' => bsp'[b].bank = b
  BY AcceptView DEF IInv, CtrlAccept, Accept
<1>3. UNCHANGED <<place, bk>> /\ \A l : Hits(l)' = Hits(l)
  BY <1>1 DEF place, bk, Hits
<1>4. TypeOK'
  BY <1>1, <1>2 DEF IInv, TypeOK, CacheTypeOK, MapTypeOK, RingTypeOK, ThreadTypeOK, HostTypeOK
<1>5. OneInv'
  BY <1>1, <1>2, <1>3 DEF IInv, OneInv
<1>6. ThreadInv'
  BY <1>1, <1>3 DEF IInv, ThreadInv
<1>7. EntsInv' /\ EraseInv' /\ ProgInv' /\ CountInv' /\ FlushInv'
  BY <1>1, <1>2, <1>3 DEF IInv, EntsInv, EraseInv, ProgInv, CountInv, Owed, Lent, FlushInv,
                          DirtyBufs, Empty
<1>8. \A b, i : UNCHANGED <<Filling(b, i), BeingReused(b, i)>>
  BY <1>1, <1>3 DEF Filling, BeingReused
<1>9. ReadInv'
  BY <1>1, <1>2, <1>3, <1>8 DEF IInv, ReadInv
<1>10. \A b \in Banks : /\ \A f, p : Later(b, f, p)' = Later(b, f, p)
                        /\ \A r : Flash(b, r)' = Flash(b, r)
  BY <1>1, <1>2 DEF Later, Flash
<1>11. BufInv'
  BY <1>1, <1>8, <1>10 DEF IInv, BufInv
<1>12. FlashInv'
  BY <1>1, <1>3, <1>10, Consts DEF IInv, FlashInv
<1>13. SlotInv'
  BY <1>1, <1>2, <1>3 DEF IInv, SlotInv, ToHost, Window, Before, SlotRight, NextRd
<1>14. FillInv'
  <2>1. (place \in {"centerwr", "center", "enqueue"}) => bk \in Banks
    BY CmdTypes DEF IInv, ThreadInv
  <2> QED BY <1>1, <1>2, <1>3, <1>8, <1>10, <2>1 DEF IInv, FillInv, Filling
<1> QED BY <1>4, <1>5, <1>6, <1>7, <1>9, <1>11, <1>12, <1>13, <1>14 DEF IInv

LEMMA CompleteStep == ASSUME IInv, CtrlComplete PROVE IInv'
<1> USE DEF cacheVars, ringVars, localVars, hostVars
<1>1. UNCHANGED <<cacheVars, pool, vt, map, next, rdId, rdPtr, want, pc, ret, localVars, hostVars>>
  BY DEF CtrlComplete
<1>2. PICK b \in Banks :
        /\ Complete(b)
        /\ ready' = [k \in Slots |-> ready[k] \/ k \in SlotOf(bsp[b])]
  BY DEF CtrlComplete
<1> DEFINE c == bsp[b]
<1>3. /\ InBank(b) = c /\ InBank(b)' = NoCmd /\ c # NoCmd
      /\ \A x \in Banks : x # b => InBank(x)' = InBank(x)
      /\ UNCHANGED wr /\ CtrlTypeOK'
      /\ \A x \in Banks : BankIdle(x) => BankIdle(x)'
      /\ \A x \in Banks : ~BankIdle(x)' => bsp'[x].bank = x
  BY <1>2, CompleteView
<1>4. /\ \A x \in Banks, i \in Bufs, p \in Part :
              Later(x, CacheBuf(x, i), p)' = Later(x, CacheBuf(x, i), p)
      /\ \A x \in Banks, r \in Row : Flash(x, r)' = Flash(x, r)
      /\ \A x \in Banks, r \in Row : x # b => nand'[x][r] = nand[x][r]
  BY <1>2, CompleteView
<1>5. /\ \A f \in Buffer : dram'[f] # dram[f] => c.op = "read" /\ f = c.buf
      /\ c.op = "read" => /\ nand' = nand
              /\ \A p \in Part : dram'[c.buf][p] =
                   IF p \in c.parts THEN nand[b][c.row][p] ELSE dram[c.buf][p]
  BY <1>2, CompleteView
<1>6. NoCmd.op = "none"
  BY DEF NoCmd
<1> HIDE DEF c
<1>7. UNCHANGED <<place, bk>> /\ \A l : Hits(l)' = Hits(l)
  BY <1>1 DEF place, bk, Hits
<1>8. \A x, i : UNCHANGED <<Filling(x, i), BeingReused(x, i)>>
  BY <1>1, <1>7 DEF Filling, BeingReused
<1>9. TypeOK'
  <2>1. ready' \in [Slots -> BOOLEAN]
    BY <1>2 DEF IInv, TypeOK, RingTypeOK
  <2> QED BY <1>1, <1>3, <2>1 DEF IInv, TypeOK, CacheTypeOK, MapTypeOK, RingTypeOK,
                                  ThreadTypeOK, HostTypeOK
<1>10. OneInv'
  <2>1. WrFree' = WrFree
    BY <1>3 DEF WrFree
  <2>2. bk \in Banks \/ place \notin {"preread", "rissue"}
    BY CmdTypes DEF IInv, ThreadInv
  <2>3. ret.bank \in Banks /\ (~WrFree => wr.bank \in Banks)
    BY Consts DEF IInv, TypeOK, ThreadTypeOK, CtrlTypeOK, WrFree, Cmd, ReadCmd, ProgCmd, EraseCmd
  <2> QED BY <1>1, <1>3, <1>7, <2>1, <2>2, <2>3 DEF IInv, OneInv
<1>11. ThreadInv'
  BY <1>1, <1>7 DEF IInv, ThreadInv
<1>12. EntsInv' /\ CountInv' /\ FlushInv'
  BY <1>1, <1>7 DEF IInv, EntsInv, CountInv, Owed, Lent, FlushInv, DirtyBufs, Empty
<1>13. EraseInv'
  BY <1>3, <1>6 DEF IInv, EraseInv
<1>14. ProgInv'
  <2> SUFFICES ASSUME NEW x \in Banks, InBank(x)'.op = "prog"
               PROVE  /\ \/ InBank(x)'.buf = FtlBuf(x)
                         \/ incomplete[x] \in Bufs /\ InBank(x)'.buf = CacheBuf(x, incomplete[x])
                      /\ InBank(x)'.row < next[x]
                      /\ InBank(x)'.data = dram'[InBank(x)'.buf]
    BY <1>1 DEF ProgInv
  <2>1. x # b /\ InBank(x)' = InBank(x)
    BY <1>3, <1>6
  <2>2. /\ \/ InBank(x).buf = FtlBuf(x)
           \/ incomplete[x] \in Bufs /\ InBank(x).buf = CacheBuf(x, incomplete[x])
        /\ InBank(x).row < next[x]
        /\ InBank(x).data = dram[InBank(x).buf]
    BY <2>1 DEF IInv, ProgInv
  <2>3. InBank(x).buf \in Buffer
    BY <2>2, BufferTypes
  <2>4. dram'[InBank(x).buf] = dram[InBank(x).buf]
    <3>1. c.op = "read" => InBank(x).buf # c.buf
      BY <1>3, <2>1, <2>2, ReadBuffers, Distinct
    <3> QED BY <1>5, <2>3, <3>1
  <2> QED BY <2>1, <2>2, <2>4
<1>15. ReadInv'
  BY <1>1, <1>3, <1>6, <1>7, <1>8 DEF IInv, ReadInv
<1>16. BufInv'
  BY <1>1, <1>4, <1>8 DEF IInv, BufInv
<1>17. FlashInv'
  <2>1. \A l \in Lpn : map[l] \in Row
    BY DEF IInv, TypeOK, MapTypeOK
  <2> SUFFICES ASSUME NEW l \in Lpn
               PROVE  /\ map[l] < next[BankOf(l)]
                      /\ (\A i \in Hits(l) : ~ents[BankOf(l)][i].dirty) =>
                           \A p \in Part : newest[l][p] # 0 =>
                             map[l] # 0 /\ Flash(BankOf(l), map[l])'[p] = newest[l][p]
    BY <1>1, <1>7 DEF FlashInv
  <2>2. Flash(BankOf(l), map[l])' = Flash(BankOf(l), map[l])
    BY <1>1, <1>4, <2>1, Consts
  <2> QED BY <2>2 DEF IInv, FlashInv
<1>18. FillInv'
  <2>1. (place \in {"centerwr", "center", "enqueue"}) => bk \in Banks
    BY CmdTypes DEF IInv, ThreadInv
  <2>2. buf \in Bufs
    BY DEF IInv, TypeOK, ThreadTypeOK
  <2>3. Filling(bk, buf) => bk \in Banks
    BY <2>1 DEF Filling
  <2>4. Filling(bk, buf)' => InBank(bk)'.op \in {"none", "read"}
                         /\ (InBank(bk)'.op = "read" => InBank(bk)'.buf = CacheBuf(bk, buf))
    BY <1>1, <1>3, <1>6, <1>7, <1>8, <2>3 DEF IInv, FillInv, Filling
  <2> QED BY <1>1, <1>4, <1>7, <2>1, <2>2, <2>4 DEF IInv, FillInv
<1>19. SlotInv'
  <2>1. Window' = Window /\ Window \subseteq Slots
    BY <1>1 DEF Window, Before
  <2>2. \A k \in Slots : RdBuf(k) \in Buffer
    BY BufferTypes
  <2>3. \A x \in Banks : x # b => ToHost(x)' = ToHost(x)
    BY <1>3 DEF ToHost
  <2>4. ~ToHost(b)'
    BY <1>3, <1>6 DEF ToHost
  <2>5. CASE ToHost(b)
    <3>1. PICK m \in Window :
            /\ c.buf = RdBuf(m) /\ ~ready[m] /\ c.parts = Part
            /\ \A p \in Part : want[m][p] # 0 => nand[b][c.row][p] = want[m][p]
      BY <1>3, <2>5 DEF IInv, SlotInv
    <3>2. SlotOf(bsp[b]) = {m}
      BY <1>3, <2>1, <2>5, <3>1, Distinct DEF SlotOf, ToHost, c
    <3>3. \A k \in Slots : ready'[k] = (ready[k] \/ k = m)
      BY <1>2, <3>2
    <3>4. c.op = "read" /\ nand' = nand
      BY <1>3, <1>5, <2>5 DEF ToHost
    <3>5. \A k \in Slots : k # m => SlotRight(k)' = SlotRight(k)
      BY <1>1, <1>5, <2>2, <3>1, Distinct DEF SlotRight
    <3>6. SlotRight(m)'
      BY <1>1, <1>5, <3>1, <3>4 DEF SlotRight
    <3>7. \A k \in Slots : ready'[k] => k \in Window /\ SlotRight(k)'
      BY <2>1, <3>1, <3>3, <3>5, <3>6 DEF IInv, SlotInv
    <3>8. ASSUME NEW k \in Window
          PROVE  ready'[k] \/ \E x \in Banks : ToHost(x)' /\ InBank(x)'.buf = RdBuf(k)
      <4>1. CASE ready[k] \/ k = m
        BY <2>1, <3>3, <4>1
      <4>2. CASE ~ready[k] /\ k # m
        <5>1. PICK x \in Banks : ToHost(x) /\ InBank(x).buf = RdBuf(k)
          BY <4>2 DEF IInv, SlotInv
        <5>2. x # b
          BY <1>3, <2>1, <3>1, <4>2, <5>1, Distinct
        <5> QED BY <1>3, <2>3, <5>1, <5>2
      <4> QED BY <4>1, <4>2
    <3>9. ASSUME NEW x \in Banks, ToHost(x)'
          PROVE  \E k \in Window :
                   /\ InBank(x)'.buf = RdBuf(k) /\ ~ready'[k] /\ InBank(x)'.parts = Part
                   /\ \A p \in Part : want[k][p] # 0 => nand'[x][InBank(x)'.row][p] = want[k][p]
      <4>1. x # b /\ InBank(x)' = InBank(x) /\ ToHost(x)
        BY <1>3, <2>3, <2>4, <3>9
      <4>2. PICK k \in Window :
              /\ InBank(x).buf = RdBuf(k) /\ ~ready[k] /\ InBank(x).parts = Part
              /\ \A p \in Part : want[k][p] # 0 => nand[x][InBank(x).row][p] = want[k][p]
        BY <4>1 DEF IInv, SlotInv
      <4>3. k # m
        BY <1>3, <2>5, <3>1, <4>1, <4>2 DEF IInv, SlotInv
      <4>4. ~ready'[k]
        BY <2>1, <3>3, <4>2, <4>3
      <4> QED BY <3>4, <4>1, <4>2, <4>4
    <3>10. \A x, y \in Banks : ToHost(x)' /\ ToHost(y)' /\ InBank(x)'.buf = InBank(y)'.buf => x = y
      BY <1>3, <2>3, <2>4 DEF IInv, SlotInv
    <3>11. place = "rlimit" => NextRd # rdPtr /\ SlotRight(rdId)'
      <4>1. place = "rlimit" => rdId \notin Window
        BY WindowFacts DEF IInv, TypeOK, RingTypeOK
      <4>2. rdId \in Slots
        BY DEF IInv, TypeOK, RingTypeOK
      <4>3. place = "rlimit" => NextRd # rdPtr /\ SlotRight(rdId) /\ rdId # m
        BY <3>1, <4>1 DEF IInv, SlotInv
      <4>4. /\ place = "rlimit" => dram'[RdBuf(rdId)] = dram[RdBuf(rdId)]
            /\ want' = want /\ rdId' = rdId
        <5>1. RdBuf(rdId) # c.buf \/ place # "rlimit"
          BY <3>1, <4>3, Distinct
        <5> QED BY <1>1, <1>5, <2>2, <4>2, <5>1
      <4> QED BY <4>1, <4>3, <4>4, <1>1 DEF SlotRight, NextRd
    <3> QED BY <1>1, <1>7, <2>1, <3>7, <3>8, <3>9, <3>10, <3>11 DEF SlotInv, NextRd
  <2>6. CASE ~ToHost(b)
    <3>1. SlotOf(bsp[b]) = {}
      BY <1>3, <2>6 DEF SlotOf, ToHost, c
    <3>2. \A k \in Slots : ready'[k] = ready[k]
      BY <1>2, <3>1 DEF IInv, TypeOK, RingTypeOK
    <3>3. \A k \in Slots : SlotRight(k)' = SlotRight(k)
      <4>1. \A k \in Slots : dram'[RdBuf(k)] = dram[RdBuf(k)]
        <5>1. c.op = "read" => \A k \in Slots : c.buf # RdBuf(k)
          BY <1>3, <2>6, ReadBuffers, Distinct DEF ToHost
        <5> QED BY <1>5, <2>2, <5>1
      <4> QED BY <1>1, <4>1 DEF SlotRight
    <3>4. \A x \in Banks : ToHost(x)' => x # b /\ ToHost(x) /\ InBank(x)' = InBank(x)
      BY <1>3, <2>3, <2>4
    <3>5. \A x \in Banks : ToHost(x) => x # b /\ ToHost(x)' /\ InBank(x)' = InBank(x)
      BY <1>3, <2>3, <2>6
    <3>6. \A k \in Slots : ready'[k] => k \in Window /\ SlotRight(k)'
      BY <3>2, <3>3 DEF IInv, SlotInv
    <3>7. \A k \in Window :
            ready'[k] \/ \E x \in Banks : ToHost(x)' /\ InBank(x)'.buf = RdBuf(k)
      BY <2>1, <3>2, <3>5 DEF IInv, SlotInv
    <3>8. ASSUME NEW x \in Banks, ToHost(x)'
          PROVE  \E k \in Window :
                   /\ InBank(x)'.buf = RdBuf(k) /\ ~ready'[k] /\ InBank(x)'.parts = Part
                   /\ \A p \in Part : want[k][p] # 0 => nand'[x][InBank(x)'.row][p] = want[k][p]
      <4>1. x # b /\ InBank(x)' = InBank(x) /\ ToHost(x)
        BY <3>4, <3>8
      <4>2. PICK k \in Window :
              /\ InBank(x).buf = RdBuf(k) /\ ~ready[k] /\ InBank(x).parts = Part
              /\ \A p \in Part : want[k][p] # 0 => nand[x][InBank(x).row][p] = want[k][p]
        BY <4>1 DEF IInv, SlotInv
      <4>3. InBank(x).row \in Row
        BY <4>1, InBankType DEF IInv, ToHost, ReadCmd
      <4> QED BY <1>4, <2>1, <3>2, <4>1, <4>2, <4>3
    <3>9. \A x, y \in Banks : ToHost(x)' /\ ToHost(y)' /\ InBank(x)'.buf = InBank(y)'.buf => x = y
      BY <3>4 DEF IInv, SlotInv
    <3>10. place = "rlimit" => NextRd # rdPtr /\ SlotRight(rdId)'
      <4>1. place = "rlimit" => NextRd # rdPtr /\ SlotRight(rdId) /\ rdId \in Slots
        BY DEF IInv, SlotInv, TypeOK, RingTypeOK
      <4> QED BY <1>1, <3>3, <4>1 DEF SlotRight
    <3> QED BY <1>1, <1>7, <2>1, <3>6, <3>7, <3>8, <3>9, <3>10 DEF SlotInv, NextRd
  <2> QED BY <2>5, <2>6
<1> QED BY <1>9, <1>10, <1>11, <1>12, <1>13, <1>14, <1>15, <1>16, <1>17, <1>18, <1>19 DEF IInv

-----------------------------------------------------------------------------
(* Steps that leave flash, buffers and their entries as they are.          *)

LEMMA LocalKeeps ==
  ASSUME IInv, UNCHANGED <<flashVars, ents, map, next, newest>>,
         \A b \in Banks : incomplete'[b] = incomplete[b] \/ InBank(b).op = "none",
         \A b \in Banks, i \in Bufs : BeingReused(b, i) => BeingReused(b, i)',
         \A b \in Banks, i \in Bufs : Filling(b, i) =>
            \/ InBank(b).op # "read"
            \/ Filling(b, i)' /\ (place' = "enqueue" => place = "enqueue" /\ cmd' = cmd)
  PROVE  EntsInv' /\ ProgInv' /\ ReadInv' /\ EraseInv' /\ BufInv' /\ FlashInv'
<1>1. /\ \A b : InBank(b)' = InBank(b)
      /\ \A b, f, p : Later(b, f, p)' = Later(b, f, p)
      /\ \A b, r : Flash(b, r)' = Flash(b, r)
      /\ UNCHANGED <<dram, nand>>
  BY SameView DEF flashVars
<1>2. EntsInv' /\ ProgInv' /\ EraseInv'
  BY <1>1 DEF IInv, EntsInv, ProgInv, EraseInv
<1>3. ReadInv'
  <2> SUFFICES ASSUME NEW b \in Banks, InBank(b).op = "read", ~InBank(b).sata
               PROVE  \E i \in Bufs :
                 /\ InBank(b).buf = CacheBuf(b, i)
                 /\ \/ incomplete[b] = i /\ ents[b][i].dirty
                    \/ Filling(b, i)' /\ (place' = "enqueue" =>
                                             InBank(b).parts \cap cmd'.parts = {})
    BY <1>1 DEF ReadInv
  <2> QED BY DEF IInv, ReadInv
<1>4. BufInv'
  BY <1>1 DEF IInv, BufInv
<1>5. FlashInv'
  BY <1>1 DEF IInv, FlashInv, Hits
<1> QED BY <1>2, <1>3, <1>4, <1>5

LEMMA SlotKeeps ==
  ASSUME IInv, UNCHANGED <<flashVars, ringVars>>, place' = "rlimit" => place = "rlimit"
  PROVE  SlotInv'
<1>1. /\ \A b : InBank(b)' = InBank(b)
      /\ UNCHANGED <<dram, nand, rdId, rdPtr, ready, want>>
  BY SameView DEF flashVars, ringVars
<1>2. UNCHANGED <<NextRd, Window>>
  BY <1>1 DEF NextRd, Window, Before
<1>3. \A b \in Banks : ToHost(b)' = ToHost(b)
  BY <1>1 DEF ToHost
<1>4. \A k \in Slots : SlotRight(k)' = SlotRight(k)
  BY <1>1 DEF SlotRight
<1>5. SlotRight(rdId) => SlotRight(rdId)'
  BY <1>1 DEF SlotRight
<1> QED BY <1>1, <1>2, <1>3, <1>4, <1>5 DEF IInv, SlotInv

LEMMA DirtyFinite ==
  ASSUME NEW b PROVE IsFiniteSet(DirtyBufs(b)) /\ Cardinality(DirtyBufs(b)) \in Nat
<1>1. IsFiniteSet(Bufs)
  BY Consts, FS_Interval DEF Bufs
<1>2. IsFiniteSet(DirtyBufs(b))
  BY <1>1, FS_Subset DEF DirtyBufs
<1> QED BY <1>2, FS_CardinalityType

LEMMA CountKeeps ==
  ASSUME IInv, UNCHANGED <<ents, next>>,
         \/ ops' = ops /\ (cmd'.kind = "write" => cmd.kind = "write")
         \/ ops' = ops + 1,
         pc \in {"summary", "dequeue"} => pc' \in {"summary", "dequeue"} /\ ret' = ret
  PROVE  CountInv'
<1> SUFFICES ASSUME NEW b \in Banks
             PROVE  next[b] > 0 /\ next[b] + 2 * Cardinality(DirtyBufs(b)) + Owed'
                                    <= 1 + 2 * ops' + Lent(b)'
  BY DEF CountInv, DirtyBufs
<1>1. next[b] > 0 /\ next[b] + 2 * Cardinality(DirtyBufs(b)) + Owed <= 1 + 2 * ops + Lent(b)
  BY DEF IInv, CountInv
<1>2. next[b] \in Int /\ ops \in Int /\ Cardinality(DirtyBufs(b)) \in Int
  BY DirtyFinite, Consts DEF IInv, TypeOK, MapTypeOK, HostTypeOK
<1>3. Lent(b) \in {0, 1} /\ Lent(b)' \in {0, 1} /\ (Lent(b) = 1 => Lent(b)' = 1)
  BY DEF Lent
<1>4. Owed \in {0, 2} /\ Owed' \in {0, 2}
      /\ (ops' = ops + 1 \/ (ops' = ops /\ (Owed' = 2 => Owed = 2)))
  BY DEF Owed
<1>5. CASE ops' = ops + 1
  BY <1>1, <1>2, <1>3, <1>4, <1>5
<1>6. CASE ops' = ops /\ (Owed' = 2 => Owed = 2)
  BY <1>1, <1>2, <1>3, <1>4, <1>6
<1> QED BY <1>4, <1>5, <1>6

LEMMA FlushKeeps ==
  ASSUME IInv, UNCHANGED ents,
         place' = "flush" => (place = "flush" /\ UNCHANGED <<done, fbank>>) \/ fbank' = 0,
         place' = "finish" => place = "finish"
  PROVE  FlushInv'
BY Consts DEF IInv, FlushInv, Empty, DirtyBufs, Banks

LEMMA HostCmdStep == ASSUME PromptAccept, IInv, HostCmd PROVE IInv'
<1> USE DEF HostCmd, At, cacheVars, ringVars, flashVars
<1>1. PICK c \in Cmds :
        /\ cmd' = c
        /\ pc' = CASE c.kind = "read" -> "rlookup" [] c.kind = "flush" -> "flush"
                  [] OTHER -> "pool"
  OBVIOUS
<1>2. c.kind \in {"write", "read", "flush", "idle"}
  BY PipeAssumption
<1>3. /\ c.kind = "read" => pc' = "rlookup"
      /\ c.kind = "flush" => pc' = "flush"
      /\ c.kind \in {"write", "idle"} => pc' = "pool"
  BY <1>1
<1>4. place = "idle" /\ place' = pc' /\ place' \in {"rlookup", "flush", "pool"}
  BY <1>2, <1>3 DEF place
<1>5. TypeOK'
  <2>1. ops' \in 0..MaxOps
    BY Consts DEF IInv, TypeOK, HostTypeOK
  <2>2. HostTypeOK'
    BY <1>1, <2>1 DEF IInv, TypeOK, HostTypeOK
  <2>3. ThreadTypeOK'
    BY <1>2, <1>3, Consts DEF IInv, TypeOK, ThreadTypeOK, Labels
  <2>4. CtrlTypeOK' /\ CacheTypeOK' /\ MapTypeOK' /\ RingTypeOK'
    BY DEF IInv, TypeOK, CtrlTypeOK, CacheTypeOK, MapTypeOK, RingTypeOK
  <2> QED BY <2>2, <2>3, <2>4 DEF TypeOK
<1>6. OneInv'
  BY <1>2, <1>3, <1>4 DEF IInv, OneInv, WrFree, BankIdle
<1>7. ThreadInv'
  BY <1>1, <1>2, <1>3, <1>4 DEF ThreadInv, Holding
<1>8. EntsInv' /\ ProgInv' /\ ReadInv' /\ EraseInv' /\ BufInv' /\ FlashInv'
  BY <1>4, LocalKeeps DEF BeingReused, Filling
<1>9. FillInv'
  BY <1>4 DEF FillInv, Filling
<1>10. SlotInv' /\ FlushInv'
  BY <1>4, SlotKeeps, FlushKeeps
<1>11. CountInv'
  BY CountKeeps
<1> QED BY <1>5, <1>6, <1>7, <1>8, <1>9, <1>10, <1>11 DEF IInv

LEMMA DataArrivesStep == ASSUME IInv, DataArrives PROVE IInv'
<1> USE DEF DataArrives, cacheVars, ringVars, localVars, flashVars
<1>1. UNCHANGED <<place, bk>>
  BY DEF place, bk
<1>2. \A b, i : BeingReused(b, i)' = BeingReused(b, i) /\ Filling(b, i)' = Filling(b, i)
  BY <1>1 DEF BeingReused, Filling
<1>3. TypeOK'
  BY DEF IInv, TypeOK, CtrlTypeOK, CacheTypeOK, MapTypeOK, RingTypeOK, ThreadTypeOK, HostTypeOK
<1>4. OneInv' /\ ThreadInv'
  BY <1>1 DEF IInv, OneInv, WrFree, BankIdle, ThreadInv, Hits
<1>5. EntsInv' /\ ProgInv' /\ ReadInv' /\ EraseInv' /\ BufInv' /\ FlashInv'
  BY <1>1, <1>2, LocalKeeps
<1>6. FillInv'
  BY <1>1, SameView DEF IInv, FillInv, Filling
<1>7. SlotInv' /\ FlushInv' /\ CountInv'
  BY <1>1, SlotKeeps, FlushKeeps, CountKeeps
<1> QED BY <1>3, <1>4, <1>5, <1>6, <1>7 DEF IInv

LEMMA SendPageStep == ASSUME IInv, SendPage PROVE IInv'
<1> USE DEF SendPage, cacheVars, localVars, flashVars, hostVars
<1>1. UNCHANGED <<place, bk>>
  BY DEF place, bk
<1>2. \A b, i : BeingReused(b, i)' = BeingReused(b, i) /\ Filling(b, i)' = Filling(b, i)
  BY <1>1 DEF BeingReused, Filling
<1>3. rdPtr \in Slots /\ rdId \in Slots /\ rdPtr # rdId
  BY WindowFacts DEF IInv, TypeOK, RingTypeOK, SlotInv
<1>4. /\ rdPtr' \in Slots /\ Window' = Window \ {rdPtr} /\ Window \subseteq Slots
      /\ NextRd' = NextRd /\ (NextRd # rdPtr => NextRd # rdPtr')
  BY <1>3, WindowSent, WindowFacts
<1>5. TypeOK'
  <2>1. RingTypeOK'
    BY <1>4 DEF IInv, TypeOK, RingTypeOK
  <2> QED BY <2>1 DEF IInv, TypeOK, CtrlTypeOK, CacheTypeOK, MapTypeOK, ThreadTypeOK, HostTypeOK
<1>6. OneInv' /\ ThreadInv'
  BY <1>1 DEF IInv, OneInv, WrFree, BankIdle, ThreadInv, Hits
<1>7. EntsInv' /\ ProgInv' /\ ReadInv' /\ EraseInv' /\ BufInv' /\ FlashInv'
  BY <1>1, <1>2, LocalKeeps
<1>8. FillInv'
  BY <1>1, SameView DEF IInv, FillInv, Filling
<1>9. FlushInv' /\ CountInv'
  BY <1>1, FlushKeeps, CountKeeps
<1>10. SlotInv'
  <2>1. \A k \in Slots : ready'[k] <=> ready[k] /\ k # rdPtr
    BY <1>3 DEF IInv, TypeOK, RingTypeOK
  <2>2. /\ \A b : InBank(b)' = InBank(b)
        /\ \A b : ToHost(b)' = ToHost(b)
        /\ \A k \in Slots : SlotRight(k) => SlotRight(k)'
        /\ SlotRight(rdId) => SlotRight(rdId)'
    BY SameView DEF ToHost, SlotRight
  <2>3. \A k \in Slots : ready'[k] => k \in Window' /\ SlotRight(k)'
    BY <1>4, <2>1, <2>2 DEF IInv, SlotInv
  <2>4. \A k \in Window' :
          ready'[k] \/ \E b \in Banks : ToHost(b)' /\ InBank(b)'.buf = RdBuf(k)
    BY <1>4, <2>1, <2>2 DEF IInv, SlotInv
  <2>5. \A b \in Banks : ToHost(b)' =>
          \E k \in Window' :
            /\ InBank(b)'.buf = RdBuf(k) /\ ~ready'[k] /\ InBank(b)'.parts = Part
            /\ \A p \in Part : want[k][p] # 0 => nand[b][InBank(b)'.row][p] = want[k][p]
    BY <1>4, <2>1, <2>2 DEF IInv, SlotInv
  <2>6. \A b, c \in Banks : ToHost(b)' /\ ToHost(c)' /\ InBank(b)'.buf = InBank(c)'.buf => b = c
    BY <2>2 DEF IInv, SlotInv
  <2>7. place' = "rlimit" => NextRd' # rdPtr' /\ SlotRight(rdId)'
    BY <1>1, <1>4, <2>2 DEF IInv, SlotInv
  <2> QED BY <2>3, <2>4, <2>5, <2>6, <2>7 DEF SlotInv
<1> QED BY <1>5, <1>6, <1>7, <1>8, <1>9, <1>10 DEF IInv

-----------------------------------------------------------------------------
(* Steps of the thread that issue nothing.                                 *)

\* A page in the buffer is found there; it is in no other buffer.
LEMMA FoundPage ==
  ASSUME IInv, NEW l \in Lpn, Hits(l) # {}
  PROVE  /\ FirstHit(l) \in Hits(l) /\ FirstHit(l) \in Bufs /\ Hits(l) = {FirstHit(l)}
         /\ ents[BankOf(l)][FirstHit(l)].lpn = l
<1>1. PICK i \in Hits(l) : TRUE
  OBVIOUS
<1>2. /\ BankOf(l) \in Banks /\ l # NoLpn
      /\ \A j \in Hits(l) : j \in Bufs /\ ents[BankOf(l)][j].lpn = l
  BY Consts DEF Hits
<1>3. Hits(l) = {i} /\ i \in Nat
  <2>1. \A j \in Hits(l) : j = i
    BY <1>1, <1>2 DEF IInv, EntsInv
  <2> QED BY <1>1, <1>2, <2>1, Consts
<1> QED BY <1>3, <1>2 DEF FirstHit

LEMMA FoundHit ==
  ASSUME IInv, cmd.lpn \in Lpn, Hits(cmd.lpn) # {}
  PROVE  FirstHit(cmd.lpn) \in Hits(cmd.lpn) /\ FirstHit(cmd.lpn) \in Bufs
BY FoundPage

\* Only one of the types changes in most steps of the thread.
LEMMA ThreadTypes ==
  ASSUME TypeOK, UNCHANGED <<flashVars, ents, lru, incomplete, pool, vt, map, next, ringVars,
                             arrived, newest, ops>>,
         stall' \in [Banks -> BOOLEAN], ThreadTypeOK', cmd' \in {cmd, NoHostCmd}
  PROVE  TypeOK'
<1> USE DEF flashVars, ringVars
<1>1. CtrlTypeOK' /\ MapTypeOK' /\ RingTypeOK'
  BY DEF TypeOK, CtrlTypeOK, MapTypeOK, RingTypeOK
<1>2. CacheTypeOK' /\ HostTypeOK'
  BY DEF TypeOK, CacheTypeOK, HostTypeOK
<1> QED BY <1>1, <1>2 DEF TypeOK

LEMMA WriteLookupStep == ASSUME PromptAccept, IInv, WriteLookup PROVE IInv'
<1> USE DEF WriteLookup, At, flashVars, cacheVars, ringVars, hostVars
<1>1. place = "data" /\ cmd.kind = "write" /\ comp /\ cmd.lpn \in Lpn /\ bk \in Banks
  BY CmdTypes DEF place, IInv, ThreadInv
<1>2. UNCHANGED bk /\ \A l : Hits(l)' = Hits(l)
  BY DEF bk, Hits
<1>3. place' = pc' /\ place' \in {"enqueue", "clean"}
  BY DEF place
<1>4. place' = "enqueue" => buf' \in Hits(cmd.lpn) /\ Hits(cmd.lpn) # {} /\ buf' \in Bufs
  BY <1>1, <1>3, FoundHit
<1>5. place' = "clean" => Hits(cmd.lpn) = {}
  BY <1>3
<1>6. TypeOK'
  <2>1. ThreadTypeOK'
    BY <1>4, <1>3, Consts DEF IInv, TypeOK, ThreadTypeOK, Labels, Bufs
  <2> QED BY <2>1, ThreadTypes DEF IInv, TypeOK, CacheTypeOK
<1>7. OneInv'
  BY <1>3 DEF IInv, OneInv, WrFree, BankIdle
<1>8. ThreadInv'
  BY <1>1, <1>2, <1>3, <1>4, <1>5 DEF IInv, ThreadInv, Holding
<1>9. EntsInv' /\ ProgInv' /\ ReadInv' /\ EraseInv' /\ BufInv' /\ FlashInv'
  BY <1>1, LocalKeeps DEF BeingReused, Filling
<1>10. FillInv'
  <2>1. ~Filling(bk, buf)'
    BY <1>1, <1>3 DEF Filling
  <2>2. place' = "enqueue" => \A p \in Part :
           newest[cmd.lpn][p] # 0 => Later(bk, CacheBuf(bk, buf'), p) = newest[cmd.lpn][p]
    <3> SUFFICES ASSUME place' = "enqueue", NEW p \in Part, newest[cmd.lpn][p] # 0
                 PROVE  Later(bk, CacheBuf(bk, buf'), p) = newest[cmd.lpn][p]
      OBVIOUS
    <3>1. ents[bk][buf'].lpn = cmd.lpn /\ buf' \in Bufs /\ cmd.lpn # NoLpn
      BY <1>1, <1>4, Consts DEF Hits, bk
    <3>2. ~BeingReused(bk, buf')
      BY <1>1 DEF BeingReused
    <3> QED BY <1>1, <3>1, <3>2 DEF IInv, BufInv
  <2> QED BY <1>2, <1>3, <2>1, <2>2, SameView DEF FillInv, Filling
<1>11. SlotInv' /\ FlushInv' /\ CountInv'
  BY <1>3, SlotKeeps, FlushKeeps, CountKeeps
<1> QED BY <1>6, <1>7, <1>8, <1>9, <1>10, <1>11 DEF IInv

LEMMA CleanFoundStep == ASSUME PromptAccept, IInv, CleanFound PROVE IInv'
<1> USE DEF CleanFound, At, flashVars, ringVars, hostVars
<1>1. /\ place = "clean" /\ cmd.kind = "write" /\ comp /\ cmd.lpn \in Lpn /\ bk \in Banks
      /\ Hits(cmd.lpn) = {}
  BY CmdTypes DEF place, IInv, ThreadInv
<1>2. UNCHANGED bk /\ \A l : Hits(l)' = Hits(l)
  BY DEF bk, Hits
<1>3. place' = pc' /\ place' \in {"enqueue", "prewait"}
  BY DEF place
<1>4. buf' \in Bufs /\ ~ents[bk][buf'].dirty
  BY DEF LruLast, DirtyBufs
<1>5. place' = "prewait" => map[cmd.lpn] # 0 /\ stall'[bk]
  BY <1>1, <1>3 DEF Partial, IInv, TypeOK, CacheTypeOK
<1>6. TypeOK'
  <2>1. ThreadTypeOK' /\ stall' \in [Banks -> BOOLEAN]
    BY <1>1, <1>3, <1>4 DEF IInv, TypeOK, ThreadTypeOK, CacheTypeOK, Labels
  <2> QED BY <2>1, ThreadTypes DEF IInv
<1>7. OneInv'
  BY <1>3 DEF IInv, OneInv, WrFree, BankIdle
<1>8. ThreadInv'
  BY <1>1, <1>2, <1>3, <1>4, <1>5 DEF IInv, ThreadInv, Holding
<1>9. EntsInv' /\ ProgInv' /\ ReadInv' /\ EraseInv' /\ BufInv' /\ FlashInv'
  BY <1>1, LocalKeeps DEF BeingReused, Filling
<1>10. FillInv'
  <2>1. ~Filling(bk, buf)'
    BY <1>1, <1>3 DEF Filling
  <2>2. place' = "enqueue" => \A p \in Part \ cmd.parts : newest[cmd.lpn][p] = 0
    <3>1. place' = "enqueue" => map[cmd.lpn] = 0 \/ cmd.parts = Part
      BY <1>3 DEF Partial
    <3>2. map[cmd.lpn] = 0 => \A p \in Part : newest[cmd.lpn][p] = 0
      BY <1>1 DEF IInv, FlashInv
    <3> QED BY <3>1, <3>2
  <2> QED BY <1>3, <2>1, <2>2 DEF FillInv
<1>11. SlotInv' /\ FlushInv' /\ CountInv'
  BY <1>3, SlotKeeps, FlushKeeps, CountKeeps
<1> QED BY <1>6, <1>7, <1>8, <1>9, <1>10, <1>11 DEF IInv

LEMMA CenterWrStep == ASSUME PromptAccept, IInv, CenterWr PROVE IInv'
<1> USE DEF CenterWr, At, flashVars, cacheVars, ringVars, localVars, hostVars
<1>1. place = "centerwr" /\ cmd.kind = "write" /\ cmd.lpn \in Lpn /\ bk \in Banks
  BY CmdTypes DEF place, IInv, ThreadInv
<1>2. UNCHANGED bk /\ \A l : Hits(l)' = Hits(l)
  BY DEF bk, Hits
<1>3. place' = pc' /\ place' = "center"
  BY DEF place
<1>4. \A b, i : BeingReused(b, i)' = BeingReused(b, i) /\ Filling(b, i)' = Filling(b, i)
  BY <1>1, <1>2, <1>3 DEF BeingReused, Filling
<1>5. TypeOK'
  <2>1. ThreadTypeOK' /\ stall' \in [Banks -> BOOLEAN]
    BY <1>3 DEF IInv, TypeOK, ThreadTypeOK, CacheTypeOK, Labels
  <2> QED BY <2>1, ThreadTypes DEF IInv
<1>6. OneInv'
  BY <1>3 DEF IInv, OneInv, WrFree, BankIdle
<1>7. ThreadInv'
  BY <1>1, <1>2, <1>3 DEF IInv, ThreadInv, Holding
<1>8. EntsInv' /\ ProgInv' /\ ReadInv' /\ EraseInv' /\ BufInv' /\ FlashInv'
  BY <1>3, <1>4, LocalKeeps
<1>9. FillInv'
  BY <1>1, <1>2, <1>3, SameView DEF IInv, FillInv, Filling
<1>10. SlotInv' /\ FlushInv' /\ CountInv'
  BY <1>3, SlotKeeps, FlushKeeps, CountKeeps
<1> QED BY <1>5, <1>6, <1>7, <1>8, <1>9, <1>10 DEF IInv

\* The end of a wait for a bank: it has nothing to do.
LEMMA WaitEndStep ==
  ASSUME PromptAccept, IInv, NEW p, NEW then, NEW released \in BOOLEAN, At(p), BankIdle(bk),
         pc' = then,
         <<p, then, released>> \in {<<"prewait", "preread", FALSE>>, <<"rwait", "rissue", FALSE>>,
                                    <<"center", "enqueue", TRUE>>},
         stall' = [stall EXCEPT ![bk] = ~released],
         UNCHANGED <<flashVars, ents, lru, incomplete, pool, vt, map, next, ret,
                     ringVars, localVars, hostVars>>
  PROVE  IInv'
<1> USE DEF At, flashVars, ringVars, localVars, hostVars
<1>1. /\ place = p /\ cmd.kind \in {"read", "write"} /\ cmd.lpn \in Lpn /\ bk \in Banks
      /\ p \in {"prewait", "rwait", "center"}
      /\ p = "rwait" <=> cmd.kind = "read"
  BY CmdTypes DEF place, IInv, ThreadInv
<1>2. UNCHANGED bk /\ \A l : Hits(l)' = Hits(l)
  BY DEF bk, Hits
<1>3. place' = then
  BY DEF place
<1>4. WrFree /\ Quiet(bk) /\ InBank(bk).op = "none"
  BY <1>1, ThreadFree DEF IInv, Quiet, NoCmd
<1>5. TypeOK'
  <2>1. ThreadTypeOK' /\ stall' \in [Banks -> BOOLEAN]
    BY <1>1, <1>3 DEF IInv, TypeOK, ThreadTypeOK, CacheTypeOK, Labels
  <2> QED BY <2>1, ThreadTypes DEF IInv
<1>6. OneInv'
  BY <1>2, <1>3, <1>4 DEF IInv, OneInv, WrFree, BankIdle
<1>7. stall'[bk] = ~released
  BY <1>1 DEF IInv, TypeOK, CacheTypeOK
<1>8. ThreadInv'
  BY <1>1, <1>2, <1>3, <1>7 DEF IInv, ThreadInv, Holding
<1>9. EntsInv' /\ ProgInv' /\ ReadInv' /\ EraseInv' /\ BufInv' /\ FlashInv'
  <2>1. \A b \in Banks, i \in Bufs : BeingReused(b, i) => BeingReused(b, i)'
    BY <1>1, <1>2, <1>3 DEF BeingReused
  <2>2. \A b \in Banks, i \in Bufs : Filling(b, i) => InBank(b).op # "read"
    BY <1>4 DEF Filling
  <2> QED BY <2>1, <2>2, LocalKeeps
<1>10. FillInv'
  <2>1. Filling(bk, buf)' => InBank(bk)'.op = "none"
    BY <1>2, <1>4, SameView
  <2>2. place' = "enqueue" => \A q \in Part :
           newest[cmd.lpn][q] # 0 => Later(bk, CacheBuf(bk, buf), q) = newest[cmd.lpn][q]
    BY <1>1, <1>3 DEF IInv, FillInv
  <2>3. place' \notin {"center", "centerwr"}
    BY <1>3
  <2> QED BY <1>2, <2>1, <2>2, <2>3, SameView DEF FillInv
<1>11. SlotInv' /\ FlushInv' /\ CountInv'
  BY <1>1, <1>3, SlotKeeps, FlushKeeps, CountKeeps
<1> QED BY <1>5, <1>6, <1>8, <1>9, <1>10, <1>11 DEF IInv

LEMMA ReadLookupStep == ASSUME PromptAccept, IInv, ReadLookup PROVE IInv'
<1> USE DEF ReadLookup, At, flashVars, cacheVars, ringVars, hostVars
<1>1. place = "rlookup" /\ cmd.kind = "read" /\ cmd.lpn \in Lpn /\ bk \in Banks
  BY CmdTypes DEF place, IInv, ThreadInv
<1>2. UNCHANGED bk /\ \A l : Hits(l)' = Hits(l)
  BY DEF bk, Hits
<1>3. place' = pc' /\ place' \in {"rhit", "rwait", "rzero"}
  BY DEF place
<1>4. /\ place' = "rhit" => buf' \in Hits(cmd.lpn) /\ buf' \in Bufs
      /\ place' # "rhit" => buf' = buf /\ Hits(cmd.lpn) = {}
      /\ place' = "rwait" => stall'[bk] /\ map[cmd.lpn] # 0
      /\ place' = "rzero" => map[cmd.lpn] = 0
      /\ stall' \in [Banks -> BOOLEAN]
  BY <1>1, <1>3, FoundHit DEF IInv, TypeOK, CacheTypeOK
<1>5. TypeOK'
  <2>1. ThreadTypeOK'
    BY <1>3, <1>4 DEF IInv, TypeOK, ThreadTypeOK, Labels
  <2> QED BY <1>4, <2>1, ThreadTypes DEF IInv
<1>6. OneInv'
  BY <1>3 DEF IInv, OneInv, WrFree, BankIdle
<1>7. ThreadInv'
  BY <1>1, <1>2, <1>3, <1>4 DEF IInv, ThreadInv, Holding
<1>8. EntsInv' /\ ProgInv' /\ ReadInv' /\ EraseInv' /\ BufInv' /\ FlashInv'
  BY <1>1, LocalKeeps DEF BeingReused, Filling
<1>9. FillInv'
  BY <1>3 DEF FillInv, Filling
<1>10. SlotInv' /\ FlushInv' /\ CountInv'
  BY <1>3, SlotKeeps, FlushKeeps, CountKeeps
<1> QED BY <1>5, <1>6, <1>7, <1>8, <1>9, <1>10 DEF IInv

LEMMA ReadLimitStep == ASSUME PromptAccept, IInv, ReadLimit PROVE IInv'
<1> USE DEF ReadLimit, At, EndCmd, flashVars, cacheVars, localVars
<1>1. place = "rlimit" /\ place' = "idle"
  BY DEF place
<1>2. rdPtr \in Slots /\ rdId \in Slots
  BY DEF IInv, TypeOK, RingTypeOK
<1>3. /\ NextRd # rdPtr /\ SlotRight(rdId) /\ rdId' \in Slots
      /\ Before(NextRd) = Window \cup {rdId} /\ Window \subseteq Slots
      /\ rdId' = NextRd
  BY <1>1, <1>2, WindowFacts DEF IInv, SlotInv
<1>4. TypeOK'
  <2>1. ThreadTypeOK' /\ RingTypeOK'
    BY <1>1, <1>3 DEF IInv, TypeOK, ThreadTypeOK, RingTypeOK, Labels
  <2>2. CtrlTypeOK' /\ CacheTypeOK' /\ MapTypeOK' /\ HostTypeOK'
    BY DEF IInv, TypeOK, CtrlTypeOK, CacheTypeOK, MapTypeOK, HostTypeOK
  <2> QED BY <2>1, <2>2 DEF TypeOK
<1>5. OneInv' /\ ThreadInv'
  BY <1>1 DEF IInv, OneInv, WrFree, BankIdle, ThreadInv, Holding
<1>6. EntsInv' /\ ProgInv' /\ ReadInv' /\ EraseInv' /\ BufInv' /\ FlashInv'
  BY <1>1, LocalKeeps DEF BeingReused, Filling
<1>7. FillInv'
  BY <1>1 DEF FillInv, Filling
<1>8. FlushInv' /\ CountInv'
  BY <1>1, FlushKeeps, CountKeeps DEF NoHostCmd
<1>9. SlotInv'
  <2>1. \A b \in Banks : InBank(b).op = "none" /\ InBank(b)'.op = "none"
    <3>1. \A b \in Banks : InBank(b) = NoCmd /\ InBank(b)' = NoCmd
      BY Consts, SameView DEF Finished, AllIdle, InBank, BankIdle
    <3> QED BY <3>1 DEF NoCmd
  <2>2. \A b \in Banks : ~ToHost(b) /\ ~ToHost(b)'
    BY <2>1 DEF ToHost
  <2>3. Window' = Window \cup {rdId}
    BY <1>3 DEF Window, Before
  <2>4. \A k \in Slots : ready'[k] <=> k \in Window'
    BY <1>3, <2>3
  <2>5. \A k \in Slots : SlotRight(k) => SlotRight(k)'
    BY DEF SlotRight
  <2>6. \A k \in Window : SlotRight(k)
    BY <1>3, <2>2 DEF IInv, SlotInv
  <2>7. \A k \in Window' : k \in Slots /\ ready'[k] /\ SlotRight(k)'
    BY <1>2, <1>3, <2>3, <2>4, <2>5, <2>6
  <2> QED BY <1>1, <2>2, <2>4, <2>7 DEF SlotInv
<1> QED BY <1>4, <1>5, <1>6, <1>7, <1>8, <1>9 DEF IInv

LEMMA FlushRoundStep == ASSUME PromptAccept, IInv, FlushRound PROVE IInv'
<1> USE DEF FlushRound, At, flashVars, cacheVars, ringVars, hostVars
<1>1. place = "flush" /\ place' = pc' /\ pc' \in {"flush", "finish"}
  BY DEF place
<1>2. TypeOK'
  <2>0. fbank' \in 0..NumBanks /\ done' \in BOOLEAN
    <3>1. fbank \in 0..NumBanks /\ done \in BOOLEAN /\ 0 \in 0..NumBanks
      BY Consts DEF IInv, TypeOK, ThreadTypeOK
    <3> QED BY <3>1
  <2>1. pc' \in Labels
    BY <1>1 DEF Labels
  <2>2. ThreadTypeOK' /\ stall' \in [Banks -> BOOLEAN]
    BY <2>0, <2>1 DEF IInv, TypeOK, ThreadTypeOK, CacheTypeOK
  <2> QED BY <2>2, ThreadTypes DEF IInv
<1>3. OneInv' /\ ThreadInv'
  BY <1>1 DEF IInv, OneInv, WrFree, BankIdle, ThreadInv, Holding
<1>4. EntsInv' /\ ProgInv' /\ ReadInv' /\ EraseInv' /\ BufInv' /\ FlashInv'
  BY <1>1, LocalKeeps DEF BeingReused, Filling
<1>5. FillInv'
  BY <1>1 DEF FillInv, Filling
<1>6. SlotInv' /\ CountInv'
  BY <1>1, SlotKeeps, CountKeeps
<1>7. FlushInv'
  BY <1>1, Consts DEF IInv, FlushInv, Empty, DirtyBufs, Banks
<1> QED BY <1>2, <1>3, <1>4, <1>5, <1>6, <1>7 DEF IInv

LEMMA FlushDoneStep == ASSUME PromptAccept, IInv, FlushDone PROVE IInv'
<1> USE DEF FlushDone, At, EndCmd, flashVars, cacheVars, ringVars, localVars
<1>1. place = "finish" /\ place' = "idle"
  BY DEF place
<1>2. TypeOK'
  <2>1. ThreadTypeOK' /\ stall' \in [Banks -> BOOLEAN]
    BY <1>1 DEF IInv, TypeOK, ThreadTypeOK, CacheTypeOK, Labels
  <2> QED BY <2>1, ThreadTypes DEF IInv
<1>3. OneInv' /\ ThreadInv'
  BY <1>1 DEF IInv, OneInv, WrFree, BankIdle, ThreadInv, Holding
<1>4. EntsInv' /\ ProgInv' /\ ReadInv' /\ EraseInv' /\ BufInv' /\ FlashInv'
  BY <1>1, LocalKeeps DEF BeingReused, Filling
<1>5. FillInv'
  BY <1>1 DEF FillInv, Filling
<1>6. SlotInv' /\ FlushInv' /\ CountInv'
  BY <1>1, SlotKeeps, FlushKeeps, CountKeeps DEF NoHostCmd
<1> QED BY <1>2, <1>3, <1>4, <1>5, <1>6 DEF IInv

LEMMA SummaryDoneStep == ASSUME PromptAccept, IInv, SummaryDone PROVE IInv'
<1> USE DEF SummaryDone, At, flashVars, ringVars, localVars, hostVars
<1>1. UNCHANGED <<place, bk>> /\ \A l : Hits(l)' = Hits(l)
  BY DEF place, bk, Hits
<1>2. \A b, i : BeingReused(b, i)' = BeingReused(b, i) /\ Filling(b, i)' = Filling(b, i)
  BY <1>1 DEF BeingReused, Filling
<1>3. TypeOK'
  <2>1. ThreadTypeOK' /\ stall' \in [Banks -> BOOLEAN]
    BY DEF IInv, TypeOK, ThreadTypeOK, CacheTypeOK, Labels
  <2> QED BY <2>1, ThreadTypes DEF IInv
<1>4. OneInv'
  <2>1. place \notin {"preread", "rissue"}
    BY PlaceOfWait DEF IInv, Pooling
  <2> QED BY <1>1, <2>1 DEF IInv, OneInv, WrFree, BankIdle
<1>5. ThreadInv'
  <2>1. place \in Holding => stall'[bk]
    <3>1. place \in Holding => bk \in Banks /\ bk # ret.bank /\ stall[bk]
      BY CmdTypes DEF IInv, ThreadInv, Holding
    <3> QED BY <3>1 DEF IInv, TypeOK, CacheTypeOK
  <2> QED BY <1>1, <2>1 DEF IInv, ThreadInv
<1>6. EntsInv' /\ ProgInv' /\ ReadInv' /\ EraseInv' /\ BufInv' /\ FlashInv'
  BY <1>1, <1>2, LocalKeeps
<1>7. FillInv'
  BY <1>1, SameView DEF IInv, FillInv, Filling
<1>8. SlotInv' /\ FlushInv' /\ CountInv'
  BY <1>1, SlotKeeps, FlushKeeps, CountKeeps
<1> QED BY <1>3, <1>4, <1>5, <1>6, <1>7, <1>8 DEF IInv

-----------------------------------------------------------------------------
(* dequeue and the erasure of victim blocks.                               *)

LEMMA DirtyNotReused ==
  ASSUME IInv, NEW b \in Banks, NEW i \in Bufs, ents[b][i].dirty
  PROVE  ~BeingReused(b, i)
BY DEF IInv, ThreadInv, BeingReused, Hits, bk

\* The thread pools: it stays where it is, or leaves the head of its loop.
PoolFrame ==
  /\ UNCHANGED <<ringVars, buf, comp, newest, ops, arrived>>
  /\ \/ UNCHANGED <<place, cmd>> /\ place \in Pooling
     \/ place = "pool" /\ place' = "data" /\ cmd.kind = "write" /\ UNCHANGED cmd
     \/ place = "pool" /\ place' = "idle" /\ cmd' = NoHostCmd

LEMMA FrameKeeps ==
  ASSUME PoolFrame, \A x \in Banks, j \in Bufs : ents'[x][j].lpn = ents[x][j].lpn
  PROVE  /\ \A x \in Banks, j \in Bufs :
              BeingReused(x, j)' = BeingReused(x, j) /\ Filling(x, j)' = Filling(x, j)
         /\ place' # "enqueue" /\ place # "enqueue"
         /\ cmd'.kind = "write" => cmd.kind = "write"
<1>1. CASE UNCHANGED <<place, cmd>> /\ place \in Pooling
  <2>1. UNCHANGED <<bk, place, cmd, buf, comp>>
    BY <1>1 DEF bk, PoolFrame
  <2>2. \A x \in Banks, j \in Bufs : Filling(x, j)' = Filling(x, j)
    BY <2>1 DEF Filling
  <2>3. \A x \in Banks, j \in Bufs : BeingReused(x, j)' = BeingReused(x, j)
    BY <2>1 DEF BeingReused
  <2> QED BY <1>1, <2>2, <2>3 DEF Pooling
<1>2. CASE place = "pool" /\ place' \in {"data", "idle"}
  <2>1. cmd'.kind = "write" => cmd.kind = "write"
    BY <1>2 DEF PoolFrame, NoHostCmd
  <2> QED BY <1>2, <2>1 DEF Filling, BeingReused
<1> QED BY <1>1, <1>2 DEF PoolFrame

\* A program or an erasure is issued to an idle bank.
LEMMA IssueKeeps ==
  ASSUME IInv, WrFree, NEW b \in Banks, BankIdle(b), NEW c \in ProgCmd \cup EraseCmd,
         c.bank = b, Issue(c), UNCHANGED <<bsp, dram, nand>>, PoolFrame,
         place \in Holding => b # bk,
         \A x \in Banks : x # b => incomplete'[x] = incomplete[x],
         \A x \in Banks, i \in Bufs :
           /\ ents'[x][i].lpn = ents[x][i].lpn
           /\ x # b => ents'[x][i].dirty = ents[x][i].dirty
  PROVE  EntsInv' /\ ReadInv' /\ BufInv' /\ FillInv' /\ SlotInv'
<1>1. /\ InBank(b) = NoCmd /\ InBank(b)' = c
      /\ \A x \in Banks : x # b => InBank(x)' = InBank(x)
  BY IssueView DEF IInv, Cmd
<1>2. c.op \in {"prog", "erase"} /\ NoCmd.op = "none"
  BY DEF ProgCmd, EraseCmd, NoCmd
<1>3. \A x \in Banks : \A f, p : Later(x, f, p)' = Later(x, f, p)
  BY <1>1, <1>2 DEF Later
<1>4. /\ \A x \in Banks, j \in Bufs :
              BeingReused(x, j)' = BeingReused(x, j) /\ Filling(x, j)' = Filling(x, j)
      /\ place' # "enqueue" /\ place # "enqueue"
  BY FrameKeeps
<1>5. EntsInv'
  BY DEF IInv, EntsInv
<1>6. ReadInv'
  BY <1>1, <1>2, <1>4 DEF IInv, ReadInv
<1>7. BufInv'
  BY <1>3, <1>4 DEF IInv, BufInv, PoolFrame
<1>8. FillInv'
  <2>1. CASE place' = "center"
    <3>1. UNCHANGED <<place, cmd, buf, comp, bk>> /\ b # bk /\ bk \in Banks /\ buf \in Bufs
      BY <2>1, CmdTypes DEF PoolFrame, Holding, bk, IInv, ThreadInv, TypeOK, ThreadTypeOK
    <3>2. InBank(bk)' = InBank(bk)
      BY <1>1, <3>1
    <3>3. \A f, p : Later(bk, f, p)' = Later(bk, f, p)
      BY <1>3, <3>1
    <3>4. Filling(bk, buf)' = Filling(bk, buf)
      BY <1>4, <3>1
    <3> QED BY <1>4, <2>1, <3>1, <3>2, <3>3, <3>4 DEF IInv, FillInv, PoolFrame
  <2>2. CASE place' # "center"
    <3>1. place' \notin {"centerwr", "center", "enqueue"}
      BY <1>4, <2>2 DEF PoolFrame, Pooling
    <3> QED BY <3>1 DEF FillInv, Filling
  <2> QED BY <2>1, <2>2
<1>9. SlotInv'
  <2>1. UNCHANGED <<rdId, rdPtr, ready, want, NextRd, Window>>
    BY DEF PoolFrame, ringVars, NextRd, Window, Before
  <2>2. \A x \in Banks : ToHost(x)' = ToHost(x)
    BY <1>1, <1>2 DEF ToHost
  <2>3. \A x \in Banks : ToHost(x) => InBank(x)' = InBank(x)
    BY <1>1, <1>2 DEF ToHost
  <2>4. \A k \in Slots : SlotRight(k)' = SlotRight(k)
    BY <2>1 DEF SlotRight
  <2>5. place' # "rlimit"
    BY DEF PoolFrame, Pooling
  <2> QED BY <2>1, <2>2, <2>3, <2>4, <2>5 DEF IInv, SlotInv
<1> QED BY <1>5, <1>6, <1>7, <1>8, <1>9

\* A dirty buffer less.
LEMMA CleanedBuf ==
  ASSUME CacheTypeOK, NEW b \in Banks, NEW i \in DirtyBufs(b),
         ents' = [ents EXCEPT ![b][i].dirty = FALSE]
  PROVE  /\ ents' \in [Banks -> [Bufs -> [lpn: Lpn \cup {NoLpn}, dirty: BOOLEAN]]]
         /\ ents'[b][i].lpn = ents[b][i].lpn /\ ~ents'[b][i].dirty
         /\ \A x \in Banks, j \in Bufs : x # b \/ j # i => ents'[x][j] = ents[x][j]
         /\ Cardinality(DirtyBufs(b)') = Cardinality(DirtyBufs(b)) - 1
         /\ Cardinality(DirtyBufs(b)) \in Nat \ {0}
         /\ \A x \in Banks : x # b => DirtyBufs(x)' = DirtyBufs(x)
<1> DEFINE Ent == [lpn: Lpn \cup {NoLpn}, dirty: BOOLEAN]
           e == [ents[b][i] EXCEPT !.dirty = FALSE]
           f == [ents[b] EXCEPT ![i] = e]
<1>1. i \in Bufs /\ ents \in [Banks -> [Bufs -> Ent]] /\ ents[b] \in [Bufs -> Ent]
  BY DEF CacheTypeOK, DirtyBufs
<1>2. ents[b][i] \in Ent
  BY <1>1
<1>3. e \in Ent /\ e.lpn = ents[b][i].lpn /\ e.dirty = FALSE
  BY <1>2
<1>4. ents' = [ents EXCEPT ![b] = f]
  OBVIOUS
<1> HIDE DEF e, Ent
<1>5. f \in [Bufs -> Ent] /\ f[i] = e /\ \A j \in Bufs : j # i => f[j] = ents[b][j]
  BY <1>1, <1>3
<1> HIDE DEF f
<1>6. ents' \in [Banks -> [Bufs -> Ent]] /\ ents'[b] = f
      /\ \A x \in Banks : x # b => ents'[x] = ents[x]
  BY <1>1, <1>4, <1>5
<1>7. /\ ents'[b][i].lpn = ents[b][i].lpn /\ ~ents'[b][i].dirty
      /\ \A x \in Banks, j \in Bufs : x # b \/ j # i => ents'[x][j] = ents[x][j]
  BY <1>3, <1>5, <1>6
<1>8. DirtyBufs(b)' = DirtyBufs(b) \ {i}
  BY <1>7 DEF DirtyBufs
<1>9. /\ Cardinality(DirtyBufs(b) \ {i}) = Cardinality(DirtyBufs(b)) - 1
      /\ Cardinality(DirtyBufs(b)) \in Nat
  BY DirtyFinite, FS_RemoveElement
<1>10. Cardinality(DirtyBufs(b)) # 0
  BY DirtyFinite, FS_EmptySet
<1>11. \A x \in Banks : x # b => DirtyBufs(x)' = DirtyBufs(x)
  BY <1>6 DEF DirtyBufs
<1> QED BY <1>6, <1>7, <1>8, <1>9, <1>10, <1>11 DEF Ent

LEMMA ProgramKeeps ==
  ASSUME IInv, WrFree, NEW b \in Banks, BankIdle(b), ProgramBuf(b), PoolFrame,
         place \in Holding => b # bk,
         pc \in {"summary", "dequeue"} => ret.bank = b,
         pc' \notin {"summary", "dequeue"}
  PROVE  /\ CtrlTypeOK' /\ CacheTypeOK' /\ map' \in [Lpn -> Row] /\ next' \in [Banks -> Row]
         /\ EntsInv' /\ ProgInv' /\ ReadInv' /\ EraseInv' /\ FillInv' /\ BufInv' /\ FlashInv'
         /\ SlotInv' /\ CountInv'
         /\ \A x \in Banks : ~BankIdle(x)' => bsp'[x].bank = x
         /\ ~WrFree' => BankIdle(wr.bank)'
         /\ \A x \in Banks, j \in Bufs : ents'[x][j].lpn = ents[x][j].lpn
         /\ \A x \in Banks, j \in Bufs : ents'[x][j].dirty => ents[x][j].dirty
         /\ \A l \in Lpn : map[l] # 0 => map'[l] # 0
<1>0. PICK r \in Row : r = next[b]
  BY DEF IInv, TypeOK, MapTypeOK
<1>1. PICK i \in Bufs :
        /\ i \in DirtyBufs(b)
        /\ Issue(Prog(b, r, CacheBuf(b, i)))
        /\ map' = [map EXCEPT ![ents[b][i].lpn] = r]
        /\ next' = [next EXCEPT ![b] = @ + 1]
        /\ ents' = [ents EXCEPT ![b][i].dirty = FALSE]
        /\ incomplete' = [incomplete EXCEPT ![b] = i]
        /\ UNCHANGED <<bsp, dram, nand, lru, stall>>
  BY <1>0 DEF ProgramBuf, LruLast
<1> DEFINE c == Prog(b, r, CacheBuf(b, i))
<1>2. r \in Row /\ r \in Nat /\ r > 0 /\ MaxOps \in Nat /\ ops \in 0..MaxOps
      /\ next \in [Banks -> Row] /\ map \in [Lpn -> Row]
      /\ Row = 0..(2 * MaxOps + 2) /\ dram[CacheBuf(b, i)] \in Content
  <2>1. next \in [Banks -> Row] /\ map \in [Lpn -> Row] /\ ops \in 0..MaxOps
    BY DEF IInv, TypeOK, MapTypeOK, HostTypeOK
  <2>2. dram[CacheBuf(b, i)] \in Content
    BY BufferTypes DEF IInv, TypeOK, CtrlTypeOK
  <2>3. r > 0
    BY <1>0 DEF IInv, CountInv
  <2> QED BY <2>1, <2>2, <2>3, Consts
<1>3. /\ c \in ProgCmd /\ c.bank = b /\ c.op = "prog" /\ c.row = r
      /\ c.buf = CacheBuf(b, i) /\ c.data = dram[CacheBuf(b, i)]
  BY <1>2, BufferTypes, Consts DEF Prog, ProgCmd
<1> HIDE DEF c
<1>4. /\ ents' \in [Banks -> [Bufs -> [lpn: Lpn \cup {NoLpn}, dirty: BOOLEAN]]]
      /\ ents'[b][i].lpn = ents[b][i].lpn /\ ~ents'[b][i].dirty
      /\ \A x \in Banks, j \in Bufs : x # b \/ j # i => ents'[x][j] = ents[x][j]
      /\ Cardinality(DirtyBufs(b)') = Cardinality(DirtyBufs(b)) - 1
      /\ Cardinality(DirtyBufs(b)) \in Nat \ {0}
      /\ \A x \in Banks : x # b => DirtyBufs(x)' = DirtyBufs(x)
  BY <1>1, CleanedBuf DEF IInv, TypeOK
<1>a. \A x \in Banks, j \in Bufs :
        /\ ents'[x][j].lpn = ents[x][j].lpn
        /\ x # b => ents'[x][j].dirty = ents[x][j].dirty
        /\ ents'[x][j].dirty => ents[x][j].dirty
  <2> SUFFICES ASSUME NEW x \in Banks, NEW j \in Bufs
               PROVE  /\ ents'[x][j].lpn = ents[x][j].lpn
                      /\ x # b => ents'[x][j].dirty = ents[x][j].dirty
                      /\ ents'[x][j].dirty => ents[x][j].dirty
    OBVIOUS
  <2>1. CASE x = b /\ j = i
    BY <1>4, <2>1
  <2>2. CASE x # b \/ j # i
    BY <1>4, <2>2
  <2> QED BY <2>1, <2>2
<1>5. /\ InBank(b) = NoCmd /\ InBank(b)' = c
      /\ \A x \in Banks : x # b => InBank(x)' = InBank(x)
      /\ CtrlTypeOK' /\ (~WrFree' => BankIdle(wr.bank)')
      /\ \A x \in Banks : ~BankIdle(x)' => bsp'[x].bank = x
  BY <1>1, <1>3, IssueView DEF IInv, Cmd, c
<1>6. \A x \in Banks : incomplete'[x] = IF x = b THEN i ELSE incomplete[x]
  BY <1>1 DEF IInv, TypeOK, CacheTypeOK
<1>7. EntsInv' /\ ReadInv' /\ BufInv' /\ FillInv' /\ SlotInv'
  <2>1. Issue(c) /\ c \in ProgCmd \cup EraseCmd /\ c.bank = b
    BY <1>1, <1>3 DEF c
  <2>2. \A x \in Banks : x # b => incomplete'[x] = incomplete[x]
    BY <1>6
  <2>3. UNCHANGED <<bsp, dram, nand>>
    BY <1>1
  <2>4. \A x \in Banks, j \in Bufs :
           /\ ents'[x][j].lpn = ents[x][j].lpn
           /\ x # b => ents'[x][j].dirty = ents[x][j].dirty
    BY <1>a
  <2> QED BY <2>1, <2>2, <2>3, <2>4, IssueKeeps
<1>8. EraseInv'
  BY <1>3, <1>5 DEF IInv, EraseInv
<1>9. \A x \in Banks : next'[x] = IF x = b THEN r + 1 ELSE next[x]
  BY <1>0, <1>1, <1>2
<1>10. ProgInv'
  BY <1>0, <1>1, <1>2, <1>3, <1>5, <1>6, <1>9 DEF IInv, ProgInv
<1>b. /\ next[b] > 0
      /\ next[b] + 2 * Cardinality(DirtyBufs(b)) + Owed <= 1 + 2 * ops + Lent(b)
      /\ Lent(b) \in {0, 1} /\ Owed' \in {0, 2} /\ Owed \in {0, 2} /\ (Owed' = 2 => Owed = 2)
      /\ ops' = ops /\ \A x \in Banks : Lent(x)' = 0
      /\ \A x \in Banks : x # b => Lent(x) = 0
  <2>1. cmd'.kind = "write" => cmd.kind = "write"
    BY <1>a, FrameKeeps
  <2> QED BY <2>1 DEF IInv, CountInv, Owed, Lent, PoolFrame
<1>11. CountInv'
  <2> SUFFICES ASSUME NEW x \in Banks
               PROVE  next'[x] > 0 /\ next'[x] + 2 * Cardinality(DirtyBufs(x)') + Owed'
                                         <= 1 + 2 * ops' + Lent(x)'
    BY DEF CountInv
  <2>1. CASE x = b
    <3> DEFINE d == Cardinality(DirtyBufs(b))
               o == Owed
               q == Owed'
               t == Lent(b)
    <3>1. d \in Nat /\ r \in Nat /\ ops \in Nat /\ o \in {0, 2} /\ q \in {0, 2} /\ t \in {0, 1}
          /\ r + 2 * d + o <= 1 + 2 * ops + t /\ (q = 2 => o = 2)
      BY <1>0, <1>2, <1>4, <1>b
    <3> HIDE DEF d, o, q, t
    <3>2. r + 1 > 0 /\ r + 1 + 2 * (d - 1) + q <= 1 + 2 * ops
      BY <3>1
    <3>3. next'[x] = r + 1 /\ Cardinality(DirtyBufs(x)') = d - 1 /\ Owed' = q /\ Lent(x)' = 0
      BY <1>4, <1>9, <1>b, <2>1 DEF d, q
    <3> QED BY <1>b, <3>1, <3>2, <3>3
  <2>2. CASE x # b
    <3> DEFINE d == Cardinality(DirtyBufs(x))
               n == next[x]
               o == Owed
               q == Owed'
    <3>1. n > 0 /\ n + 2 * d + o <= 1 + 2 * ops + Lent(x)
      BY DEF IInv, CountInv
    <3>2. d \in Nat /\ n \in Nat /\ ops \in Nat /\ o \in {0, 2} /\ q \in {0, 2}
          /\ (q = 2 => o = 2) /\ Lent(x) = 0
      BY <1>2, <1>b, <2>2, DirtyFinite
    <3>3. next'[x] = n /\ DirtyBufs(x)' = DirtyBufs(x) /\ Lent(x)' = 0 /\ ops' = ops
      BY <1>4, <1>9, <1>b, <2>2
    <3>4. Cardinality(DirtyBufs(x)') = d /\ Owed' = q
      BY <3>3
    <3> HIDE DEF d, n, o, q
    <3>5. n > 0 /\ n + 2 * d + q <= 1 + 2 * ops
      BY <3>1, <3>2
    <3> QED BY <3>2, <3>3, <3>4, <3>5
  <2> QED BY <2>1, <2>2
<1>12. next' \in [Banks -> Row]
  <2>1. r + 1 \in Row
    BY <1>0, <1>2, <1>4, <1>b
  <2> QED BY <1>0, <1>1, <1>2, <2>1
<1>13. map' \in [Lpn -> Row] /\ \A l \in Lpn : map'[l] = IF l = ents[b][i].lpn THEN r ELSE map[l]
  BY <1>1, <1>2
<1>14. FlashInv'
  <2> SUFFICES ASSUME NEW l \in Lpn
               PROVE  /\ map'[l] < next'[BankOf(l)]
                      /\ (\A j \in Hits(l)' : ~ents'[BankOf(l)][j].dirty) =>
                           \A p \in Part : newest[l][p] # 0 =>
                             map'[l] # 0
                             /\ \A m : m = map'[l] => Flash(BankOf(l), m)'[p] = newest[l][p]
    BY DEF FlashInv, PoolFrame
  <2>1. BankOf(l) \in Banks /\ l # NoLpn /\ map[l] \in Nat /\ map[l] < next[BankOf(l)]
        /\ next[BankOf(l)] \in Nat
    BY <1>2, Consts DEF IInv, FlashInv
  <2>2. CASE l = ents[b][i].lpn
    <3>1. BankOf(l) = b /\ map'[l] = r
      BY <1>13, <2>1, <2>2 DEF IInv, EntsInv
    <3>2. Flash(b, r)' = dram[CacheBuf(b, i)]
      BY <1>3, <1>5 DEF Flash
    <3>3. \A p \in Part : newest[l][p] # 0 => dram[CacheBuf(b, i)][p] = newest[l][p]
      <4>1. ~BeingReused(b, i)
        BY <1>1, DirtyNotReused DEF DirtyBufs
      <4>2. \A p \in Part : Later(b, CacheBuf(b, i), p) = dram[CacheBuf(b, i)][p]
        BY <1>5 DEF Later, NoCmd
      <4> QED BY <2>1, <2>2, <4>1, <4>2 DEF IInv, BufInv
    <3> QED BY <1>2, <1>9, <3>1, <3>2, <3>3
  <2>3. CASE l # ents[b][i].lpn
    <3>1. map'[l] = map[l] /\ map[l] < next'[BankOf(l)]
      <4>1. map'[l] = map[l]
        BY <1>13, <2>3
      <4>2. next'[BankOf(l)] = next[BankOf(l)] + 1 \/ next'[BankOf(l)] = next[BankOf(l)]
        BY <1>0, <1>9, <2>1
      <4> QED BY <2>1, <4>1, <4>2
    <3>2. Hits(l)' = Hits(l)
      BY <1>a, <2>1 DEF Hits
    <3>3. \A j \in Hits(l) : ents'[BankOf(l)][j] = ents[BankOf(l)][j]
      BY <1>4, <2>1, <2>3 DEF Hits
    <3>4. \A m : m = map[l] => Flash(BankOf(l), m)' = Flash(BankOf(l), m)
      <4>1. BankOf(l) = b => map[l] # r
        BY <1>0, <1>2, <2>1
      <4> QED BY <1>1, <1>3, <1>5, <2>1, <4>1 DEF Flash, NoCmd
    <3> QED BY <2>1, <3>1, <3>2, <3>3, <3>4 DEF IInv, FlashInv
  <2> QED BY <2>2, <2>3
<1>15. CacheTypeOK'
  BY <1>1, <1>4 DEF IInv, TypeOK, CacheTypeOK
<1>16. \A l \in Lpn : map[l] # 0 => map'[l] # 0
  BY <1>2, <1>13
<1> QED BY <1>a, <1>5, <1>7, <1>8, <1>10, <1>11, <1>12, <1>13, <1>14, <1>15, <1>16

\* A step at a place where the thread pools, on bank b, going to place then.
PoolsAt(b, then) ==
  /\ pc \notin {"summary", "dequeue"}
  /\ UNCHANGED <<ringVars, buf, comp, arrived, newest, ops>>
  /\ \/ then = pc /\ pc \in Pooling /\ cmd' = cmd
     \/ pc = "pool" /\ then = "data" /\ cmd.kind = "write" /\ cmd' = cmd
     \/ pc = "pool" /\ then = "idle" /\ cmd' = NoHostCmd
  /\ pool' \in Banks /\ vt' \in [Banks -> BOOLEAN] /\ idx' \in Bufs
  /\ fbank' \in 0..NumBanks /\ done' \in BOOLEAN
  /\ then = "flush" => b = fbank /\ fbank' = fbank + 1 /\ (done' => done /\ Empty(b))

LEMMA PoolPlace ==
  ASSUME NEW b, NEW then, PoolsAt(b, then),
         \/ pc' = then
         \/ pc' = "summary" /\ ret' = [at |-> then, bank |-> b]
  PROVE  /\ place = pc /\ place' = then /\ PoolFrame /\ then \in Pooling
         /\ pc' \in Labels /\ pc' # "dequeue"
<1>1. then \in Pooling /\ then \notin {"summary", "dequeue"}
  BY DEF PoolsAt, Pooling
<1>2. place = pc /\ place' = then
  BY <1>1 DEF place, PoolsAt
<1>3. pc' \in Labels /\ pc' # "dequeue"
  BY <1>1 DEF Pooling, Labels
<1>4. PoolFrame
  BY <1>2 DEF PoolFrame, PoolsAt
<1> QED BY <1>1, <1>2, <1>3, <1>4

\* What every such step keeps.
LEMMA PoolKeeps ==
  ASSUME IInv, NEW b \in Banks, NEW then, PoolsAt(b, then),
         \/ pc' = then /\ ret' = ret
         \/ pc' = "summary" /\ ret' = [at |-> then, bank |-> b] /\ ~stall[b],
         CtrlTypeOK', CacheTypeOK', map' \in [Lpn -> Row], next' \in [Banks -> Row],
         \A x \in Banks : stall[x] => stall'[x],
         \A l \in Lpn : map[l] # 0 => map'[l] # 0,
         \A x \in Banks, j \in Bufs : ents'[x][j].lpn = ents[x][j].lpn,
         \A x \in Banks, j \in Bufs : ents'[x][j].dirty => ents[x][j].dirty,
         ~WrFree' => BankIdle(wr.bank)',
         \A x \in Banks : ~BankIdle(x)' => bsp'[x].bank = x
  PROVE  TypeOK' /\ OneInv' /\ ThreadInv' /\ FlushInv'
<1>1. /\ place = pc /\ place' = then /\ PoolFrame /\ then \in Pooling
      /\ pc' \in Labels /\ pc' # "dequeue"
  BY PoolPlace
<1>2. TypeOK'
  <2>1. ret' \in [at: Labels, bank: Banks]
    BY <1>1 DEF IInv, TypeOK, ThreadTypeOK, Pooling, Labels
  <2>2. cmd' \in Cmds \cup {NoHostCmd}
    BY DEF IInv, TypeOK, HostTypeOK, PoolsAt
  <2>3. ThreadTypeOK'
    BY <1>1, <2>1 DEF IInv, TypeOK, ThreadTypeOK, PoolsAt
  <2>4. HostTypeOK' /\ RingTypeOK'
    BY <2>2 DEF IInv, TypeOK, HostTypeOK, RingTypeOK, PoolsAt, ringVars
  <2>5. MapTypeOK'
    BY DEF MapTypeOK, PoolsAt
  <2> QED BY <2>3, <2>4, <2>5 DEF TypeOK
<1>3. OneInv'
  BY <1>1 DEF OneInv, Pooling
<1>4. place' \in Holding => UNCHANGED <<place, cmd, buf, comp, bk>> /\ bk \in Banks
                                /\ cmd.lpn \in Lpn
  BY <1>1, CmdTypes DEF PoolsAt, Holding, IInv, ThreadInv, bk
<1>5. ThreadInv'
  <2>1. /\ pc' \in {"summary", "dequeue"} => ret'.at \in Pooling
        /\ place' \in Holding => stall'[bk'] /\ (pc' \in {"summary", "dequeue"} => ret'.bank # bk')
    <3>1. then \notin {"summary", "dequeue"}
      BY <1>1 DEF Pooling
    <3>2. pc' \in {"summary", "dequeue"} => ret'.at \in Pooling /\ ret'.bank = b /\ ~stall[b]
      BY <1>1, <3>1
    <3>3. place' \in Holding => stall[bk] /\ bk' = bk /\ bk \in Banks
      BY <1>4 DEF IInv, ThreadInv
    <3> QED BY <3>2, <3>3
  <2>2. place' \in {"idle", "data", "clean", "prewait", "center", "rwait", "flush"}
    BY <1>1 DEF Pooling
  <2>3. CASE place' \in {"idle", "flush"}
    BY <2>1, <2>3 DEF ThreadInv
  <2>4. CASE place' = "data"
    BY <1>1, <2>1, <2>4 DEF IInv, ThreadInv, PoolsAt
  <2>5. CASE place' \in {"clean", "prewait", "center", "rwait"}
    <3>1. UNCHANGED <<place, cmd, buf, comp, bk>> /\ bk \in Banks /\ cmd.lpn \in Lpn
      BY <1>1, <2>5, CmdTypes DEF PoolsAt, IInv, ThreadInv, bk
    <3>2. Hits(cmd.lpn)' = Hits(cmd.lpn)
      BY <3>1 DEF Hits, bk
    <3>3. place \in {"prewait", "center"} => ~ents'[bk][buf].dirty
      BY <3>1 DEF IInv, ThreadInv, TypeOK, ThreadTypeOK
    <3> QED BY <2>1, <2>5, <3>1, <3>2, <3>3 DEF IInv, ThreadInv
  <2> QED BY <2>2, <2>3, <2>4, <2>5
<1>6. FlushInv'
  <2>1. \A x \in Banks : Empty(x) => Empty(x)'
    BY DEF Empty, DirtyBufs
  <2>2. place' # "finish"
    BY <1>1 DEF Pooling
  <2>3. place' = "flush" /\ done' => \A x \in Banks : x < fbank + 1 => Empty(x)
    <3> SUFFICES ASSUME then = "flush", done', NEW x \in Banks, x < fbank + 1
                 PROVE  Empty(x)
      BY <1>1
    <3>1. place = "flush" /\ b = fbank /\ done /\ Empty(b)
      BY <1>1 DEF PoolsAt
    <3>2. x = fbank \/ x < fbank
      BY <3>1, Consts
    <3> QED BY <3>1, <3>2 DEF IInv, FlushInv
  <2>4. then = "flush" => fbank' = fbank + 1
    BY DEF PoolsAt
  <2> QED BY <1>1, <2>1, <2>2, <2>3, <2>4 DEF FlushInv
<1> QED BY <1>2, <1>3, <1>5, <1>6

\* The step changes no buffer and issues nothing.
LEMMA PoolIdleStep ==
  ASSUME IInv, NEW b \in Banks, NEW then, PoolsAt(b, then), pc' = then,
         UNCHANGED <<flashVars, ents, lru, stall, map, next, ret>>,
         \/ incomplete' = incomplete
         \/ Quiet(b) /\ incomplete' = [incomplete EXCEPT ![b] = NoBuf]
  PROVE  IInv'
<1>1. place = pc /\ place' = then /\ PoolFrame /\ then \in Pooling /\ pc' # "summary"
  BY PoolPlace DEF Pooling
<1>2. /\ \A x \in Banks, j \in Bufs :
            BeingReused(x, j)' = BeingReused(x, j) /\ Filling(x, j)' = Filling(x, j)
      /\ place' # "enqueue" /\ (cmd'.kind = "write" => cmd.kind = "write")
  BY <1>1, FrameKeeps
<1>3. CacheTypeOK' /\ \A x \in Banks : incomplete'[x] = incomplete[x] \/ InBank(x).op = "none"
  BY DEF IInv, TypeOK, CacheTypeOK, Quiet, NoCmd
<1>4. TypeOK' /\ OneInv' /\ ThreadInv' /\ FlushInv'
  BY <1>3, PoolKeeps DEF IInv, TypeOK, MapTypeOK, CtrlTypeOK, flashVars, OneInv, WrFree, BankIdle
<1>5. UNCHANGED <<ents, map, next, newest, ringVars, ops, flashVars>>
  BY DEF PoolsAt
<1>6. EntsInv' /\ ProgInv' /\ ReadInv' /\ EraseInv' /\ BufInv' /\ FlashInv'
  BY <1>2, <1>3, <1>5, LocalKeeps
<1>7. FillInv'
  <2>1. CASE place' = "center"
    <3>1. UNCHANGED <<place, cmd, buf, comp, bk>>
      BY <1>1, <2>1 DEF PoolFrame, bk
    <3> QED BY <1>2, <1>5, <2>1, <3>1, SameView DEF IInv, FillInv, Filling
  <2>2. CASE place' # "center"
    <3>1. place' \notin {"centerwr", "center", "enqueue"}
      BY <1>1, <2>2 DEF Pooling
    <3> QED BY <3>1 DEF FillInv, Filling
  <2> QED BY <2>1, <2>2
<1>8. SlotInv'
  BY <1>1, <1>5, SlotKeeps DEF Pooling
<1>9. CountInv'
  BY <1>1, <1>2, <1>5, CountKeeps DEF PoolsAt
<1> QED BY <1>4, <1>6, <1>7, <1>8, <1>9 DEF IInv

LEMMA PoolProgramStep ==
  ASSUME IInv, WrFree, NEW b \in Banks, NEW then, PoolsAt(b, then), pc' = then, ret' = ret,
         CanDequeue(b), ProgramBuf(b)
  PROVE  IInv'
<1>1. place = pc /\ place' = then /\ PoolFrame /\ then \in Pooling
      /\ pc' \notin {"summary", "dequeue"} /\ pc \notin {"summary", "dequeue"}
  BY PoolPlace DEF Pooling, PoolsAt
<1>2. BankIdle(b) /\ (place \in Holding => b # bk)
  BY DEF CanDequeue, IInv, ThreadInv
<1>3. /\ CtrlTypeOK' /\ CacheTypeOK' /\ map' \in [Lpn -> Row] /\ next' \in [Banks -> Row]
      /\ EntsInv' /\ ProgInv' /\ ReadInv' /\ EraseInv' /\ FillInv' /\ BufInv' /\ FlashInv'
      /\ SlotInv' /\ CountInv'
      /\ \A x \in Banks : ~BankIdle(x)' => bsp'[x].bank = x
      /\ ~WrFree' => BankIdle(wr.bank)'
      /\ \A x \in Banks, j \in Bufs : ents'[x][j].lpn = ents[x][j].lpn
      /\ \A x \in Banks, j \in Bufs : ents'[x][j].dirty => ents[x][j].dirty
      /\ \A l \in Lpn : map[l] # 0 => map'[l] # 0
  BY <1>1, <1>2, ProgramKeeps
<1>4. stall' = stall
  BY DEF ProgramBuf
<1>5. TypeOK' /\ OneInv' /\ ThreadInv' /\ FlushInv'
  BY <1>3, <1>4, PoolKeeps
<1> QED BY <1>3, <1>5 DEF IInv

\* A summary page or an erasure: the buffers stay as they are.
LEMMA SummaryIssueStep ==
  ASSUME IInv, WrFree, NEW b \in Banks, NEW then, PoolsAt(b, then),
         pc' = "summary", ret' = [at |-> then, bank |-> b],
         CanDequeue(b), ~Empty(b), Issue(Prog(b, next[b], FtlBuf(b))),
         incomplete' = [incomplete EXCEPT ![b] = NoBuf],
         stall' = [stall EXCEPT ![b] = TRUE],
         next' = [next EXCEPT ![b] = @ + 1],
         UNCHANGED <<bsp, dram, nand, ents, lru, map>>
  PROVE  IInv'
<1>1. /\ place = pc /\ place' = then /\ PoolFrame /\ then \in Pooling
      /\ pc \notin {"summary", "dequeue"}
  BY PoolPlace DEF PoolsAt
<1>2. BankIdle(b) /\ ~stall[b] /\ (place \in Holding => b # bk)
  BY DEF CanDequeue, IInv, ThreadInv
<1>3. PICK r \in Row : r = next[b]
  BY DEF IInv, TypeOK, MapTypeOK
<1> DEFINE c == Prog(b, r, FtlBuf(b))
<1>4. /\ c \in ProgCmd /\ c.bank = b /\ c.op = "prog" /\ c.row = r
      /\ c.buf = FtlBuf(b) /\ c.data = dram[FtlBuf(b)] /\ Issue(c)
  <2>1. FtlBuf(b) \in Buffer /\ dram[FtlBuf(b)] \in Content
    BY BufferTypes DEF IInv, TypeOK, CtrlTypeOK
  <2> QED BY <1>3, <2>1, Consts DEF Prog, ProgCmd
<1> HIDE DEF c
<1>5. /\ InBank(b) = NoCmd /\ InBank(b)' = c
      /\ \A x \in Banks : x # b => InBank(x)' = InBank(x)
      /\ CtrlTypeOK' /\ (~WrFree' => BankIdle(wr.bank)')
      /\ \A x \in Banks : ~BankIdle(x)' => bsp'[x].bank = x
  BY <1>2, <1>4, IssueView DEF IInv, Cmd
<1>6. /\ r \in Nat /\ r > 0 /\ r + 2 * Cardinality(DirtyBufs(b)) + Owed <= 1 + 2 * ops
      /\ Cardinality(DirtyBufs(b)) \in Nat \ {0} /\ ops \in 0..MaxOps /\ MaxOps \in Nat
      /\ next \in [Banks -> Row] /\ map \in [Lpn -> Row] /\ Row = 0..(2 * MaxOps + 2)
      /\ Owed \in {0, 2}
  <2>1. r > 0 /\ r + 2 * Cardinality(DirtyBufs(b)) + Owed <= 1 + 2 * ops + Lent(b)
    BY <1>3 DEF IInv, CountInv
  <2>2. Lent(b) = 0 /\ Owed \in {0, 2}
    BY <1>1 DEF Lent, Owed
  <2>3. Cardinality(DirtyBufs(b)) \in Nat /\ Cardinality(DirtyBufs(b)) # 0
    BY DirtyFinite, FS_EmptySet DEF Empty
  <2>4. next \in [Banks -> Row] /\ map \in [Lpn -> Row] /\ ops \in 0..MaxOps
    BY DEF IInv, TypeOK, MapTypeOK, HostTypeOK
  <2>5. ops \in Nat /\ r \in Nat
    BY <1>3, <2>4, Consts
  <2> QED BY <2>1, <2>2, <2>3, <2>4, <2>5, Consts
<1>7. next' \in [Banks -> Row] /\ \A x \in Banks : next'[x] = IF x = b THEN r + 1 ELSE next[x]
  <2>1. r + 1 \in Row
    BY <1>6
  <2> QED BY <1>3, <1>6, <2>1
<1>8. /\ incomplete' \in [Banks -> Bufs \cup {NoBuf}] /\ CacheTypeOK'
      /\ \A x \in Banks : x # b => incomplete'[x] = incomplete[x]
      /\ \A x \in Banks : stall[x] => stall'[x]
  BY DEF IInv, TypeOK, CacheTypeOK
<1>9. TypeOK' /\ OneInv' /\ ThreadInv' /\ FlushInv'
  BY <1>2, <1>5, <1>6, <1>7, <1>8, PoolKeeps
<1>10. EntsInv' /\ ReadInv' /\ BufInv' /\ FillInv' /\ SlotInv'
  BY <1>1, <1>2, <1>4, <1>8, IssueKeeps
<1>11. EraseInv'
  BY <1>4, <1>5 DEF IInv, EraseInv
<1>12. ProgInv'
  BY <1>3, <1>4, <1>5, <1>6, <1>7, <1>8 DEF IInv, ProgInv
<1>13. FlashInv'
  <2> SUFFICES ASSUME NEW l \in Lpn
               PROVE  /\ map[l] < next'[BankOf(l)]
                      /\ (\A j \in Hits(l)' : ~ents[BankOf(l)][j].dirty) =>
                           \A p \in Part : newest[l][p] # 0 =>
                             map[l] # 0
                             /\ \A m : m = map[l] => Flash(BankOf(l), m)'[p] = newest[l][p]
    BY <1>1 DEF FlashInv, PoolFrame
  <2>1. BankOf(l) \in Banks /\ map[l] \in Nat /\ map[l] < next[BankOf(l)]
        /\ next[BankOf(l)] \in Nat
    BY <1>6, Consts DEF IInv, FlashInv
  <2>2. map[l] < next'[BankOf(l)]
    BY <1>3, <1>6, <1>7, <2>1
  <2>3. Hits(l)' = Hits(l)
    BY DEF Hits
  <2>4. \A m : m = map[l] => Flash(BankOf(l), m)' = Flash(BankOf(l), m)
    <3>1. BankOf(l) = b => map[l] # r
      BY <1>3, <1>6, <2>1
    <3> QED BY <1>4, <1>5, <2>1, <3>1 DEF Flash, NoCmd
  <2> QED BY <2>1, <2>2, <2>3, <2>4 DEF IInv, FlashInv
<1>14. CountInv'
  <2> SUFFICES ASSUME NEW x \in Banks
               PROVE  next'[x] > 0 /\ next'[x] + 2 * Cardinality(DirtyBufs(x)) + Owed'
                                         <= 1 + 2 * ops + Lent(x)'
    BY <1>1 DEF CountInv, DirtyBufs, PoolFrame
  <2>1. Owed' \in {0, 2} /\ (Owed' = 2 => Owed = 2)
    <3>1. cmd'.kind = "write" => cmd.kind = "write"
      BY <1>1, FrameKeeps
    <3> QED BY <3>1 DEF Owed
  <2>2. Lent(x) = 0 /\ Lent(x)' = (IF x = b THEN 1 ELSE 0) /\ Lent(x)' \in {0, 1}
    BY <1>1 DEF Lent
  <2>3. CASE x = b
    <3> DEFINE d == Cardinality(DirtyBufs(b))
               o == Owed
               q == Owed'
    <3>1. next'[x] = r + 1 /\ Lent(x)' = 1 /\ Owed' = q
      BY <1>7, <2>2, <2>3
    <3>2. r \in Nat /\ d \in Nat /\ o \in {0, 2} /\ q \in {0, 2} /\ (q = 2 => o = 2)
          /\ ops \in Nat /\ r + 2 * d + o <= 1 + 2 * ops
      BY <1>6, <2>1
    <3> HIDE DEF d, o, q
    <3>3. r + 1 > 0 /\ r + 1 + 2 * d + q <= 1 + 2 * ops + 1
      BY <3>2
    <3> QED BY <2>3, <3>1, <3>3 DEF d
  <2>4. CASE x # b
    <3> DEFINE d == Cardinality(DirtyBufs(x))
               n == next[x]
               o == Owed
               q == Owed'
    <3>1. n > 0 /\ n + 2 * d + o <= 1 + 2 * ops + Lent(x)
      BY DEF IInv, CountInv
    <3>2. d \in Nat /\ n \in Nat /\ ops \in Nat /\ o \in {0, 2} /\ q \in {0, 2}
          /\ (q = 2 => o = 2) /\ Lent(x) = 0
      BY <1>6, <2>1, <2>2, DirtyFinite
    <3>3. next'[x] = n /\ Lent(x)' = 0 /\ Owed' = q
      BY <1>7, <2>2, <2>4
    <3> HIDE DEF n, o, q, d
    <3>4. n > 0 /\ n + 2 * d + q <= 1 + 2 * ops
      BY <3>1, <3>2
    <3> QED BY <3>2, <3>3, <3>4 DEF d
  <2> QED BY <2>3, <2>4
<1> QED BY <1>9, <1>10, <1>11, <1>12, <1>13, <1>14 DEF IInv

LEMMA EraseIssueStep ==
  ASSUME IInv, WrFree, NEW b \in Banks, NEW then, PoolsAt(b, then), pc' = then, ret' = ret,
         BankIdle(b), Issue(Erase(b, {})), place \in Holding => b # bk,
         UNCHANGED <<bsp, dram, nand, cacheVars, map, next>>
  PROVE  IInv'
<1>1. /\ place = pc /\ place' = then /\ PoolFrame /\ then \in Pooling
      /\ pc' \notin {"summary", "dequeue"}
  BY PoolPlace DEF Pooling
<1> DEFINE c == Erase(b, {})
<1>2. c \in EraseCmd /\ c.bank = b /\ c.op = "erase" /\ c.rows = {} /\ Issue(c)
  BY Consts DEF Erase, EraseCmd
<1> HIDE DEF c
<1>3. /\ InBank(b) = NoCmd /\ InBank(b)' = c
      /\ \A x \in Banks : x # b => InBank(x)' = InBank(x)
      /\ CtrlTypeOK' /\ (~WrFree' => BankIdle(wr.bank)')
      /\ \A x \in Banks : ~BankIdle(x)' => bsp'[x].bank = x
  BY <1>2, IssueView DEF IInv, Cmd
<1>4. UNCHANGED <<ents, lru, stall, incomplete, map, next, bsp, dram, nand>>
  BY DEF cacheVars
<1>5. CacheTypeOK' /\ map' \in [Lpn -> Row] /\ next' \in [Banks -> Row]
  BY <1>4 DEF IInv, TypeOK, CacheTypeOK, MapTypeOK
<1>6. TypeOK' /\ OneInv' /\ ThreadInv' /\ FlushInv'
  BY <1>3, <1>4, <1>5, PoolKeeps
<1>7. EntsInv' /\ ReadInv' /\ BufInv' /\ FillInv' /\ SlotInv'
  BY <1>1, <1>2, <1>4, IssueKeeps
<1>8. EraseInv' /\ ProgInv'
  BY <1>2, <1>3, <1>4 DEF IInv, EraseInv, ProgInv
<1>9. FlashInv'
  <2>1. \A x \in Banks : \A r : Flash(x, r)' = Flash(x, r)
    BY <1>2, <1>3, <1>4 DEF Flash, NoCmd
  <2>2. \A l \in Lpn : BankOf(l) \in Banks
    BY Consts
  <2>3. \A l \in Lpn : Hits(l)' = Hits(l)
    BY <1>4 DEF Hits
  <2>4. newest' = newest
    BY DEF PoolsAt
  <2> QED BY <1>4, <2>1, <2>2, <2>3, <2>4 DEF IInv, FlashInv
<1>10. CountInv'
  <2>1. cmd'.kind = "write" => cmd.kind = "write"
    BY <1>1, <1>4, FrameKeeps
  <2> QED BY <1>4, <2>1, CountKeeps DEF PoolsAt
<1> QED BY <1>6, <1>7, <1>8, <1>9, <1>10 DEF IInv

\* dequeue, and blkmgr_erase_vt_blk.
LEMMA DequeueStep ==
  ASSUME IInv, WrFree, NEW b \in Banks, NEW then, PoolsAt(b, then), Dequeue(b, then)
  PROVE  IInv'
<1> USE DEF cacheVars
<1>1. CASE ~CanDequeue(b) /\ pc' = then /\ UNCHANGED <<flashVars, cacheVars, map, next, ret>>
  BY <1>1, PoolIdleStep
<1>2. CASE /\ CanDequeue(b) /\ pc' = then
           /\ incomplete' = [incomplete EXCEPT ![b] = NoBuf]
           /\ UNCHANGED <<flashVars, ents, lru, stall, map, next, ret>>
  <2>1. Quiet(b)
    BY <1>2 DEF CanDequeue, Quiet, InBank, BankIdle
  <2> QED BY <1>2, <2>1, PoolIdleStep
<1>3. CASE CanDequeue(b) /\ ProgramBuf(b) /\ pc' = then /\ ret' = ret
  BY <1>3, PoolProgramStep
<1>4. CASE /\ CanDequeue(b) /\ ~Empty(b)
           /\ Issue(Prog(b, next[b], FtlBuf(b)))
           /\ incomplete' = [incomplete EXCEPT ![b] = NoBuf]
           /\ stall' = [stall EXCEPT ![b] = TRUE]
           /\ next' = [next EXCEPT ![b] = @ + 1]
           /\ pc' = "summary" /\ ret' = [at |-> then, bank |-> b]
           /\ UNCHANGED <<bsp, dram, nand, ents, lru, map>>
  BY <1>4, SummaryIssueStep
<1> QED BY <1>1, <1>2, <1>3, <1>4 DEF Dequeue

LEMMA EraseVtStep ==
  ASSUME IInv, WrFree, NEW b \in Banks, NEW then, PoolsAt(b, then), EraseVt(b, then),
         place \in Holding => b # bk \/ ~BankIdle(bk)
  PROVE  IInv'
<1>1. pc' = then /\ UNCHANGED <<bsp, dram, nand, cacheVars, map, next, ret>>
  BY DEF EraseVt
<1>2. CASE BankIdle(b) /\ Issue(Erase(b, {}))
  BY <1>1, <1>2, EraseIssueStep
<1>3. CASE wr' = wr
  <2>1. UNCHANGED <<flashVars, ents, lru, stall, map, next, ret, incomplete>>
    BY <1>1, <1>3 DEF flashVars, cacheVars
  <2> QED BY <1>1, <2>1, PoolIdleStep
<1> QED BY <1>2, <1>3 DEF EraseVt

LEMMA PoolWriteStep ==
  ASSUME PromptAccept, IInv, Accepted, NEW then, then # "flush", PoolWriteBuf(then),
         pc \notin {"summary", "dequeue"},
         UNCHANGED <<ringVars, buf, comp, arrived, newest, ops, fbank, done>>, idx' \in Bufs,
         \/ then = pc /\ pc \in Pooling /\ cmd' = cmd
         \/ pc = "pool" /\ then = "data" /\ cmd.kind = "write" /\ cmd' = cmd
         \/ pc = "pool" /\ then = "idle" /\ cmd' = NoHostCmd,
         place \in Holding => ~BankIdle(bk)
  PROVE  IInv'
<1>1. WrFree
  BY ThreadFree DEF IInv
<1>2. pool \in Banks /\ NextPool \in Banks /\ vt \in [Banks -> BOOLEAN]
  BY Consts DEF IInv, TypeOK, MapTypeOK, Banks, NextPool
<1>3. vt' \in [Banks -> BOOLEAN]
  BY <1>2 DEF PoolWriteBuf, EraseVt
<1>4. PoolsAt(pool, then)
  BY <1>2, <1>3 DEF PoolsAt, PoolWriteBuf, IInv, TypeOK, ThreadTypeOK
<1>5. CASE Dequeue(pool, then)
  BY <1>1, <1>2, <1>4, <1>5, DequeueStep
<1>6. CASE EraseVt(pool, then)
  BY <1>1, <1>2, <1>4, <1>6, EraseVtStep
<1> QED BY <1>5, <1>6 DEF PoolWriteBuf

LEMMA PoolStep == ASSUME PromptAccept, IInv, Pool PROVE IInv'
<1> USE DEF Pool, At, localVars, NoHostCmd
<1>1. pc = "pool" /\ place = "pool" /\ Accepted /\ idx' \in Bufs
  BY DEF place, IInv, TypeOK, ThreadTypeOK
<1>2. CASE cmd.kind = "write"
  BY <1>1, <1>2, PoolWriteStep DEF Holding
<1>3. CASE cmd.kind # "write"
  BY <1>1, <1>3, PoolWriteStep DEF Holding
<1> QED BY <1>2, <1>3

LEMMA CleanPoolStep == ASSUME PromptAccept, IInv, CleanPool PROVE IInv'
<1> USE DEF CleanPool, At, hostVars
<1>1. pc = "clean" /\ place = "clean" /\ Accepted
  BY DEF place
<1>2. idx' \in Bufs
  BY Consts DEF IInv, TypeOK, ThreadTypeOK, Bufs
<1> QED BY <1>1, <1>2, PoolWriteStep DEF Holding, Pooling

LEMMA WaitBankStep ==
  ASSUME PromptAccept, IInv, NEW p, NEW then, NEW released \in BOOLEAN,
         WaitBank(p, then, released),
         <<p, then, released>> \in {<<"prewait", "preread", FALSE>>, <<"rwait", "rissue", FALSE>>,
                                    <<"center", "enqueue", TRUE>>}
  PROVE  IInv'
<1> USE DEF WaitBank, At
<1>1. CASE /\ BankIdle(bk)
           /\ pc' = then
           /\ stall' = [stall EXCEPT ![bk] = ~released]
           /\ UNCHANGED <<flashVars, ents, lru, incomplete, pool, vt, map, next, ret>>
  BY <1>1, WaitEndStep
<1>2. CASE ~BankIdle(bk) /\ PoolWriteBuf(p)
  <2>1. pc = p /\ p \in Pooling /\ p \notin {"summary", "dequeue", "flush"} /\ Accepted
    BY DEF Pooling
  <2>2. idx' \in Bufs
    BY DEF IInv, TypeOK, ThreadTypeOK, localVars
  <2> QED BY <1>2, <2>1, <2>2, PoolWriteStep DEF localVars, hostVars
<1> QED BY <1>1, <1>2

LEMMA FlushBankStep == ASSUME PromptAccept, IInv, FlushBank PROVE IInv'
<1> USE DEF FlushBank, At, hostVars
<1>1. pc = "flush" /\ Accepted /\ WrFree /\ fbank < NumBanks /\ fbank \in 0..NumBanks
      /\ done \in BOOLEAN /\ pool \in Banks /\ vt \in [Banks -> BOOLEAN] /\ idx \in Bufs
  BY ThreadFree DEF IInv, TypeOK, ThreadTypeOK, MapTypeOK
<1>2. fbank \in Banks /\ fbank + 1 \in 0..NumBanks
  BY <1>1, Consts DEF Banks
<1>3. PoolsAt(fbank, "flush")
  BY <1>1, <1>2 DEF PoolsAt, Pooling, Flushed
<1> QED BY <1>1, <1>2, <1>3, DequeueStep

\* The buffer dequeue had chosen, once the summary page is in flash.
LEMMA DequeueRestStep == ASSUME PromptAccept, IInv, DequeueRest PROVE IInv'
<1> USE DEF DequeueRest, At, ringVars, localVars, hostVars
<1>1. /\ pc = "dequeue" /\ place = ret.at /\ pc' = ret.at /\ ret.at \in Pooling
      /\ ret.bank \in Banks /\ (place \in Holding => ret.bank # bk)
      /\ WrFree /\ BankIdle(ret.bank)
  BY DEF place, IInv, ThreadInv, OneInv, TypeOK, ThreadTypeOK
<1>2. /\ pc' \notin {"summary", "dequeue"} /\ pc' \in Labels /\ place' = place
      /\ place' \in Pooling
  BY <1>1 DEF Pooling, Labels, place
<1>3. PoolFrame
  BY <1>1, <1>2 DEF PoolFrame
<1>4. /\ CtrlTypeOK' /\ CacheTypeOK' /\ map' \in [Lpn -> Row] /\ next' \in [Banks -> Row]
      /\ EntsInv' /\ ProgInv' /\ ReadInv' /\ EraseInv' /\ FillInv' /\ BufInv' /\ FlashInv'
      /\ SlotInv' /\ CountInv'
      /\ \A x \in Banks : ~BankIdle(x)' => bsp'[x].bank = x
      /\ ~WrFree' => BankIdle(wr.bank)'
      /\ \A x \in Banks, j \in Bufs : ents'[x][j].lpn = ents[x][j].lpn
      /\ \A x \in Banks, j \in Bufs : ents'[x][j].dirty => ents[x][j].dirty
      /\ \A l \in Lpn : map[l] # 0 => map'[l] # 0
  BY <1>1, <1>2, <1>3, ProgramKeeps
<1>5. TypeOK'
  <2>1. ThreadTypeOK' /\ HostTypeOK' /\ RingTypeOK'
    BY <1>2 DEF IInv, TypeOK, ThreadTypeOK, HostTypeOK, RingTypeOK
  <2>2. MapTypeOK'
    BY <1>4 DEF IInv, TypeOK, MapTypeOK
  <2> QED BY <1>4, <2>1, <2>2 DEF TypeOK
<1>6. OneInv'
  BY <1>2, <1>4 DEF OneInv, Pooling
<1>7. ThreadInv'
  <2>1. UNCHANGED <<place, cmd, buf, comp, bk>> /\ stall' = stall
    BY <1>2 DEF bk, ProgramBuf
  <2>2. place \in {"data", "clean", "prewait", "center", "rwait"} => bk \in Banks
    BY CmdTypes DEF IInv, ThreadInv
  <2>3. \A x \in Banks : \A l : BankOf(l) = x => Hits(l)' = Hits(l)
    BY <1>4 DEF Hits
  <2>4. place \in {"prewait", "center"} => ~ents'[bk][buf].dirty
    BY <1>4, <2>2 DEF IInv, ThreadInv, TypeOK, ThreadTypeOK
  <2>5. place \in {"data", "clean", "prewait", "center", "rwait"}
          => Hits(cmd.lpn)' = Hits(cmd.lpn) /\ cmd.lpn \in Lpn
    BY <2>2, <2>3, CmdTypes DEF bk, IInv, ThreadInv
  <2>6. place \in {"idle", "data", "clean", "prewait", "center", "rwait", "flush"}
    BY <1>2 DEF Pooling
  <2>7. /\ pc' \in {"summary", "dequeue"} => ret'.at \in Pooling
        /\ place' \in Holding => stall'[bk'] /\ (pc' \in {"summary", "dequeue"} => ret'.bank # bk')
    BY <1>2, <2>1 DEF IInv, ThreadInv
  <2> QED BY <1>4, <2>1, <2>4, <2>5, <2>6, <2>7 DEF IInv, ThreadInv
<1>8. FlushInv'
  <2>1. \A x \in Banks : Empty(x) => Empty(x)'
    BY <1>4 DEF Empty, DirtyBufs
  <2> QED BY <1>2, <2>1 DEF IInv, FlushInv
<1> QED BY <1>4, <1>5, <1>6, <1>7, <1>8 DEF IInv

-----------------------------------------------------------------------------
(* The steps that issue a read, and the steps that fill a buffer.          *)

LEMMA PrereadStep == ASSUME PromptAccept, IInv, Preread PROVE IInv'
<1> USE DEF Preread, At, hostVars
<1>1. /\ place = "preread" /\ cmd.kind = "write" /\ comp /\ cmd.lpn \in Lpn /\ bk \in Banks
      /\ cmd.parts \in SUBSET Part
      /\ WrFree /\ BankIdle(bk) /\ Hits(cmd.lpn) = {} /\ ~ents[bk][buf].dirty /\ buf \in Bufs
      /\ bk = BankOf(cmd.lpn)
  BY CmdTypes DEF place, IInv, ThreadInv, OneInv, TypeOK, ThreadTypeOK, bk
<1>b. PICK b \in Banks, i \in Bufs : b = bk /\ i = buf
  BY <1>1
<1>2. PICK r \in Row : r = map[cmd.lpn]
  BY <1>1, <1>b DEF IInv, TypeOK, MapTypeOK
<1>3. PICK parts \in SUBSET Part :
        /\ Issue(Read(b, r, CacheBuf(b, i), parts))
        /\ parts = IF Side(cmd.parts) THEN Part \ cmd.parts ELSE Part
  BY <1>b, <1>2
<1> DEFINE c == Read(b, r, CacheBuf(b, i), parts)
<1>4. /\ c \in ReadCmd /\ c.bank = b /\ c.op = "read" /\ c.row = r /\ ~c.sata
      /\ c.buf = CacheBuf(b, i) /\ c.parts = parts /\ Issue(c)
  BY <1>1, <1>b, <1>2, <1>3, BufferTypes, Consts DEF Read, ReadCmd
<1> HIDE DEF c
<1>5. /\ InBank(b) = NoCmd /\ InBank(b)' = c /\ NoCmd.op = "none"
      /\ \A x \in Banks : x # b => InBank(x)' = InBank(x)
      /\ CtrlTypeOK' /\ (~WrFree' => BankIdle(wr.bank)')
      /\ \A x \in Banks : ~BankIdle(x)' => bsp'[x].bank = x
  BY <1>1, <1>b, <1>4, IssueView DEF IInv, Cmd, NoCmd
<1>6. /\ b = bk' /\ i = buf' /\ UNCHANGED <<cmd, bsp, dram, nand, ents, map, next, incomplete,
                                          newest, ret>>
      /\ \A l : Hits(l)' = Hits(l)
  BY <1>b DEF bk, Hits
<1>7. /\ place' = pc' /\ pc' \in {"enqueue", "centerwr"}
      /\ place' = "enqueue" => Side(cmd.parts) /\ ~comp' /\ stall' = [stall EXCEPT ![b] = FALSE]
      /\ place' = "centerwr" => ~Side(cmd.parts) /\ comp' /\ stall' = stall
  BY <1>1, <1>b DEF place
<1>8. \A x, j : BeingReused(x, j)' = BeingReused(x, j) /\ ~Filling(x, j) /\ Filling(b, i)'
  BY <1>1, <1>b, <1>6, <1>7 DEF BeingReused, Filling
<1>9. \A x \in Banks, j \in Bufs, p \in Part :
        Later(x, CacheBuf(x, j), p)' =
          IF x = b /\ j = i /\ p \in parts THEN nand[b][r][p] ELSE Later(x, CacheBuf(x, j), p)
  BY <1>4, <1>5, <1>6, Distinct DEF Later
<1>10. \A p \in Part : newest[cmd.lpn][p] # 0 => nand[b][r][p] = newest[cmd.lpn][p]
  <2>1. Flash(b, r) = nand[b][r]
    BY <1>5 DEF Flash
  <2> QED BY <1>1, <1>b, <1>2, <2>1 DEF IInv, FlashInv
<1>11. TypeOK'
  <2>1. ThreadTypeOK'
    BY <1>7 DEF IInv, TypeOK, ThreadTypeOK, Labels
  <2>2. CacheTypeOK'
    BY <1>7 DEF IInv, TypeOK, CacheTypeOK
  <2>3. HostTypeOK' /\ RingTypeOK' /\ MapTypeOK'
    BY DEF IInv, TypeOK, HostTypeOK, RingTypeOK, ringVars, MapTypeOK
  <2> QED BY <1>5, <2>1, <2>2, <2>3 DEF TypeOK
<1>12. OneInv'
  BY <1>5, <1>7 DEF OneInv
<1>13. ThreadInv'
  BY <1>1, <1>b, <1>6, <1>7 DEF IInv, ThreadInv, Holding
<1>14. EntsInv'
  BY <1>6 DEF IInv, EntsInv
<1>15. ProgInv' /\ EraseInv'
  BY <1>4, <1>5, <1>6 DEF IInv, ProgInv, EraseInv
<1>16. ReadInv'
  <2> SUFFICES ASSUME NEW x \in Banks, InBank(x)'.op = "read", ~InBank(x)'.sata
               PROVE  \E j \in Bufs :
                 /\ InBank(x)'.buf = CacheBuf(x, j)
                 /\ \/ incomplete[x] = j /\ ents[x][j].dirty
                    \/ Filling(x, j)' /\ (place' = "enqueue" =>
                                             InBank(x)'.parts \cap cmd.parts = {})
    BY <1>6 DEF ReadInv
  <2>1. CASE x = b
    <3>1. place' = "enqueue" => parts \cap cmd.parts = {}
      BY <1>3, <1>7
    <3> QED BY <1>1, <1>b, <1>4, <1>5, <1>8, <2>1, <3>1
  <2>2. CASE x # b
    BY <1>5, <1>8, <2>2 DEF IInv, ReadInv
  <2> QED BY <2>1, <2>2
<1>17. FillInv'
  <2>1. \A p \in Part : p \in parts /\ newest[cmd.lpn][p] # 0 =>
           Later(b, CacheBuf(b, i), p)' = newest[cmd.lpn][p]
    BY <1>1, <1>b, <1>9, <1>10
  <2>3. InBank(b)'.op = "read" /\ InBank(b)'.buf = CacheBuf(b, i)
    BY <1>4, <1>5
  <2>4. place' = "centerwr" => parts = Part
    BY <1>3, <1>7
  <2>5. place' = "enqueue" => parts = Part \ cmd.parts
    BY <1>3, <1>7
  <2>6. place' = "centerwr" => \A p \in Part :
           newest[cmd.lpn][p] # 0 => Later(b, CacheBuf(b, i), p)' = newest[cmd.lpn][p]
    BY <2>1, <2>4
  <2>7. place' = "enqueue" => \A p \in Part \ cmd.parts :
           newest[cmd.lpn][p] # 0 => Later(b, CacheBuf(b, i), p)' = newest[cmd.lpn][p]
    BY <2>1, <2>5
  <2> QED BY <1>6, <1>7, <2>3, <2>6, <2>7 DEF FillInv
<1>18. BufInv'
  <2> SUFFICES ASSUME NEW x \in Banks, NEW j \in Bufs, ents[x][j].lpn # NoLpn,
                      ~BeingReused(x, j)', NEW p \in Part, newest[ents[x][j].lpn][p] # 0
               PROVE  Later(x, CacheBuf(x, j), p)' = newest[ents[x][j].lpn][p]
    BY <1>6 DEF BufInv
  <2>1. ~(x = b /\ j = i)
    BY <1>1, <1>b, <1>8 DEF BeingReused, Hits
  <2>2. ~BeingReused(x, j)
    BY <1>8
  <2> QED BY <1>9, <2>1, <2>2 DEF IInv, BufInv
<1>19. FlashInv'
  <2>1. \A x \in Banks : \A q : Flash(x, q)' = Flash(x, q)
    BY <1>4, <1>5, <1>6 DEF Flash
  <2>2. \A l \in Lpn : BankOf(l) \in Banks
    BY Consts
  <2> QED BY <1>6, <2>1, <2>2 DEF IInv, FlashInv
<1>20. SlotInv'
  <2>1. UNCHANGED <<rdId, rdPtr, ready, want, NextRd, Window>>
    BY DEF ringVars, NextRd, Window, Before
  <2>2. \A x \in Banks : ToHost(x)' = ToHost(x) /\ (ToHost(x) => InBank(x)' = InBank(x))
    BY <1>4, <1>5 DEF ToHost
  <2>3. \A k \in Slots : SlotRight(k)' = SlotRight(k)
    BY <1>6, <2>1 DEF SlotRight
  <2>4. place' # "rlimit"
    BY <1>7
  <2> QED BY <1>6, <2>1, <2>2, <2>3, <2>4 DEF IInv, SlotInv
<1>21. FlushInv' /\ CountInv'
  BY <1>1, <1>b, <1>7, FlushKeeps, CountKeeps
<1> QED BY <1>11, <1>12, <1>13, <1>14, <1>15, <1>16, <1>17, <1>18, <1>19, <1>20, <1>21 DEF IInv

LEMMA ReadIssueStep == ASSUME PromptAccept, IInv, ReadIssue PROVE IInv'
<1> USE DEF ReadIssue, At, EndCmd
<1>1. /\ place = "rissue" /\ place' = "idle" /\ cmd.lpn \in Lpn /\ bk \in Banks
      /\ bk = BankOf(cmd.lpn)
      /\ WrFree /\ BankIdle(bk) /\ Hits(cmd.lpn) = {}
      /\ rdId \in Slots /\ rdPtr \in Slots /\ want \in [Slots -> Content]
      /\ newest[cmd.lpn] \in Content /\ NextRd # rdPtr
  BY CmdTypes DEF place, IInv, ThreadInv, OneInv, TypeOK, RingTypeOK, HostTypeOK, bk
<1>b. PICK b \in Banks, m \in Slots : b = bk /\ m = rdId
  BY <1>1
<1>2. PICK r \in Row : r = map[cmd.lpn]
  BY <1>1, <1>b DEF IInv, TypeOK, MapTypeOK
<1> DEFINE c == ReadToHost(b, r, RdBuf(m))
<1>3. /\ c \in ReadCmd /\ c.bank = b /\ c.op = "read" /\ c.row = r /\ c.sata
      /\ c.buf = RdBuf(m) /\ c.parts = Part /\ Issue(c)
  BY <1>1, <1>b, <1>2, BufferTypes, Consts DEF ReadToHost, ReadCmd
<1> HIDE DEF c
<1>4. /\ InBank(b) = NoCmd /\ InBank(b)' = c /\ NoCmd.op = "none"
      /\ \A x \in Banks : x # b => InBank(x)' = InBank(x)
      /\ CtrlTypeOK' /\ (~WrFree' => BankIdle(wr.bank)')
      /\ \A x \in Banks : ~BankIdle(x)' => bsp'[x].bank = x
  BY <1>1, <1>b, <1>3, IssueView DEF IInv, Cmd, NoCmd
<1>5. /\ UNCHANGED <<bsp, dram, nand, ents, map, next, incomplete, newest, rdPtr, ready>>
      /\ \A l : Hits(l)' = Hits(l)
  BY DEF Hits
<1>6. \A x, j : ~BeingReused(x, j) /\ ~BeingReused(x, j)' /\ ~Filling(x, j) /\ ~Filling(x, j)'
  BY <1>1, <1>b DEF BeingReused, Filling
<1>7. /\ rdId' = NextRd /\ NextRd \in Slots /\ m \notin Window /\ Window \subseteq Slots
      /\ Window' = Window \cup {m}
  <2>1. Window' = Before(NextRd)
    BY <1>5 DEF Window, Before
  <2> QED BY <1>1, <1>b, <2>1, WindowFacts
<1>8. /\ want' \in [Slots -> Content] /\ want'[m] = newest[cmd.lpn]
      /\ \A k \in Slots : k # m => want'[k] = want[k]
  BY <1>1, <1>b
<1>9. \A p \in Part : newest[cmd.lpn][p] # 0 => nand[b][r][p] = newest[cmd.lpn][p]
  <2>1. Flash(b, r) = nand[b][r]
    BY <1>4 DEF Flash
  <2> QED BY <1>1, <1>b, <1>2, <2>1 DEF IInv, FlashInv
<1>10. TypeOK'
  <2>1. ThreadTypeOK'
    BY DEF IInv, TypeOK, ThreadTypeOK, Labels, localVars
  <2>2. CacheTypeOK'
    BY DEF IInv, TypeOK, CacheTypeOK
  <2>3. RingTypeOK'
    BY <1>1, <1>b, <1>5, <1>7, <1>8 DEF IInv, TypeOK, RingTypeOK
  <2>4. HostTypeOK' /\ MapTypeOK'
    BY DEF IInv, TypeOK, HostTypeOK, MapTypeOK
  <2> QED BY <1>4, <2>1, <2>2, <2>3, <2>4 DEF TypeOK
<1>11. OneInv' /\ ThreadInv'
  BY <1>1, <1>b, <1>4 DEF OneInv, ThreadInv, Holding
<1>12. EntsInv'
  BY <1>5 DEF IInv, EntsInv
<1>13. ProgInv' /\ EraseInv'
  BY <1>3, <1>4, <1>5 DEF IInv, ProgInv, EraseInv
<1>14. ReadInv'
  BY <1>3, <1>4, <1>5, <1>6 DEF IInv, ReadInv
<1>15. FillInv'
  BY <1>1, <1>b, <1>6 DEF FillInv
<1>16. BufInv'
  <2>1. \A x \in Banks, j \in Bufs, p \in Part :
          Later(x, CacheBuf(x, j), p)' = Later(x, CacheBuf(x, j), p)
    BY <1>3, <1>4, <1>5, Distinct DEF Later
  <2> QED BY <1>5, <1>6, <2>1 DEF IInv, BufInv
<1>17. FlashInv'
  <2>1. \A x \in Banks : \A q : Flash(x, q)' = Flash(x, q)
    BY <1>3, <1>4, <1>5 DEF Flash
  <2>2. \A l \in Lpn : BankOf(l) \in Banks
    BY Consts
  <2> QED BY <1>5, <2>1, <2>2 DEF IInv, FlashInv
<1>18. SlotInv'
  <2>1. \A k \in Slots : ready[k] => k \in Window /\ k # m /\ SlotRight(k)
    BY <1>7 DEF IInv, SlotInv
  <2>2. \A k \in Slots : k # m /\ SlotRight(k) => SlotRight(k)'
    BY <1>5, <1>8 DEF SlotRight
  <2>3. \A k \in Slots : ready'[k] => k \in Window' /\ SlotRight(k)'
    BY <1>5, <1>7, <2>1, <2>2
  <2>4. ToHost(b)' /\ ~ToHost(b) /\ \A x \in Banks : x # b => ToHost(x)' = ToHost(x)
    BY <1>3, <1>4 DEF ToHost
  <2>5. \A k \in Window' :
          ready'[k] \/ \E x \in Banks : ToHost(x)' /\ InBank(x)'.buf = RdBuf(k)
    <3> SUFFICES ASSUME NEW k \in Window', ~ready[k]
                 PROVE  \E x \in Banks : ToHost(x)' /\ InBank(x)'.buf = RdBuf(k)
      BY <1>5
    <3>1. CASE k = m
      BY <1>1, <1>b, <1>3, <1>4, <2>4, <3>1
    <3>2. CASE k \in Window
      <4>1. PICK x \in Banks : ToHost(x) /\ InBank(x).buf = RdBuf(k)
        BY <3>2 DEF IInv, SlotInv
      <4> QED BY <1>4, <2>4, <4>1
    <3> QED BY <1>7, <3>1, <3>2
  <2>6. ASSUME NEW x \in Banks, ToHost(x)', x # b
        PROVE  \E k \in Window :
                 /\ k # m /\ k \in Slots
                 /\ InBank(x)'.buf = RdBuf(k) /\ ~ready'[k] /\ InBank(x)'.parts = Part
                 /\ \A p \in Part : want'[k][p] # 0 => nand'[x][InBank(x)'.row][p] = want'[k][p]
    <3>1. ToHost(x) /\ InBank(x)' = InBank(x)
      BY <1>4, <2>4, <2>6
    <3>2. PICK k \in Window :
            /\ InBank(x).buf = RdBuf(k) /\ ~ready[k] /\ InBank(x).parts = Part
            /\ \A p \in Part : want[k][p] # 0 => nand[x][InBank(x).row][p] = want[k][p]
      BY <3>1 DEF IInv, SlotInv
    <3>3. k # m /\ k \in Slots
      BY <1>7
    <3>4. want'[k] = want[k]
      BY <1>8, <3>3
    <3> QED BY <1>5, <3>1, <3>2, <3>3, <3>4
  <2>7. \A x \in Banks : ToHost(x)' =>
          \E k \in Window' :
            /\ InBank(x)'.buf = RdBuf(k) /\ ~ready'[k] /\ InBank(x)'.parts = Part
            /\ \A p \in Part : want'[k][p] # 0 => nand'[x][InBank(x)'.row][p] = want'[k][p]
    <3> SUFFICES ASSUME NEW x \in Banks, ToHost(x)'
                 PROVE  \E k \in Window' :
            /\ InBank(x)'.buf = RdBuf(k) /\ ~ready'[k] /\ InBank(x)'.parts = Part
            /\ \A p \in Part : want'[k][p] # 0 => nand'[x][InBank(x)'.row][p] = want'[k][p]
      OBVIOUS
    <3>1. CASE x = b
      <4>1. ~ready'[m] /\ m \in Window'
        BY <1>1, <1>b, <1>5, <1>7, <2>1
      <4>2. \A p \in Part : want'[m][p] # 0 => nand'[b][r][p] = want'[m][p]
        BY <1>5, <1>8, <1>9
      <4> QED BY <1>3, <1>4, <3>1, <4>1, <4>2
    <3>2. CASE x # b
      BY <1>7, <2>6, <3>2
    <3> QED BY <3>1, <3>2
  <2>8. \A x, y \in Banks : ToHost(x)' /\ ToHost(y)' /\ InBank(x)'.buf = InBank(y)'.buf => x = y
    <3>1. \A x \in Banks : x # b /\ ToHost(x)' => InBank(x)'.buf # InBank(b)'.buf
      BY <1>3, <1>4, <2>6, Distinct
    <3> QED BY <1>4, <2>4, <3>1 DEF IInv, SlotInv
  <2> QED BY <1>1, <1>b, <2>3, <2>5, <2>7, <2>8 DEF SlotInv
<1>19. FlushInv'
  BY <1>1, <1>b DEF FlushInv
<1>20. CountInv'
  BY <1>1, <1>b, CountKeeps DEF NoHostCmd
<1> QED BY <1>10, <1>11, <1>12, <1>13, <1>14, <1>15, <1>16, <1>17, <1>18, <1>19, <1>20 DEF IInv

\* A page is copied to the read buffer.
LEMMA FillStep ==
  ASSUME IInv, pc \in {"rhit", "rzero"}, NEW content \in Content, FillRdBuf(content),
         \A p \in Part : newest[cmd.lpn][p] # 0 => content[p] = newest[cmd.lpn][p]
  PROVE  IInv'
<1> USE DEF FillRdBuf, cacheVars, localVars, hostVars
<1>1. /\ place = pc /\ place' = "rlimit" /\ cmd.lpn \in Lpn /\ NextRd # rdPtr
      /\ rdId \in Slots /\ rdPtr \in Slots /\ want \in [Slots -> Content]
      /\ newest[cmd.lpn] \in Content /\ dram \in [Buffer -> Content]
  BY CmdTypes DEF place, IInv, ThreadInv, TypeOK, CtrlTypeOK, RingTypeOK, HostTypeOK
<1>2. PICK m \in Slots : m = rdId
  BY <1>1
<1>3. /\ dram' \in [Buffer -> Content] /\ dram'[RdBuf(m)] = content
      /\ \A f \in Buffer : f # RdBuf(m) => dram'[f] = dram[f]
  BY <1>1, <1>2, BufferTypes
<1>4. /\ want' \in [Slots -> Content] /\ want'[m] = newest[cmd.lpn]
      /\ \A k \in Slots : k # m => want'[k] = want[k]
  BY <1>1, <1>2
<1>5. /\ UNCHANGED <<wr, bsp, nand, ents, incomplete, map, next, newest, bk, rdId, rdPtr,
                   ready, NextRd, Window>>
      /\ \A l : Hits(l)' = Hits(l)
  BY DEF bk, Hits, NextRd, Window, Before
<1>6. \A x : UNCHANGED <<InBank(x), BankIdle(x), ToHost(x)>> /\ UNCHANGED WrFree
  BY <1>5 DEF InBank, BankIdle, WrFree, ToHost
<1>7. \A x, j : ~BeingReused(x, j) /\ ~BeingReused(x, j)' /\ ~Filling(x, j) /\ ~Filling(x, j)'
  BY <1>1 DEF BeingReused, Filling
<1>8. TypeOK'
  <2>1. CtrlTypeOK'
    BY <1>3 DEF IInv, TypeOK, CtrlTypeOK
  <2>2. ThreadTypeOK' /\ RingTypeOK'
    BY <1>4 DEF IInv, TypeOK, ThreadTypeOK, RingTypeOK, Labels
  <2>3. CacheTypeOK' /\ MapTypeOK' /\ HostTypeOK'
    BY DEF IInv, TypeOK, CacheTypeOK, MapTypeOK, HostTypeOK
  <2> QED BY <2>1, <2>2, <2>3 DEF TypeOK
<1>9. OneInv'
  BY <1>1, <1>5, <1>6 DEF IInv, OneInv
<1>10. ThreadInv'
  BY <1>1, <1>5 DEF IInv, ThreadInv, Holding
<1>11. EntsInv' /\ EraseInv'
  BY <1>5, <1>6 DEF IInv, EntsInv, EraseInv
<1>12. ProgInv'
  <2> SUFFICES ASSUME NEW x \in Banks, InBank(x).op = "prog"
               PROVE  InBank(x).data = dram'[InBank(x).buf]
    BY <1>5, <1>6 DEF IInv, ProgInv
  <2>1. InBank(x).buf \in Buffer /\ InBank(x).buf # RdBuf(m) /\ InBank(x).data = dram[InBank(x).buf]
    BY BufferTypes, Distinct DEF IInv, ProgInv
  <2> QED BY <1>3, <2>1
<1>13. ReadInv'
  BY <1>5, <1>6, <1>7 DEF IInv, ReadInv
<1>14. FillInv'
  BY <1>1, <1>7 DEF FillInv
<1>15. BufInv'
  <2>1. \A x \in Banks, j \in Bufs, p \in Part :
          Later(x, CacheBuf(x, j), p)' = Later(x, CacheBuf(x, j), p)
    BY <1>3, <1>5, <1>6, BufferTypes, Distinct DEF Later
  <2> QED BY <1>5, <1>7, <2>1 DEF IInv, BufInv
<1>16. FlashInv'
  <2>1. \A x, q : Flash(x, q)' = Flash(x, q)
    BY <1>5, <1>6 DEF Flash
  <2> QED BY <1>5, <2>1 DEF IInv, FlashInv
<1>17. SlotInv'
  <2>1. m \notin Window /\ Window \subseteq Slots
    BY <1>1, <1>2, WindowFacts
  <2>2. \A k \in Slots : k # m => SlotRight(k)' = SlotRight(k)
    BY <1>3, <1>4, BufferTypes, Distinct DEF SlotRight
  <2>3. SlotRight(m)'
    BY <1>3, <1>4 DEF SlotRight
  <2>4. SlotRight(rdId)'
    BY <1>2, <1>5, <2>3 DEF SlotRight
  <2>5. \A k \in Slots : ready'[k] => k \in Window' /\ SlotRight(k)'
    BY <1>5, <2>1, <2>2 DEF IInv, SlotInv
  <2>6. \A x \in Banks : ToHost(x) =>
          \E k \in Window :
            /\ InBank(x).buf = RdBuf(k) /\ ~ready[k] /\ InBank(x).parts = Part
            /\ \A p \in Part : want'[k][p] # 0 => nand[x][InBank(x).row][p] = want'[k][p]
    <3> SUFFICES ASSUME NEW x \in Banks, ToHost(x)
                 PROVE  \E k \in Window :
            /\ InBank(x).buf = RdBuf(k) /\ ~ready[k] /\ InBank(x).parts = Part
            /\ \A p \in Part : want'[k][p] # 0 => nand[x][InBank(x).row][p] = want'[k][p]
      OBVIOUS
    <3>1. PICK k \in Window :
            /\ InBank(x).buf = RdBuf(k) /\ ~ready[k] /\ InBank(x).parts = Part
            /\ \A p \in Part : want[k][p] # 0 => nand[x][InBank(x).row][p] = want[k][p]
      BY DEF IInv, SlotInv
    <3>2. want'[k] = want[k]
      BY <1>4, <2>1
    <3> QED BY <3>1, <3>2
  <2> QED BY <1>1, <1>5, <1>6, <2>4, <2>5, <2>6 DEF IInv, SlotInv
<1>18. FlushInv'
  BY <1>1 DEF FlushInv
<1>19. CountInv'
  BY <1>1, CountKeeps
<1> QED BY <1>8, <1>9, <1>10, <1>11, <1>12, <1>13, <1>14, <1>15, <1>16, <1>17, <1>18, <1>19 DEF IInv

LEMMA ReadHitStep == ASSUME PromptAccept, IInv, ReadHit PROVE IInv'
<1> USE DEF ReadHit, At
<1>1. /\ place = "rhit" /\ cmd.lpn \in Lpn /\ bk \in Banks /\ buf \in Hits(cmd.lpn) /\ buf \in Bufs
      /\ BufComplete(bk, buf) /\ dram \in [Buffer -> Content] /\ bk = BankOf(cmd.lpn)
  BY CmdTypes DEF place, IInv, ThreadInv, TypeOK, CtrlTypeOK, ThreadTypeOK, bk
<1> DEFINE f == CacheBuf(bk, buf)
<1>2. f \in Buffer /\ dram[f] \in Content
  BY <1>1, BufferTypes
<1>3. ents[bk][buf].lpn = cmd.lpn /\ cmd.lpn # NoLpn
  BY <1>1, Consts DEF Hits
<1>4. \A p \in Part : newest[cmd.lpn][p] # 0 => Later(bk, f, p) = newest[cmd.lpn][p]
  BY <1>1, <1>3 DEF IInv, BufInv, BeingReused
<1>5. InBank(bk).op = "read" => InBank(bk).buf # f
  <2> SUFFICES ASSUME InBank(bk).op = "read", InBank(bk).buf = f
               PROVE  FALSE
    OBVIOUS
  <2>1. ~InBank(bk).sata /\ incomplete[bk] = buf
    BY <1>1, ReadBuffers, Distinct DEF IInv, ReadInv, Filling
  <2>2. InBank(bk) = NoCmd
    BY <1>1, <2>1, Consts DEF BufComplete, InBank, BankIdle
  <2> QED BY <2>2 DEF NoCmd
<1>6. \A p \in Part : Later(bk, f, p) = dram[f][p]
  BY <1>5 DEF Later
<1> HIDE DEF f
<1>7. pc = "rhit" /\ FillRdBuf(dram[f])
  BY DEF f
<1> QED BY <1>2, <1>4, <1>6, <1>7, FillStep

LEMMA ReadZeroStep == ASSUME PromptAccept, IInv, ReadZero PROVE IInv'
<1> USE DEF ReadZero, At
<1>1. place = "rzero" /\ cmd.lpn \in Lpn /\ map[cmd.lpn] = 0 /\ Hits(cmd.lpn) = {}
  BY CmdTypes DEF place, IInv, ThreadInv
<1>2. BlankPage \in Content
  BY Consts DEF BlankPage, Content
<1>3. \A p \in Part : newest[cmd.lpn][p] = 0
  BY <1>1 DEF IInv, FlashInv
<1> QED BY <1>2, <1>3, FillStep

LEMMA FrontType ==
  ASSUME NEW s \in [1..NumBufs -> Bufs], NEW i \in Bufs
  PROVE  ToFront(s, i) \in [1..NumBufs -> Bufs]
<1> DEFINE at == CHOOSE p \in 1..NumBufs : s[p] = i
<1> HIDE DEF at
<1> SUFFICES ASSUME NEW p \in 1..NumBufs
             PROVE  (IF p = 1 THEN i ELSE IF p <= at THEN s[p - 1] ELSE s[p]) \in Bufs
  BY DEF ToFront, at
<1>1. p # 1 => p - 1 \in 1..NumBufs
  BY Consts
<1> QED BY <1>1

\* The running write puts its data into its buffer, which is complete.
LEMMA EnqueueStep == ASSUME PromptAccept, IInv, Enqueue PROVE IInv'
<1> USE DEF Enqueue, At, EndCmd
<1>1. /\ place = "enqueue" /\ place' = "idle" /\ pc = "enqueue" /\ pc' = "idle"
      /\ cmd.kind = "write" /\ cmd.lpn \in Lpn /\ cmd.lpn # NoLpn /\ cmd.parts \in SUBSET Part
      /\ bk \in Banks /\ bk = BankOf(cmd.lpn) /\ buf \in Bufs /\ WrFree
      /\ \/ buf \in Hits(cmd.lpn)
         \/ Hits(cmd.lpn) = {} /\ ~ents[bk][buf].dirty
      /\ ops \in 0..MaxOps /\ comp \in BOOLEAN
  BY CmdTypes, ThreadFree, Consts
     DEF place, IInv, ThreadInv, TypeOK, ThreadTypeOK, HostTypeOK, bk
<1>2. PICK b \in Banks, i \in Bufs, l \in Lpn : b = bk /\ i = buf /\ l = cmd.lpn
  BY <1>1
<1> DEFINE f == CacheBuf(b, i)
<1>3. f \in Buffer /\ dram[f] \in Content /\ dram \in [Buffer -> Content]
      /\ newest \in [Lpn -> Content] /\ newest[l] \in Content
  BY BufferTypes DEF IInv, TypeOK, CtrlTypeOK, HostTypeOK
<1>4. \A old \in Content : Overlay(old, cmd.parts, ops) \in Content
  BY <1>1, Consts DEF Overlay, Content
<1>5. /\ dram' \in [Buffer -> Content]
      /\ \A p \in Part : dram'[f][p] = IF p \in cmd.parts THEN ops ELSE dram[f][p]
      /\ \A g \in Buffer : g # f => dram'[g] = dram[g]
  <2>1. dram' = [dram EXCEPT ![f] = Overlay(dram[f], cmd.parts, ops)]
    BY <1>2
  <2>2. dram'[f] = Overlay(dram[f], cmd.parts, ops)
    BY <1>3, <2>1
  <2> QED BY <1>3, <1>4, <2>1, <2>2 DEF Overlay
<1>6. /\ newest' \in [Lpn -> Content]
      /\ \A p \in Part : newest'[l][p] = IF p \in cmd.parts THEN ops ELSE newest[l][p]
      /\ \A m \in Lpn : m # l => newest'[m] = newest[m]
  <2>1. newest' = [newest EXCEPT ![l] = Overlay(newest[l], cmd.parts, ops)]
    BY <1>2
  <2>2. newest'[l] = Overlay(newest[l], cmd.parts, ops)
    BY <1>3, <2>1
  <2> QED BY <1>3, <1>4, <2>1, <2>2 DEF Overlay
<1>7. /\ ents' \in [Banks -> [Bufs -> [lpn: Lpn \cup {NoLpn}, dirty: BOOLEAN]]]
      /\ ents'[b][i] = [lpn |-> l, dirty |-> TRUE]
      /\ \A x \in Banks, j \in Bufs : x # b \/ j # i => ents'[x][j] = ents[x][j]
  <2> DEFINE Ent == [lpn: Lpn \cup {NoLpn}, dirty: BOOLEAN]
             e == [lpn |-> l, dirty |-> TRUE]
             g == [ents[b] EXCEPT ![i] = e]
  <2>1. ents \in [Banks -> [Bufs -> Ent]] /\ ents[b] \in [Bufs -> Ent] /\ e \in Ent
    BY DEF IInv, TypeOK, CacheTypeOK
  <2>2. ents' = [ents EXCEPT ![b] = g]
    BY <1>2
  <2> HIDE DEF Ent, e
  <2>3. g \in [Bufs -> Ent] /\ g[i] = e /\ \A j \in Bufs : j # i => g[j] = ents[b][j]
    BY <2>1
  <2> HIDE DEF g
  <2>4. ents' \in [Banks -> [Bufs -> Ent]] /\ ents'[b] = g
        /\ \A x \in Banks : x # b => ents'[x] = ents[x]
    BY <2>1, <2>2, <2>3
  <2> QED BY <2>3, <2>4 DEF Ent, e
<1>8. /\ incomplete' \in [Banks -> Bufs \cup {NoBuf}]
      /\ incomplete'[b] = IF ~comp THEN i ELSE IF incomplete[b] = i THEN NoBuf ELSE incomplete[b]
      /\ \A x \in Banks : x # b => incomplete'[x] = incomplete[x]
  BY <1>2 DEF IInv, TypeOK, CacheTypeOK
<1>9. /\ UNCHANGED <<wr, bsp, nand, map, next, stall, ops, rdId, rdPtr, ready, want, NextRd,
                   Window>>
  BY DEF ringVars, NextRd, Window, Before, localVars
<1> HIDE DEF f
<1>10. \A x : UNCHANGED <<InBank(x), BankIdle(x), ToHost(x)>> /\ UNCHANGED WrFree
  BY <1>9 DEF InBank, BankIdle, WrFree, ToHost
<1>11. \A x, j : ~BeingReused(x, j)' /\ ~Filling(x, j)'
  BY <1>1 DEF BeingReused, Filling
<1>12. incomplete[b] = i => InBank(b) = NoCmd /\ NoCmd.op = "none"
  BY <1>1, <1>2 DEF BufComplete, InBank, BankIdle, NoCmd
<1>13. Filling(b, i) <=> ~comp
  BY <1>1, <1>2 DEF Filling
<1>14. \A x \in Banks, j \in Bufs : ents[x][j].lpn = l => x = b /\ j = i
  BY <1>1, <1>2 DEF IInv, EntsInv, Hits
\* What the buffer will hold.
<1>15. \A p \in Part : Later(b, f, p)' = IF p \in cmd.parts THEN ops ELSE Later(b, f, p)
  <2>1. InBank(b).op = "read" /\ InBank(b).buf = f => InBank(b).parts \cap cmd.parts = {}
    <3> SUFFICES ASSUME InBank(b).op = "read", InBank(b).buf = f
                 PROVE  InBank(b).parts \cap cmd.parts = {}
      OBVIOUS
    <3>1. ~InBank(b).sata
      BY ReadBuffers, Distinct DEF f
    <3>2. incomplete[b] = i \/ InBank(b).parts \cap cmd.parts = {}
      BY <1>1, <3>1, Distinct DEF IInv, ReadInv, f
    <3> QED BY <1>12, <3>2
  <2> QED BY <1>5, <1>9, <1>10, <2>1 DEF Later
<1>16. \A x \in Banks, j \in Bufs, p \in Part : x # b \/ j # i =>
         Later(x, CacheBuf(x, j), p)' = Later(x, CacheBuf(x, j), p)
  BY <1>5, <1>9, <1>10, BufferTypes, Distinct DEF Later, f
<1>17. TypeOK'
  <2>1. CtrlTypeOK'
    BY <1>5 DEF IInv, TypeOK, CtrlTypeOK
  <2>2. lru' \in [Banks -> [1..NumBufs -> Bufs]]
    <3>1. lru \in [Banks -> [1..NumBufs -> Bufs]]
      BY DEF IInv, TypeOK, CacheTypeOK
    <3>2. ToFront(lru[b], i) \in [1..NumBufs -> Bufs]
      BY <3>1, FrontType
    <3>3. lru' = [lru EXCEPT ![b] = ToFront(lru[b], i)]
      BY <1>2
    <3> QED BY <3>1, <3>2, <3>3
  <2>3. CacheTypeOK'
    BY <1>7, <1>8, <1>9, <2>2 DEF IInv, TypeOK, CacheTypeOK
  <2>4. MapTypeOK' /\ RingTypeOK'
    BY <1>9 DEF IInv, TypeOK, MapTypeOK, RingTypeOK
  <2>5. ThreadTypeOK' /\ HostTypeOK'
    BY <1>6 DEF IInv, TypeOK, ThreadTypeOK, HostTypeOK, Labels, localVars
  <2> QED BY <2>1, <2>3, <2>4, <2>5 DEF TypeOK
<1>18. OneInv'
  BY <1>1, <1>9, <1>10 DEF IInv, OneInv
<1>19. ThreadInv'
  BY <1>1 DEF ThreadInv, Holding
<1>20. EntsInv'
  <2> SUFFICES ASSUME NEW x \in Banks, NEW j \in Bufs, ents'[x][j].lpn # NoLpn
               PROVE  /\ BankOf(ents'[x][j].lpn) = x
                      /\ \A k \in Bufs : ents'[x][k].lpn = ents'[x][j].lpn => k = j
    BY DEF EntsInv
  <2>1. CASE x = b /\ j = i
    BY <1>1, <1>2, <1>7, <1>14, <2>1
  <2>2. CASE x # b \/ j # i
    <3>1. ents'[x][j] = ents[x][j] /\ ents[x][j].lpn # l
      BY <1>7, <1>14, <2>2
    <3> QED BY <1>7, <3>1 DEF IInv, EntsInv
  <2> QED BY <2>1, <2>2
<1>21. ProgInv'
  <2> SUFFICES ASSUME NEW x \in Banks, InBank(x).op = "prog"
               PROVE  /\ \/ InBank(x).buf = FtlBuf(x)
                         \/ incomplete'[x] \in Bufs /\ InBank(x).buf = CacheBuf(x, incomplete'[x])
                      /\ InBank(x).row < next[x]
                      /\ InBank(x).data = dram'[InBank(x).buf]
    BY <1>9, <1>10 DEF ProgInv
  <2>1. /\ \/ InBank(x).buf = FtlBuf(x)
           \/ incomplete[x] \in Bufs /\ InBank(x).buf = CacheBuf(x, incomplete[x])
        /\ InBank(x).row < next[x]
        /\ InBank(x).data = dram[InBank(x).buf]
    BY DEF IInv, ProgInv
  <2>2. x = b => comp /\ incomplete[b] # i
    <3>1. x = b => ~Filling(b, i)
      BY <1>2 DEF IInv, FillInv
    <3> QED BY <1>12, <1>13, <3>1
  <2>3. incomplete'[x] = incomplete[x]
    BY <1>8, <2>2
  <2>4. InBank(x).buf \in Buffer /\ InBank(x).buf # f
    BY <2>1, <2>2, BufferTypes, Distinct DEF f
  <2> QED BY <1>5, <2>1, <2>3, <2>4
<1>22. ReadInv'
  <2> SUFFICES ASSUME NEW x \in Banks, InBank(x).op = "read", ~InBank(x).sata
               PROVE  \E j \in Bufs : /\ InBank(x).buf = CacheBuf(x, j)
                                      /\ incomplete'[x] = j /\ ents'[x][j].dirty
    BY <1>10 DEF ReadInv
  <2>1. PICK j \in Bufs :
          /\ InBank(x).buf = CacheBuf(x, j)
          /\ \/ incomplete[x] = j /\ ents[x][j].dirty
             \/ Filling(x, j)
    BY DEF IInv, ReadInv
  <2>2. CASE Filling(x, j)
    <3>1. x = b /\ j = i /\ ~comp
      BY <1>1, <1>2, <2>2 DEF Filling
    <3> QED BY <1>7, <1>8, <2>1, <3>1
  <2>3. CASE incomplete[x] = j /\ ents[x][j].dirty
    <3>1. x = b => j # i
      BY <1>12, <2>3
    <3>2. x = b => comp
      BY <1>2, <1>13, <2>1, <3>1, Distinct DEF IInv, FillInv
    <3>3. incomplete'[x] = j
      BY <1>8, <2>3, <3>1, <3>2
    <3> QED BY <1>7, <2>1, <2>3, <3>1, <3>3
  <2> QED BY <2>1, <2>2, <2>3
<1>23. EraseInv'
  BY <1>10 DEF IInv, EraseInv
<1>24. FillInv'
  BY <1>1, <1>11 DEF FillInv
<1>25. BufInv'
  <2> SUFFICES ASSUME NEW x \in Banks, NEW j \in Bufs, ents'[x][j].lpn # NoLpn, NEW p \in Part
               PROVE  newest'[ents'[x][j].lpn][p] # 0 =>
                        Later(x, CacheBuf(x, j), p)' = newest'[ents'[x][j].lpn][p]
    BY DEF BufInv
  <2>1. CASE x = b /\ j = i
    <3>1. ents'[x][j].lpn = l
      BY <1>7, <2>1
    <3>2. p \notin cmd.parts => (newest[l][p] # 0 => Later(b, f, p) = newest[l][p])
      BY <1>1, <1>2 DEF IInv, FillInv, f
    <3> QED BY <1>6, <1>15, <2>1, <3>1, <3>2 DEF f
  <2>2. CASE x # b \/ j # i
    <3>0. ents \in [Banks -> [Bufs -> [lpn: Lpn \cup {NoLpn}, dirty: BOOLEAN]]]
      BY DEF IInv, TypeOK, CacheTypeOK
    <3>1. ents'[x][j] = ents[x][j] /\ ents[x][j].lpn # l /\ ents[x][j].lpn \in Lpn
      <4>1. ents'[x][j] = ents[x][j]
        BY <1>7, <2>2
      <4>2. ents[x][j].lpn \in Lpn \cup {NoLpn}
        BY <3>0
      <4> QED BY <1>14, <2>2, <4>1, <4>2
    <3>2. ~BeingReused(x, j)
      BY <1>2, <2>2 DEF BeingReused
    <3>3. newest[ents[x][j].lpn][p] # 0 => Later(x, CacheBuf(x, j), p) = newest[ents[x][j].lpn][p]
      BY <3>1, <3>2 DEF IInv, BufInv
    <3>4. newest'[ents[x][j].lpn] = newest[ents[x][j].lpn]
      BY <1>6, <3>1
    <3> QED BY <1>16, <2>2, <3>1, <3>3, <3>4
  <2> QED BY <2>1, <2>2
<1>26. FlashInv'
  <2>1. \A x, q : Flash(x, q)' = Flash(x, q)
    BY <1>9, <1>10 DEF Flash
  <2> SUFFICES ASSUME NEW m \in Lpn
               PROVE  /\ map[m] < next[BankOf(m)]
                      /\ (\A j \in Hits(m)' : ~ents'[BankOf(m)][j].dirty) =>
                           \A p \in Part : newest'[m][p] # 0 =>
                             map[m] # 0 /\ Flash(BankOf(m), map[m])[p] = newest'[m][p]
    BY <1>9, <2>1 DEF FlashInv
  <2>2. map[m] < next[BankOf(m)]
    BY DEF IInv, FlashInv
  <2>3. CASE m = l
    <3>1. i \in Hits(m)' /\ ents'[BankOf(m)][i].dirty
      BY <1>1, <1>2, <1>7, <2>3 DEF Hits
    <3> QED BY <2>2, <3>1
  <2>4. CASE m # l
    <3>1. ASSUME \A j \in Hits(m)' : ~ents'[BankOf(m)][j].dirty, NEW j \in Hits(m)
          PROVE  ~ents[BankOf(m)][j].dirty
      <4>1. CASE BankOf(m) = b /\ j = i
        <5>1. i \notin Hits(l)
          BY <1>1, <1>2, <2>4, <4>1 DEF Hits
        <5> QED BY <1>1, <1>2, <4>1, <5>1
      <4>2. CASE BankOf(m) # b \/ j # i
        <5>1. ents'[BankOf(m)][j] = ents[BankOf(m)][j]
          BY <1>7, <4>2, Consts DEF Hits
        <5> QED BY <3>1, <5>1 DEF Hits
      <4> QED BY <4>1, <4>2
    <3>2. newest'[m] = newest[m]
      BY <1>6, <2>4
    <3> QED BY <3>1, <3>2 DEF IInv, FlashInv
  <2> QED BY <2>3, <2>4
<1>27. SlotInv'
  <2>1. \A k \in Slots : SlotRight(k)' = SlotRight(k)
    BY <1>5, <1>9, BufferTypes, Distinct DEF SlotRight, f
  <2> QED BY <1>1, <1>9, <1>10, <2>1 DEF IInv, SlotInv
<1>28. FlushInv'
  BY <1>1 DEF FlushInv
<1>29. CountInv'
  <2> SUFFICES ASSUME NEW x \in Banks
               PROVE  next[x] > 0 /\ next[x] + 2 * Cardinality(DirtyBufs(x)') + Owed'
                                         <= 1 + 2 * ops + Lent(x)'
    BY <1>9 DEF CountInv
  <2>1. Owed = 2 /\ Owed' = 0 /\ Lent(x) = 0 /\ Lent(x)' = 0
    BY <1>1 DEF Owed, Lent, NoHostCmd
  <2>2. next[x] > 0 /\ next[x] + 2 * Cardinality(DirtyBufs(x)) + 2 <= 1 + 2 * ops
        /\ next[x] \in Nat /\ ops \in Nat /\ Cardinality(DirtyBufs(x)) \in Nat
    <3>1. next[x] > 0 /\ next[x] + 2 * Cardinality(DirtyBufs(x)) + Owed <= 1 + 2 * ops + Lent(x)
      BY DEF IInv, CountInv
    <3>2. next[x] \in Nat /\ ops \in Nat
      BY Consts DEF IInv, TypeOK, MapTypeOK, HostTypeOK
    <3> QED BY <2>1, <3>1, <3>2, DirtyFinite
  <2>3. Cardinality(DirtyBufs(x)') \in Nat
        /\ Cardinality(DirtyBufs(x)') <= Cardinality(DirtyBufs(x)) + 1
    <3>1. DirtyBufs(x)' = DirtyBufs(x) \/ DirtyBufs(x)' = DirtyBufs(x) \cup {i}
      BY <1>7 DEF DirtyBufs
    <3>2. /\ Cardinality(DirtyBufs(x) \cup {i}) \in Nat
          /\ Cardinality(DirtyBufs(x) \cup {i}) <= Cardinality(DirtyBufs(x)) + 1
      BY DirtyFinite, FS_AddElement
    <3>3. CASE DirtyBufs(x)' = DirtyBufs(x)
      BY <2>2, <3>3
    <3>4. CASE DirtyBufs(x)' = DirtyBufs(x) \cup {i}
      BY <3>2, <3>4
    <3> QED BY <3>1, <3>3, <3>4
  <2> QED BY <2>1, <2>2, <2>3
<1> QED BY <1>17, <1>18, <1>19, <1>20, <1>21, <1>22, <1>23, <1>24, <1>25, <1>26, <1>27, <1>28,
           <1>29 DEF IInv

-----------------------------------------------------------------------------
(* The invariant holds, and what follows from it.                          *)

LEMMA InitIInv == Init => IInv
<1> SUFFICES ASSUME Init PROVE IInv
  OBVIOUS
<1> USE DEF Init, CtrlInit
<1>1. place = "idle" /\ WrFree /\ \A b \in Banks : BankIdle(b) /\ InBank(b) = NoCmd
  BY Consts DEF place, WrFree, BankIdle, InBank
<1>2. NoCmd.op = "none" /\ NoHostCmd.kind = "none"
  BY DEF NoCmd, NoHostCmd
<1>3. /\ 0 \in Banks /\ 0 \in Bufs /\ 0 \in Slots /\ 0 \in 0..NumBanks /\ 0 \in Row /\ 1 \in Row
      /\ 0 \in 0..MaxOps /\ BlankPage \in Content /\ \A p \in Part : BlankPage[p] = 0
  BY Consts DEF Banks, Bufs, Slots, BlankPage, Content
<1>4. TypeOK
  <2>1. CtrlTypeOK
    BY <1>3, Consts DEF CtrlTypeOK
  <2>2. CacheTypeOK
    <3>1. \A k \in 1..NumBufs : k - 1 \in Bufs
      BY Consts DEF Bufs
    <3> QED BY <3>1 DEF CacheTypeOK
  <2>3. MapTypeOK /\ RingTypeOK /\ ThreadTypeOK /\ HostTypeOK
    BY <1>3 DEF MapTypeOK, RingTypeOK, ThreadTypeOK, HostTypeOK, Labels
  <2> QED BY <2>1, <2>2, <2>3 DEF TypeOK
<1>5. OneInv /\ ThreadInv
  BY <1>1 DEF OneInv, ThreadInv, Holding
<1>6. EntsInv
  BY DEF EntsInv
<1>7. ProgInv /\ ReadInv /\ EraseInv
  BY <1>1, <1>2 DEF ProgInv, ReadInv, EraseInv
<1>8. FillInv
  BY <1>1 DEF FillInv, Filling
<1>9. BufInv
  BY DEF BufInv
<1>10. FlashInv
  BY <1>3, Consts DEF FlashInv
<1>11. SlotInv
  <2>1. Window = {}
    <3>1. \A s \in Slots : (s - 0) % NumRdBufs >= 0 /\ (0 - 0) % NumRdBufs = 0
      BY <1>3, SlotDistance, Consts DEF Slots
    <3>2. Window = {s \in Slots : (s - 0) % NumRdBufs < (0 - 0) % NumRdBufs}
      BY DEF Window, Before
    <3>3. \A s \in Slots : (s - 0) % NumRdBufs \in Int
      BY Consts DEF Slots
    <3> QED BY <3>1, <3>2, <3>3
  <2> QED BY <1>1, <1>2, <2>1 DEF SlotInv, ToHost
<1>12. FlushInv
  BY <1>1 DEF FlushInv
<1>13. CountInv
  <2>1. \A b \in Banks : DirtyBufs(b) = {}
    BY DEF DirtyBufs
  <2>2. \A b \in Banks : Cardinality(DirtyBufs(b)) = 0
    BY <2>1, FS_EmptySet
  <2>3. Owed = 0 /\ \A b : Lent(b) = 0
    BY <1>2 DEF Owed, Lent
  <2>4. ops = 0 /\ \A b \in Banks : next[b] = 1
    OBVIOUS
  <2> HIDE DEF Init, CtrlInit
  <2>5. \A b \in Banks : next[b] > 0 /\ next[b] + 2 * Cardinality(DirtyBufs(b)) + Owed
                                          <= 1 + 2 * ops + Lent(b)
    BY <2>2, <2>3, <2>4
  <2> QED BY <2>5 DEF CountInv
<1> QED BY <1>4, <1>5, <1>6, <1>7, <1>8, <1>9, <1>10, <1>11, <1>12, <1>13 DEF IInv

LEMMA StutterIInv == ASSUME IInv, UNCHANGED vars PROVE IInv'
<1> USE DEF vars, cacheVars, ringVars, localVars, hostVars
<1>1. UNCHANGED <<flashVars, ringVars, place, bk, ents, map, next, newest, ops>>
      /\ \A l : Hits(l)' = Hits(l)
  BY DEF place, bk, Hits
<1>2. \A b, i : BeingReused(b, i)' = BeingReused(b, i) /\ Filling(b, i)' = Filling(b, i)
  BY <1>1 DEF BeingReused, Filling
<1>3. TypeOK'
  BY DEF IInv, TypeOK, CtrlTypeOK, CacheTypeOK, MapTypeOK, RingTypeOK, ThreadTypeOK,
         HostTypeOK, flashVars
<1>4. OneInv' /\ ThreadInv'
  BY <1>1 DEF IInv, OneInv, ThreadInv, WrFree, BankIdle, flashVars
<1>5. EntsInv' /\ ProgInv' /\ ReadInv' /\ EraseInv' /\ BufInv' /\ FlashInv'
  BY <1>1, <1>2, LocalKeeps
<1>6. FillInv'
  BY <1>1, <1>2, SameView DEF IInv, FillInv
<1>7. SlotInv' /\ FlushInv' /\ CountInv'
  BY <1>1, SlotKeeps, FlushKeeps, CountKeeps
<1> QED BY <1>3, <1>4, <1>5, <1>6, <1>7 DEF IInv

LEMMA NextIInv == ASSUME PromptAccept, IInv, Next PROVE IInv'
<1>1. CASE PrereadWait
  BY <1>1, WaitBankStep DEF PrereadWait
<1>2. CASE CenterWait
  BY <1>2, WaitBankStep DEF CenterWait
<1>3. CASE ReadWait
  BY <1>3, WaitBankStep DEF ReadWait
<1>4. CASE Thread
  BY <1>1, <1>2, <1>3, <1>4, PoolStep, WriteLookupStep, CleanPoolStep, CleanFoundStep,
     PrereadStep, CenterWrStep, EnqueueStep, ReadLookupStep, ReadHitStep, ReadZeroStep,
     ReadLimitStep, ReadIssueStep, FlushBankStep, FlushRoundStep, FlushDoneStep,
     SummaryDoneStep, DequeueRestStep DEF Thread
<1> QED BY <1>4, HostCmdStep, DataArrivesStep, AcceptStep, CompleteStep, SendPageStep DEF Next

\* Every state of the program satisfies the invariant.
THEOREM IInvHolds == ASSUME PromptAccept PROVE Spec => []IInv
<1>1. Init => IInv
  BY InitIInv
<1>2. IInv /\ [Next]_vars => IInv'
  BY NextIInv, StutterIInv
<1> QED BY <1>1, <1>2, PTL DEF Spec

\* Variables keep their types: no list of buffers, ring index or flash page
\* leaves its range.
THEOREM TypeCorrect == ASSUME PromptAccept PROVE Spec => []TypeOK
<1>1. IInv => TypeOK
  BY DEF IInv
<1> QED BY <1>1, IInvHolds, PTL

\* The commands the controller holds are those the banks have to do.
LEMMA HeldByBank ==
  ASSUME TypeOK, OneInv, NEW c \in Programs
  PROVE  \E b \in Banks : InBank(b) = c /\ c.op = "prog" /\ c.bank = b
<1>1. c.op = "prog" /\ c # NoCmd
  BY DEF Programs, NoCmd
<1>2. CASE c = wr
  <2>1. wr.bank \in Banks
    BY <1>1, <1>2, Consts DEF TypeOK, CtrlTypeOK, Cmd, ReadCmd, ProgCmd, EraseCmd
  <2> QED BY <1>1, <1>2, <2>1 DEF InBank, WrFree
<1>3. CASE \E b \in Banks : c = bsp[b]
  <2>1. PICK b \in Banks : c = bsp[b]
    BY <1>3
  <2>2. InBank(b) = c /\ c.bank = b
    BY <1>1, <2>1 DEF InBank, OneInv, BankIdle
  <2> QED BY <1>1, <2>2
<1> QED BY <1>2, <1>3, Consts DEF Programs

\* A program finds in its buffer what was there when dequeue issued it: nobody
\* fills the buffer again before the page is in flash.
THEOREM ProgramsFindTheirData ==
  ASSUME PromptAccept PROVE Spec => []ProgramsCarryIssued
<1>1. IInv => ProgramsCarryIssued
  <2> SUFFICES ASSUME IInv, NEW c \in Programs PROVE dram[c.buf] = c.data
    BY DEF ProgramsCarryIssued
  <2>1. PICK b \in Banks : InBank(b) = c /\ c.op = "prog"
    BY HeldByBank DEF IInv
  <2> QED BY <2>1 DEF IInv, ProgInv
<1> QED BY <1>1, IInvHolds, PTL

\* What the SATA engine may take from a slot of the read ring is what the host
\* wrote last before the read.
THEOREM HostReads == ASSUME PromptAccept PROVE Spec => []HostReadsNewest
<1>1. IInv => HostReadsNewest
  BY DEF IInv, SlotInv, SlotRight, HostReadsNewest, Holds
<1> QED BY <1>1, IInvHolds, PTL

\* When flush_write_buf returns, every page ever written is mapped to a page of
\* flash that holds its last write.
THEOREM FlushReachesFlash == ASSUME PromptAccept PROVE Spec => []FlushOnFlash
<1>1. IInv => FlushOnFlash
  <2> SUFFICES ASSUME IInv, pc = "finish", AllIdle, NEW l \in Lpn, newest[l] # BlankPage
               PROVE  map[l] # 0 /\ Holds(nand[BankOf(l)][map[l]], newest[l])
    BY DEF FlushOnFlash
  <2>1. place = "finish" /\ BankOf(l) \in Banks /\ newest[l] \in Content
    BY Consts DEF place, IInv, TypeOK, HostTypeOK
  <2>2. \A i \in Hits(l) : ~ents[BankOf(l)][i].dirty
    BY <2>1 DEF IInv, FlushInv, Empty, DirtyBufs, Hits
  <2>3. InBank(BankOf(l)).op = "none"
    <3>1. InBank(BankOf(l)) = NoCmd
      BY <2>1, Consts DEF AllIdle, InBank, BankIdle
    <3> QED BY <3>1 DEF NoCmd
  <2>4. \A p \in Part : newest[l][p] # 0 =>
           map[l] # 0 /\ nand[BankOf(l)][map[l]][p] = newest[l][p]
    BY <2>2, <2>3 DEF IInv, FlashInv, Flash
  <2>5. PICK p \in Part : newest[l][p] # 0
    <3>1. ASSUME \A p \in Part : newest[l][p] = 0 PROVE FALSE
      <4>1. newest[l] = [p \in Part |-> 0]
        BY <2>1, <3>1 DEF Content
      <4> QED BY <4>1, Consts DEF BlankPage
    <3> QED BY <3>1
  <2> QED BY <2>4, <2>5 DEF Holds
<1> QED BY <1>1, IInvHolds, PTL

LEMMA AfterReadsIs ==
  ASSUME IInv, NEW b \in Banks, NEW i \in Bufs, NEW p \in Part
  PROVE  AfterReads(b, CacheBuf(b, i))[p] = Later(b, CacheBuf(b, i), p)
<1> DEFINE f == CacheBuf(b, i)
           ReadBy(c, d) == IF c.op = "read" /\ c.buf = f
                           THEN [q \in Part |-> IF q \in c.parts THEN nand[b][c.row][q] ELSE d[q]]
                           ELSE d
<1>1. \A d : ReadBy(NoCmd, d) = d
  BY DEF NoCmd
<1>2. \A c : ReadBy(c, dram[f])[p] = IF c.op = "read" /\ c.buf = f /\ p \in c.parts
                                     THEN nand[b][c.row][p] ELSE dram[f][p]
  OBVIOUS
<1>3. AfterReads(b, f) = IF wr.op # "none" /\ wr.bank = b
                         THEN ReadBy(wr, ReadBy(bsp[b], dram[f])) ELSE ReadBy(bsp[b], dram[f])
  BY DEF AfterReads
<1>4. wr.op = "none" <=> wr = NoCmd
  BY DEF IInv, TypeOK, CtrlTypeOK, Cmd, ReadCmd, ProgCmd, EraseCmd, NoCmd
<1> HIDE DEF f, ReadBy
<1>5. AfterReads(b, f) = ReadBy(InBank(b), dram[f])
  <2>1. CASE wr # NoCmd /\ wr.bank = b
    <3>1. bsp[b] = NoCmd
      BY <2>1 DEF IInv, OneInv, WrFree, BankIdle
    <3> QED BY <1>1, <1>3, <1>4, <2>1, <3>1 DEF InBank, WrFree
  <2>2. CASE ~(wr # NoCmd /\ wr.bank = b)
    BY <1>3, <1>4, <2>2 DEF InBank, WrFree
  <2> QED BY <2>1, <2>2
<1> QED BY <1>2, <1>5 DEF Later, f

LEMMA AfterProgsIs ==
  ASSUME IInv, NEW b \in Banks, NEW r \in Row
  PROVE  AfterProgs(b, r) = Flash(b, r)
<1> DEFINE progs == {c \in Programs : c.bank = b /\ c.row = r}
<1>1. \A c \in progs : InBank(b) = c /\ c.op = "prog"
  <2> SUFFICES ASSUME NEW c \in progs PROVE InBank(b) = c /\ c.op = "prog"
    OBVIOUS
  <2>1. PICK x \in Banks : InBank(x) = c /\ c.op = "prog" /\ c.bank = x
    BY HeldByBank DEF IInv
  <2> QED BY <2>1
<1>2. InBank(b).op = "prog" /\ InBank(b).row = r => InBank(b) \in progs
  <2> SUFFICES ASSUME InBank(b).op = "prog", InBank(b).row = r
               PROVE  InBank(b) \in progs
    OBVIOUS
  <2>1. InBank(b).bank = b
    BY InBankType DEF IInv, NoCmd
  <2> QED BY <2>1, Consts DEF Programs, InBank
<1>3. AfterProgs(b, r) = IF progs = {} THEN nand[b][r] ELSE (CHOOSE c \in progs : TRUE).data
  BY DEF AfterProgs
<1>4. \A c \in progs : c.row = r
  OBVIOUS
<1> HIDE DEF progs
<1>5. CASE progs = {}
  BY <1>2, <1>3, <1>5 DEF Flash
<1>6. CASE progs # {}
  <2>1. (CHOOSE c \in progs : TRUE) \in progs
    BY <1>6
  <2> QED BY <1>1, <1>3, <1>4, <1>6, <2>1 DEF Flash
<1> QED BY <1>5, <1>6

\* The last write of every page is in its buffer or in the flash page it is
\* mapped to, once the banks have done what they were given.
THEOREM NewestIsKept == ASSUME PromptAccept PROVE Spec => []NewestKept
<1>1. IInv => NewestKept
  <2> SUFFICES ASSUME IInv, NEW l \in Lpn
               PROVE  LET b == BankOf(l)
                          i == FirstHit(l)
                          cached == Hits(l) # {} /\ ~BeingReused(b, i)
                      IN  /\ cached => Holds(AfterReads(b, CacheBuf(b, i)), newest[l])
                          /\ ~cached /\ map[l] # 0 => Holds(AfterProgs(b, map[l]), newest[l])
                          /\ ~cached /\ map[l] = 0 => newest[l] = BlankPage
    BY DEF NewestKept
  <2> DEFINE b == BankOf(l)
             i == FirstHit(l)
             cached == Hits(l) # {} /\ ~BeingReused(b, i)
  <2>1. b \in Banks /\ l # NoLpn /\ map[l] \in Row /\ newest[l] \in Content
    BY Consts DEF IInv, TypeOK, MapTypeOK, HostTypeOK
  <2>2. Hits(l) # {} => i \in Hits(l) /\ i \in Bufs /\ Hits(l) = {i} /\ ents[b][i].lpn = l
    BY FoundPage
  <2> HIDE DEF i
  <2>3. ASSUME cached PROVE Holds(AfterReads(b, CacheBuf(b, i)), newest[l])
    <3>1. \A p \in Part : newest[l][p] # 0 => Later(b, CacheBuf(b, i), p) = newest[l][p]
      BY <2>1, <2>2, <2>3 DEF IInv, BufInv
    <3>2. \A p \in Part : AfterReads(b, CacheBuf(b, i))[p] = Later(b, CacheBuf(b, i), p)
      BY <2>1, <2>2, <2>3, AfterReadsIs
    <3> QED BY <3>1, <3>2 DEF Holds
  <2>4. ASSUME ~cached
        PROVE  \A p \in Part : newest[l][p] # 0 => map[l] # 0 /\ Flash(b, map[l])[p] = newest[l][p]
    <3>1. \A j \in Hits(l) : ~ents[b][j].dirty
      BY <2>1, <2>2, <2>4, DirtyNotReused
    <3> QED BY <3>1 DEF IInv, FlashInv
  <2>5. ASSUME ~cached, map[l] # 0 PROVE Holds(AfterProgs(b, map[l]), newest[l])
    BY <2>1, <2>4, <2>5, AfterProgsIs DEF Holds
  <2>6. ASSUME ~cached, map[l] = 0 PROVE newest[l] = BlankPage
    <3>1. \A p \in Part : newest[l][p] = 0
      BY <2>4, <2>6
    <3> QED BY <2>1, <3>1, Consts DEF BlankPage, Content
  <2> QED BY <2>3, <2>5, <2>6 DEF i
<1> QED BY <1>1, IInvHolds, PTL

=============================================================================
