----------------------------- MODULE CachePipe -----------------------------
(***************************************************************************)
(* The write buffer and the read path of the hardware build, where flash   *)
(* operations are in flight while the firmware goes on: ftl_read, the page *)
(* loop of ftl_write with the pre-read of a partial page, the waits of     *)
(* board.c that pool other buffers meanwhile, and cache.c.                 *)
(*                                                                         *)
(* The firmware is one thread.  pc is where it spins on a register or is   *)
(* about to touch what the controller also touches; lines between two such *)
(* places are one step.  A host command is one page (OptrFtl has commands  *)
(* of many pages, SataHost the write ring).  What a write puts in a part   *)
(* of a page is its number.                                                *)
(***************************************************************************)
EXTENDS FlashCtrl, Integers, FiniteSets

CONSTANTS NumBanks,       \* NUM_BANKS
          Lpn,            \* logical pages
          NumBufs,        \* NUM_CACHE_BUFFERS_PER_BANK
          NumRdBufs,      \* NUM_RD_BUFFERS
          PagesPerVblk,   \* PAGES_PER_VBLK
          Cmds,           \* bound: the host commands
          MaxOps,         \* bound: how many of them
          PromptAccept    \* an idle bank takes its command before the
                          \* firmware, which just issued it, polls again

VARIABLES
  ents, lru, stall, incomplete,   \* cache_t; incomplete is buf_id_incomplete
  pool,                           \* pool_bank
  vt,                             \* vt_blk # 0, per bank
  map,                            \* page map, 0 for none
  next,                           \* active_ppn of each bank
  rdId, rdPtr, ready, want,       \* read ring: g_ftl_read_buf_id,
                                  \* SATA_RBUF_PTR, slots the controller may
                                  \* send, and (history) what they must hold
  pc, ret, cmd, arrived,          \* the thread, its command, its data
  buf, idx, comp, fbank, done,    \* locals
  newest, ops                     \* history: last write of each part

Banks     == 0..(NumBanks - 1)
Bufs      == 0..(NumBufs - 1)
BankOf(l) == l % NumBanks               \* get_bank
NoBuf     == NumBufs
NoLpn     == -1
CacheBuf(b, i) == <<"cache", b, i>>     \* CACHE_BUF
RdBuf(k)       == <<"rd", k>>           \* RD_BUF_PTR
FtlBuf(b)      == <<"ftl", b>>          \* FTL_BUF
Slots   == 0..(NumRdBufs - 1)
Buffers == {CacheBuf(b, i) : b \in Banks, i \in Bufs}
             \cup {RdBuf(k) : k \in Slots} \cup {FtlBuf(b) : b \in Banks}

\* What the flash controller of this firmware is; no run uses more rows.
ASSUME PipeAssumption ==
  /\ NumBanks \in Nat \ {0} /\ Lpn \subseteq Nat /\ Part \subseteq Nat
  /\ NumBufs \in Nat \ {0} /\ NumRdBufs \in Nat /\ NumRdBufs > 1
  /\ PagesPerVblk \in Nat /\ PagesPerVblk > 1
  /\ MaxOps \in Nat /\ PromptAccept \in BOOLEAN
  /\ Bank = Banks /\ Row = 0..(2 * MaxOps + 2) /\ Buffer = Buffers
  /\ Datum = 0..MaxOps /\ Blank = 0
  /\ \A c \in Cmds : \/ c.kind = "write" /\ c.lpn \in Lpn
                        /\ c.parts \in (SUBSET Part) \ {{}}
                     \/ c.kind = "read" /\ c.lpn \in Lpn /\ c.parts = {}
                     \/ c.kind \in {"flush", "idle"} /\ c.parts = {}

flashVars == <<wr, bsp, dram, nand>>
cacheVars == <<ents, lru, stall, incomplete>>
ringVars  == <<rdId, rdPtr, ready, want>>
localVars == <<buf, idx, comp, fbank, done>>
hostVars  == <<cmd, arrived, newest, ops>>
vars == <<flashVars, cacheVars, pool, vt, map, next, ringVars, pc, ret,
          localVars, hostVars>>

NoHostCmd == [kind |-> "none", lpn |-> 0, parts |-> {}]
Labels    == {"idle", "pool", "data", "clean", "prewait", "preread",
              "centerwr", "center", "enqueue", "rlookup", "rhit", "rzero",
              "rlimit", "rwait", "rissue", "flush", "finish", "summary",
              "dequeue"}

CacheTypeOK ==
  /\ ents \in [Banks -> [Bufs -> [lpn: Lpn \cup {NoLpn}, dirty: BOOLEAN]]]
  /\ lru \in [Banks -> [1..NumBufs -> Bufs]]
  /\ stall \in [Banks -> BOOLEAN]
  /\ incomplete \in [Banks -> Bufs \cup {NoBuf}]

MapTypeOK ==
  /\ pool \in Banks /\ vt \in [Banks -> BOOLEAN]
  /\ map \in [Lpn -> Row] /\ next \in [Banks -> Row]

RingTypeOK ==
  /\ rdId \in Slots /\ rdPtr \in Slots
  /\ ready \in [Slots -> BOOLEAN] /\ want \in [Slots -> Content]

ThreadTypeOK ==
  /\ pc \in Labels /\ ret \in [at: Labels, bank: Banks]
  /\ comp \in BOOLEAN /\ done \in BOOLEAN
  /\ buf \in Bufs /\ idx \in Bufs /\ fbank \in 0..NumBanks

HostTypeOK ==
  /\ cmd \in Cmds \cup {NoHostCmd} /\ arrived \in BOOLEAN
  /\ newest \in [Lpn -> Content] /\ ops \in 0..MaxOps

TypeOK ==
  CtrlTypeOK /\ CacheTypeOK /\ MapTypeOK /\ RingTypeOK /\ ThreadTypeOK /\ HostTypeOK

\* After ftl_open; a bank may have a victim block left to erase.
Init ==
  /\ CtrlInit
  /\ ents = [b \in Banks |-> [i \in Bufs |-> [lpn |-> NoLpn, dirty |-> FALSE]]]
  /\ lru = [b \in Banks |-> [i \in 1..NumBufs |-> i - 1]]
  /\ stall = [b \in Banks |-> FALSE]
  /\ incomplete = [b \in Banks |-> NoBuf]
  /\ pool = 0
  /\ vt \in [Banks -> BOOLEAN]
  /\ map = [l \in Lpn |-> 0] /\ next = [b \in Banks |-> 1]
  /\ rdId = 0 /\ rdPtr = 0
  /\ ready = [k \in Slots |-> FALSE] /\ want = [k \in Slots |-> BlankPage]
  /\ pc = "idle" /\ ret = [at |-> "idle", bank |-> 0] /\ cmd = NoHostCmd /\ arrived = FALSE
  /\ buf = 0 /\ idx = 0 /\ comp = TRUE /\ fbank = 0 /\ done = TRUE
  /\ newest = [l \in Lpn |-> BlankPage] /\ ops = 0

\* The thread takes a step; see PromptAccept.
Accepted == PromptAccept /\ ~WrFree => ~BankIdle(wr.bank)
At(p)    == pc = p /\ Accepted

bk == BankOf(cmd.lpn)           \* the bank of the running command

-----------------------------------------------------------------------------
\* dequeue and pool_write_buf.  dequeue is called with an idle bank and an
\* empty Waiting Room, so that the wait of get_and_inc_active_ppn ends at
\* once; the thread is then in "summary" until the summary page is programmed
\* and in "dequeue" when it goes on, ret being the place that follows.

DirtyBufs(b) == {i \in Bufs : ents[b][i].dirty}
LruLast(b, S, i) ==
  \E p \in 1..NumBufs :
    lru[b][p] = i /\ i \in S /\ \A q \in (p + 1)..NumBufs : lru[b][q] \notin S

\* dequeue may start on bank b; otherwise it returns 0.
CanDequeue(b) == WrFree /\ BankIdle(b) /\ ~stall[b]
Empty(b) == DirtyBufs(b) = {}
Full(b)  == next[b] % PagesPerVblk = 0

\* From the choice of the buffer on: map, program, mark clean.
ProgramBuf(b) ==
  \E i \in Bufs :
    /\ LruLast(b, DirtyBufs(b), i)
    /\ Issue(Prog(b, next[b], CacheBuf(b, i)))
    /\ map' = [map EXCEPT ![ents[b][i].lpn] = next[b]]
    /\ next' = [next EXCEPT ![b] = @ + 1]
    /\ ents' = [ents EXCEPT ![b][i].dirty = FALSE]
    /\ incomplete' = [incomplete EXCEPT ![b] = i]
    /\ UNCHANGED <<bsp, dram, nand, lru, stall>>

Dequeue(b, then) ==
  \/ /\ ~CanDequeue(b)
     /\ pc' = then
     /\ UNCHANGED <<flashVars, cacheVars, map, next, ret>>
  \/ /\ CanDequeue(b) /\ Empty(b)
     /\ incomplete' = [incomplete EXCEPT ![b] = NoBuf]
     /\ pc' = then
     /\ UNCHANGED <<flashVars, ents, lru, stall, map, next, ret>>
  \/ /\ CanDequeue(b) /\ ~Empty(b) /\ ~Full(b)
     /\ ProgramBuf(b)
     /\ pc' = then
     /\ UNCHANGED ret
  \/ /\ CanDequeue(b) /\ ~Empty(b) /\ Full(b)
     /\ Issue(Prog(b, next[b], FtlBuf(b)))
     /\ incomplete' = [incomplete EXCEPT ![b] = NoBuf]
     /\ stall' = [stall EXCEPT ![b] = TRUE]
     /\ next' = [next EXCEPT ![b] = @ + 1]
     /\ pc' = "summary" /\ ret' = [at |-> then, bank |-> b]
     /\ UNCHANGED <<bsp, dram, nand, ents, lru, map>>

\* RETURN_WHEN_DONE of the summary page, then release_cache.
SummaryDone ==
  /\ At("summary") /\ WrFree /\ BankIdle(ret.bank)
  /\ stall' = [stall EXCEPT ![ret.bank] = FALSE]
  /\ pc' = "dequeue"
  /\ UNCHANGED <<flashVars, ents, lru, incomplete, pool, vt, map, next,
                 ringVars, ret, localVars, hostVars>>

DequeueRest ==
  /\ At("dequeue")
  /\ ProgramBuf(ret.bank)
  /\ pc' = ret.at
  /\ UNCHANGED <<pool, vt, ringVars, ret, localVars, hostVars>>

HalfDirty(b) == Cardinality(DirtyBufs(b)) > NumBufs \div 2

\* blkmgr_erase_vt_blk looks at the bank only; flash_issue_cmd waits for the
\* Waiting Room.  No page of the victim is mapped.
EraseVt(b, then) ==
  /\ IF BankIdle(b) /\ vt[b]
       THEN Issue(Erase(b, {})) /\ vt' = [vt EXCEPT ![b] = FALSE]
       ELSE UNCHANGED <<wr, vt>>
  /\ pc' = then
  /\ UNCHANGED <<bsp, dram, nand, cacheVars, map, next, ret>>

NextPool == (pool + 1) % NumBanks
PoolWriteBuf(then) ==
  /\ pool' = NextPool
  /\ \/ HalfDirty(pool) /\ Dequeue(pool, then) /\ UNCHANGED vt
     \/ ~HalfDirty(pool) /\ EraseVt(pool, then)

\* wait_bank_free: pools as long as the bank is busy.  The callers release the
\* bank right after it (released) or with the command they issue.
WaitBank(p, then, released) ==
  /\ At(p)
  /\ \/ /\ BankIdle(bk)
        /\ pc' = then
        /\ stall' = [stall EXCEPT ![bk] = ~released]
        /\ UNCHANGED <<flashVars, ents, lru, incomplete, pool, vt, map, next,
                       ret>>
     \/ ~BankIdle(bk) /\ PoolWriteBuf(p)
  /\ UNCHANGED <<ringVars, localVars, hostVars>>

\* wait_buf_complete
BufCompleteAlways(b, i) == TRUE         \* mutant: does not wait
BufComplete(b, i) == incomplete[b] = i => WrFree /\ BankIdle(b)

\* exist_in_cache: the first buffer that holds the page.
Hits(l) == {i \in Bufs : ents[BankOf(l)][i].lpn = l}
FirstHit(l) == CHOOSE i \in Hits(l) : \A j \in Hits(l) : i <= j

-----------------------------------------------------------------------------
\* ftl_write

HostCmd ==
  /\ At("idle") /\ ops < MaxOps
  /\ \E c \in Cmds :
       /\ cmd' = c
       /\ pc' = CASE c.kind = "read" -> "rlookup" [] c.kind = "flush" -> "flush"
                  [] OTHER -> "pool"
  /\ ops' = ops + 1
  /\ fbank' = 0 /\ done' = TRUE /\ comp' = TRUE
  /\ UNCHANGED <<flashVars, cacheVars, pool, vt, map, next, ringVars, ret, buf,
                 idx, arrived, newest>>

EndCmd == pc' = "idle" /\ cmd' = NoHostCmd

\* The pool at the head of the page loop, or in Main when there is no command.
Pool ==
  /\ At("pool")
  /\ IF cmd.kind = "write" THEN PoolWriteBuf("data") /\ UNCHANGED cmd
                           ELSE PoolWriteBuf("idle") /\ cmd' = NoHostCmd
  /\ UNCHANGED <<ringVars, localVars, arrived, newest, ops>>

\* The page of the running write command reaches the write buffer.
DataArrives ==
  /\ cmd.kind = "write" /\ ~arrived
  /\ arrived' = TRUE
  /\ UNCHANGED <<flashVars, cacheVars, pool, vt, map, next, ringVars, pc, ret,
                 localVars, cmd, newest, ops>>

\* is_write_buf_valid, exist_in_cache
WriteLookup ==
  /\ At("data") /\ arrived
  /\ IF Hits(cmd.lpn) # {}
       THEN pc' = "enqueue" /\ buf' = FirstHit(cmd.lpn) /\ UNCHANGED idx
       ELSE pc' = "clean" /\ idx' = 0 /\ UNCHANGED buf
  /\ UNCHANGED <<flashVars, cacheVars, pool, vt, map, next, ringVars, ret, comp,
                 fbank, done, hostVars>>

\* get_clean_cache_buf
CleanPool ==
  /\ At("clean") /\ ents[bk][idx].dirty
  /\ PoolWriteBuf("clean")
  /\ idx' = (idx + 1) % NumBufs
  /\ UNCHANGED <<ringVars, buf, comp, fbank, done, hostVars>>

PartialNever == FALSE           \* mutant: no pre-read
Partial == map[cmd.lpn] # 0 /\ cmd.parts # Part

CleanFound ==
  /\ At("clean") /\ ~ents[bk][idx].dirty
  /\ \E i \in Bufs : LruLast(bk, Bufs \ DirtyBufs(bk), i) /\ buf' = i
  /\ IF Partial
       THEN pc' = "prewait" /\ stall' = [stall EXCEPT ![bk] = TRUE]
       ELSE pc' = "enqueue" /\ UNCHANGED stall
  /\ UNCHANGED <<flashVars, ents, lru, incomplete, pool, vt, map, next,
                 ringVars, ret, idx, comp, fbank, done, hostVars>>

PrereadWait == WaitBank("prewait", "preread", FALSE)

\* A hole at one side is read while the firmware goes on (comp = 0); for holes
\* at both sides the page is read as a whole before the data are put in.
Side(s) == \E p \in Part : s = {q \in Part : q <= p} \/ s = {q \in Part : q >= p}
Preread ==
  /\ At("preread")
  /\ Issue(Read(bk, map[cmd.lpn], CacheBuf(bk, buf),
                IF Side(cmd.parts) THEN Part \ cmd.parts ELSE Part))
  /\ IF Side(cmd.parts)
       THEN /\ comp' = FALSE /\ pc' = "enqueue"
            /\ stall' = [stall EXCEPT ![bk] = FALSE]
       ELSE pc' = "centerwr" /\ UNCHANGED <<comp, stall>>
  /\ UNCHANGED <<bsp, dram, nand, ents, lru, incomplete, pool, vt, map, next,
                 ringVars, ret, buf, idx, fbank, done, hostVars>>

CenterWr ==                     \* wait_wr_free
  /\ At("centerwr") /\ WrFree
  /\ pc' = "center"
  /\ UNCHANGED <<flashVars, cacheVars, pool, vt, map, next, ringVars, ret,
                 localVars, hostVars>>

CenterWait == WaitBank("center", "enqueue", TRUE)

\* The list with buffer i in front.
ToFront(s, i) ==
  LET at == CHOOSE p \in 1..NumBufs : s[p] = i
  IN  [p \in 1..NumBufs |-> IF p = 1 THEN i
                            ELSE IF p <= at THEN s[p - 1] ELSE s[p]]

Overlay(old, parts, v) == [p \in Part |-> IF p \in parts THEN v ELSE old[p]]

Enqueue ==
  /\ At("enqueue") /\ BufComplete(bk, buf)
  /\ dram' = [dram EXCEPT ![CacheBuf(bk, buf)] = Overlay(@, cmd.parts, ops)]
  /\ newest' = [newest EXCEPT ![cmd.lpn] = Overlay(@, cmd.parts, ops)]
  /\ ents' = [ents EXCEPT ![bk][buf] = [lpn |-> cmd.lpn, dirty |-> TRUE]]
  /\ incomplete' = [incomplete EXCEPT ![bk] =
                      IF ~comp THEN buf ELSE IF @ = buf THEN NoBuf ELSE @]
  /\ lru' = [lru EXCEPT ![bk] = ToFront(@, buf)]
  /\ EndCmd /\ arrived' = FALSE
  /\ UNCHANGED <<wr, bsp, nand, stall, pool, vt, map, next, ringVars, ret,
                 localVars, ops>>

-----------------------------------------------------------------------------
\* ftl_read

ReadLookup ==
  /\ At("rlookup")
  /\ IF Hits(cmd.lpn) # {}
       THEN pc' = "rhit" /\ buf' = FirstHit(cmd.lpn) /\ UNCHANGED stall
     ELSE IF map[cmd.lpn] # 0
       THEN pc' = "rwait" /\ stall' = [stall EXCEPT ![bk] = TRUE]
            /\ UNCHANGED buf
       ELSE pc' = "rzero" /\ UNCHANGED <<buf, stall>>
  /\ UNCHANGED <<flashVars, ents, lru, incomplete, pool, vt, map, next, ringVars,
                 ret, idx, comp, fbank, done, hostVars>>

NextRd == (rdId + 1) % NumRdBufs

\* A page in the buffer, or one never written, is copied to the read buffer.
FillRdBuf(content) ==
  /\ NextRd # rdPtr                     \* wait_rdbuf_free
  /\ dram' = [dram EXCEPT ![RdBuf(rdId)] = content]
  /\ want' = [want EXCEPT ![rdId] = newest[cmd.lpn]]
  /\ pc' = "rlimit"
  /\ UNCHANGED <<wr, bsp, nand, cacheVars, pool, vt, map, next, rdId, rdPtr,
                 ready, ret, localVars, hostVars>>

ReadHit  == At("rhit") /\ BufComplete(bk, buf)
              /\ FillRdBuf(dram[CacheBuf(bk, buf)])
ReadZero == At("rzero") /\ FillRdBuf(BlankPage)

\* flash_finish, then set_bm_read_limit: the controller may send every slot
\* before the limit.
Finished == AllIdle
Before(k) == {s \in Slots : (s - rdPtr) % NumRdBufs < (k - rdPtr) % NumRdBufs}
ReadLimit ==
  /\ At("rlimit") /\ Finished
  /\ ready' = [s \in Slots |-> s \in Before(NextRd)]
  /\ rdId' = NextRd
  /\ EndCmd
  /\ UNCHANGED <<flashVars, cacheVars, pool, vt, map, next, rdPtr, want, ret,
                 localVars, arrived, newest, ops>>

ReadWait == WaitBank("rwait", "rissue", FALSE)

\* nand_page_ptread_to_host
ReadIssue ==
  /\ At("rissue") /\ NextRd # rdPtr
  /\ Issue(ReadToHost(bk, map[cmd.lpn], RdBuf(rdId)))
  /\ want' = [want EXCEPT ![rdId] = newest[cmd.lpn]]
  /\ rdId' = NextRd
  /\ stall' = [stall EXCEPT ![bk] = FALSE]
  /\ EndCmd
  /\ UNCHANGED <<bsp, dram, nand, ents, lru, incomplete, pool, vt, map, next,
                 rdPtr, ready, ret, localVars, arrived, newest, ops>>

-----------------------------------------------------------------------------
\* flush_write_buf

FlushedBusy(b) == ~CanDequeue(b) \/ Empty(b)     \* mutant: a busy bank counts
\* mutant: a clean buffer counts as one to write
FlushedKept(b) == CanDequeue(b) /\ \A i \in Bufs : ents[b][i].lpn = NoLpn
Flushed(b) == CanDequeue(b) /\ Empty(b)          \* dequeue returns 1
FlushBank ==
  /\ At("flush") /\ fbank < NumBanks
  /\ done' = (done /\ Flushed(fbank))
  /\ fbank' = fbank + 1
  /\ Dequeue(fbank, "flush")
  /\ UNCHANGED <<pool, vt, ringVars, buf, idx, comp, hostVars>>

FlushRound ==
  /\ At("flush") /\ fbank = NumBanks
  /\ IF done THEN pc' = "finish" /\ UNCHANGED <<fbank, done>>
             ELSE pc' = "flush" /\ fbank' = 0 /\ done' = TRUE
  /\ UNCHANGED <<flashVars, cacheVars, pool, vt, map, next, ringVars, ret, buf,
                 idx, comp, hostVars>>

FlushDone ==
  /\ At("finish") /\ AllIdle
  /\ EndCmd
  /\ UNCHANGED <<flashVars, cacheVars, pool, vt, map, next, ringVars, ret,
                 localVars, arrived, newest, ops>>

-----------------------------------------------------------------------------
\* The controller.  A read for the host (FO_B_SATA_R) lets its slot be sent
\* once its data are there; slots are sent in order.

CtrlAccept == Accept /\ UNCHANGED <<cacheVars, pool, vt, map, next, ringVars, pc,
                                    ret, localVars, hostVars>>

SlotOf(c) == {k \in Slots : c.op = "read" /\ c.sata /\ c.buf = RdBuf(k)}
CtrlComplete ==
  /\ \E b \in Banks :
       /\ Complete(b)
       /\ ready' = [k \in Slots |-> ready[k] \/ k \in SlotOf(bsp[b])]
  /\ UNCHANGED <<cacheVars, pool, vt, map, next, rdId, rdPtr, want, pc, ret,
                 localVars, hostVars>>

SendPage ==
  /\ ready[rdPtr]
  /\ ready' = [ready EXCEPT ![rdPtr] = FALSE]
  /\ rdPtr' = (rdPtr + 1) % NumRdBufs
  /\ UNCHANGED <<flashVars, cacheVars, pool, vt, map, next, rdId, want, pc, ret,
                 localVars, hostVars>>

-----------------------------------------------------------------------------
Thread ==
  \/ Pool \/ WriteLookup \/ CleanPool \/ CleanFound \/ PrereadWait \/ Preread
  \/ CenterWr \/ CenterWait \/ Enqueue
  \/ ReadLookup \/ ReadHit \/ ReadZero \/ ReadLimit \/ ReadWait \/ ReadIssue
  \/ FlushBank \/ FlushRound \/ FlushDone \/ SummaryDone \/ DequeueRest

Next == HostCmd \/ DataArrives \/ Thread \/ CtrlAccept \/ CtrlComplete \/ SendPage

Spec == Init /\ [][Next]_vars

\* The thread runs on; banks and the controller finish what they were given;
\* the host sends the data it announced.
FairSpec == Spec /\ WF_vars(Thread) /\ WF_vars(CtrlAccept)
                 /\ WF_vars(CtrlComplete) /\ WF_vars(SendPage)
                 /\ WF_vars(DataArrives)

-----------------------------------------------------------------------------
\* A program finds in its buffer what was there when it was issued: nobody
\* fills a buffer again before its page is in flash, although there is one
\* buf_id_incomplete per bank and dequeue, pre-reads and hits all set it.
ProgramsCarryIssued == \A c \in Programs : dram[c.buf] = c.data

\* What c holds for the parts that were ever written is right.  (The other
\* parts of a page whose first write was partial keep what the buffer had.)
Holds(c, right) == \A p \in Part : right[p] # 0 => c[p] = right[p]

\* What the controller may send is what the page held when it was read: hits,
\* pages still being pre-read, pages still being programmed and blank pages,
\* in any order of the banks.
HostReadsNewest == \A k \in Slots : ready[k] => Holds(dram[RdBuf(k)], want[k])

\* What a bank leaves in buffer f once it has done all it was given.
AfterReads(b, f) ==
  LET ReadBy(c, d) == IF c.op = "read" /\ c.buf = f
                        THEN [p \in Part |-> IF p \in c.parts
                                THEN nand[b][c.row][p] ELSE d[p]]
                        ELSE d
  IN  IF wr.op # "none" /\ wr.bank = b
        THEN ReadBy(wr, ReadBy(bsp[b], dram[f]))
        ELSE ReadBy(bsp[b], dram[f])

\* Where the thread is; while dequeue waits, where dequeue was called.
place == IF pc \in {"summary", "dequeue"} THEN ret.at ELSE pc

\* The running write has taken buffer i for another page.
BeingReused(b, i) ==
  /\ place \in {"prewait", "preread", "centerwr", "center", "enqueue"}
  /\ b = bk /\ i = buf /\ ents[b][i].lpn # cmd.lpn

AfterProgs(b, r) ==
  LET progs == {c \in Programs : c.bank = b /\ c.row = r}
  IN  IF progs = {} THEN nand[b][r] ELSE (CHOOSE c \in progs : TRUE).data

\* The last write of every part of every page is in its buffer, or, when no
\* buffer holds the page, in the flash page it is mapped to, once the banks
\* have done what they were given.  A page being read into its buffer may not
\* be there yet, and its command is not done then.
NewestKept ==
  \A l \in Lpn :
    LET b == BankOf(l)
        i == FirstHit(l)
        cached == Hits(l) # {} /\ ~BeingReused(b, i)
    IN  /\ cached => Holds(AfterReads(b, CacheBuf(b, i)), newest[l])
        /\ ~cached /\ map[l] # 0 => Holds(AfterProgs(b, map[l]), newest[l])
        /\ ~cached /\ map[l] = 0 => newest[l] = BlankPage

\* When flush_write_buf returns, flash holds every write: flushes may be
\* answered, dependencies forgotten and map entries logged.
FlushOnFlash ==
  pc = "finish" /\ AllIdle =>
    \A l \in Lpn : newest[l] # BlankPage =>
                      map[l] # 0 /\ Holds(nand[BankOf(l)][map[l]], newest[l])

\* Every command ends: the waits for banks, buffers and slots, which pool or
\* spin, wait for something that comes.
CommandsEnd == (cmd # NoHostCmd) ~> (cmd = NoHostCmd)

=============================================================================
