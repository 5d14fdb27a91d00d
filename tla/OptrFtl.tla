------------------------------ MODULE OptrFtl ------------------------------
(***************************************************************************)
(* The order-preserving FTL: write buffer (cache.c), page map and log      *)
(* (pgmap.c, log.c), block manager (blkmgr.c) and the command handlers     *)
(* that drive them (ftl.c), with a power failure possible between any two  *)
(* flash operations and the recovery that follows it (recovery.c).         *)
(*                                                                         *)
(* The firmware is one thread; a step of this module ends with at most one *)
(* flash operation (page program, copyback, block erase), which is where   *)
(* the simulator of vst/ cuts the power.  Flash operations are synchronous *)
(* as in that build.  pc names the place in the code, back the place that  *)
(* ftl_prefix_flush returns to.  The timer interrupt comes at any time.    *)
(***************************************************************************)
EXTENDS OptrRecovery

CONSTANTS NumBufs,              \* NUM_CACHE_BUFFERS_PER_BANK
          GcThreshold,          \* GC_THRESHOLD
          BatchGcThreshold,     \* BATCH_GC_THRESHOLD
          MapentsPerPage,       \* NUM_MAPENTS_PER_PAGE
          ChkptThreshold,       \* reach_chkpt_threshold: pending map entries
          DepentsPerPage,       \* NUM_DEPENTS_PER_PAGE
          LogThreshold,         \* log pages in use when log_blk_cnt < 3
          LogCapacity,          \* pages of all the log blocks
          Events,               \* bound: what may happen besides writes
          WriteCmds,            \* bound: the write commands, <<lpn, pages>>
          MaxWrites             \* bound: how many of them

ASSUME FtlAssumption ==
  /\ NumBufs \in Nat \ {0}
  /\ GcThreshold \in Nat /\ BatchGcThreshold \in Nat
  /\ MapentsPerPage \in Nat \ {0} /\ DepentsPerPage \in Nat \ {0}
  /\ ChkptThreshold \in Nat /\ LogThreshold \in Nat /\ LogThreshold > 1
  /\ LogCapacity \in Nat
  /\ Events \subseteq {"flush", "close", "idle", "timer", "crash"}
  /\ WriteCmds \subseteq Lpns \X (Nat \ {0})
  /\ \A c \in WriteCmds : c[1]..(c[1] + c[2] - 1) \subseteq Lpns
  /\ MaxWrites \in Nat /\ MaxWrites < GcTag

VARIABLES
  flash, log, maps,             \* flash memory: data, log and map blocks
  cache, lru, pool,             \* cache_t ents and lru_list; pool_bank
  pgmap, vcount, active, ring,  \* DRAM tables, active_ppns, blk_lists
  mapIdx,                       \* map_blk_idx
  deps, mapents, timer,         \* chkpt_t; require_flush_depent
  g_epoch,
  pc, back,
  w,                            \* the write command being served
  bank, done, idx,              \* loop variables
  victim, gcPage, nvalid,       \* locals of garbage_collection
  hist, flushed,                \* history: writes issued, prefix flushed
  incomplete                    \* recovery.epoch_incomplete

nand   == <<flash, log, maps, mapIdx>>
wbuf   == <<cache, lru>>
tables == <<pgmap, vcount, active, ring>>
chkpt  == <<deps, mapents, timer>>
loops  == <<bank, done, idx>>
gcvars == <<victim, gcPage, nvalid>>
ghosts == <<hist, flushed, incomplete>>
vars   == <<nand, wbuf, pool, tables, chkpt, g_epoch, pc, back, w, loops,
            gcvars, ghosts>>

Bufs     == 0..(NumBufs - 1)
NoLpn    == -1
NoEnt    == [lpn |-> NoLpn, dirty |-> FALSE, span |-> 0, epoch |-> 0]
CacheEnt == [lpn: Lpns, dirty: BOOLEAN, span: Nat, epoch: Epochs]
              \cup {NoEnt}
Labels   == {"idle", "pool", "page", "lookup", "clean", "depfull", "written",
             "dep", "flush", "gc", "gccopy", "mapent", "tag", "persist",
             "erasemap", "eraselog", "closed", "recovered"}
Returns  == {"host", "gc", "chkpt", "auto", "close"}

\* A write command with pages still to be buffered is running.
Writing  == pc \in {"page", "lookup", "clean", "depfull"}

\* What recovery.c computes (pgmap after a power failure, incomplete) is a
\* fold over the log: PrefixSemantics says far more about it than a type.
TypeOK ==
  /\ flash \in [Banks -> [Blks -> Block]]
  /\ log \in Seq(LogPage)
  /\ maps \in [{0, 1} -> MapTable] /\ mapIdx \in {0, 1}
  /\ cache \in [Banks -> [Bufs -> CacheEnt]]
  /\ lru \in [Banks -> [1..NumBufs -> Bufs]]
  /\ pool \in Banks
  /\ pc # "recovered" => pgmap \in [Lpns -> PpnOpt]
  /\ vcount \in [Banks -> [Blks -> Int]]
  /\ active \in [Banks -> Ppn]
  /\ ring \in [Banks -> RingType]
  /\ deps \in Seq(DepEnt) /\ mapents \in Seq(MapEnt) /\ timer \in BOOLEAN
  /\ g_epoch \in Epochs
  /\ pc \in Labels /\ back \in Returns
  /\ w \in [lpn: Nat, remain: Nat, span: Nat]
  /\ Writing => w.remain > 0 /\ w.lpn..(w.lpn + w.remain - 1) \subseteq Lpns
  /\ bank \in 0..NumBanks /\ done \in BOOLEAN /\ idx \in Bufs
  /\ pc = "gccopy" => bank \in Banks /\ victim \in Blks
  /\ victim \in Blks \cup {NoBlk} /\ gcPage \in Nat /\ nvalid \in Nat
  /\ hist \in Seq(SUBSET Lpns) /\ flushed \in Nat

\* ftl_open on a new drive: every block erased, the first block of each ring
\* taken, the tag of format() in the log.  restore_map_table has toggled
\* map_blk_idx once and found no table.
FirstPpn == [blk |-> HeadBlk(InitRing), page |-> 0]
TagOlder(epoch, ppns) ==        \* mutant: one epoch too old
  [type |-> "tag", epoch |-> EpochPred(EpochPred(epoch)), active |-> ppns]
Tag(epoch, ppns) == [type |-> "tag", epoch |-> EpochPred(epoch),
                     active |-> ppns]

Init ==
  /\ flash = [b \in Banks |-> [k \in Blks |-> Erased]]
  /\ maps = [i \in {0, 1} |-> NoMap] /\ mapIdx = 1
  /\ cache = [b \in Banks |-> [i \in Bufs |-> NoEnt]]
  /\ lru = [b \in Banks |-> [i \in 1..NumBufs |-> i - 1]]
  /\ pool = 0
  /\ pgmap = [l \in Lpns |-> NoPpn]
  /\ vcount = [b \in Banks |-> [k \in Blks |-> 0]]
  /\ active = [b \in Banks |-> FirstPpn]
  /\ ring = [b \in Banks |-> PushRsv(TakeBlk(InitRing))]
  /\ log = <<Tag(0, active)>>
  /\ deps = <<>> /\ mapents = <<>> /\ timer = FALSE
  /\ g_epoch = 0
  /\ pc = "idle" /\ back = "host"
  /\ w = [lpn |-> 0, remain |-> 0, span |-> 0]
  /\ bank = 0 /\ done = TRUE /\ idx = 0
  /\ victim = NoBlk /\ gcPage = 0 /\ nvalid = 0
  /\ hist = <<>> /\ flushed = 0 /\ incomplete = 0

-----------------------------------------------------------------------------
\* Programming a data page, and the write buffer

DirtyBufs(b) == {i \in Bufs : cache[b][i].dirty}

\* Buffer i is the one of S that is last in LRU order.
LruLast(b, S, i) ==
  \E p \in 1..NumBufs :
    lru[b][p] = i /\ i \in S /\ \A q \in (p + 1)..NumBufs : lru[b][q] \notin S

\* active_ppn is at the summary page: get_and_inc_active_ppn programs the
\* summary with the link to the next block before it hands out a page.
Full(b) == active[b].page = PagesPerVblk - 1

CloseBlock(b) ==
  LET r == ring[b]
  IN  /\ Full(b)
      /\ ring' = [ring EXCEPT ![b] = TakeBlk(r)]
      /\ active' = [active EXCEPT ![b] = [blk |-> HeadBlk(r), page |-> 0]]
      /\ flash' = [flash EXCEPT ![b][active[b].blk].next = HeadBlk(r)]

\* The rest of get_and_inc_active_ppn, the map and count updates and the
\* program of one page, common to dequeue and garbage_collection.
CountedNoDec(b, released) ==    \* mutant: the block left keeps its count
  [vcount[b] EXCEPT ![active[b].blk] = @ + 1]
Counted(b, released) ==
  [k \in Blks |-> vcount[b][k] + (IF k = active[b].blk THEN 1 ELSE 0)
                               - (IF k = released THEN 1 ELSE 0)]

Program(b, pg, released) ==
  /\ ~Full(b)
  /\ active' = [active EXCEPT ![b].page = @ + 1]
  /\ pgmap' = [pgmap EXCEPT ![pg.lpn] = active[b]]
  /\ vcount' = [vcount EXCEPT ![b] = Counted(b, released)]
  /\ mapents' = Append(mapents, [lpn |-> pg.lpn, ppn |-> active[b]])
  /\ flash' = [flash EXCEPT ![b][active[b].blk].pages = Append(@, pg)]
  /\ UNCHANGED <<ring, log, maps, mapIdx>>

\* dequeue: the dirty buffer last in LRU order goes to the active page.
Dequeue(b) ==
  \E i \in Bufs :
    LET e == cache[b][i]
    IN  /\ LruLast(b, DirtyBufs(b), i)
        /\ Program(b, [lpn |-> e.lpn, span |-> e.span, epoch |-> e.epoch,
                       ver |-> e.epoch + 1], pgmap[e.lpn].blk)
        /\ cache' = [cache EXCEPT ![b][i].dirty = FALSE]
        /\ UNCHANGED <<lru, deps, timer>>

\* blkmgr_erase_vt_blk
EraseVtSkipped(b) ==            \* mutant: forgets the block, unerased
  /\ ring' = [ring EXCEPT ![b] = VtErased(ring[b])]
  /\ UNCHANGED <<flash, log, maps, mapIdx, pgmap, vcount, active, wbuf, chkpt>>
EraseVt(b) ==
  /\ IF ring[b].vt # NoBlk
       THEN /\ flash' = [flash EXCEPT ![b][ring[b].vt] = Erased]
            /\ ring' = [ring EXCEPT ![b] = VtErased(ring[b])]
       ELSE UNCHANGED <<flash, ring>>
  /\ UNCHANGED <<log, maps, mapIdx, pgmap, vcount, active, wbuf, chkpt>>

HalfDirty(b) == Cardinality(DirtyBufs(b)) > NumBufs \div 2

PoolWriteBuf ==
  /\ pool' = (pool + 1) % NumBanks
  /\ \/ HalfDirty(pool) /\ Dequeue(pool)
     \/ ~HalfDirty(pool) /\ EraseVt(pool)

\* exist_in_cache: the first buffer that holds the page.
Hits(l) == {i \in Bufs : cache[Bank(l)][i].lpn = l}
FirstHit(l, i) == i \in Hits(l) /\ \A j \in Hits(l) : i <= j

\* The page of w in buffer i: entry, LRU order, next page of the command.
Enqueue(i) ==
  LET b == Bank(w.lpn)
      pos == CHOOSE p \in 1..NumBufs : lru[b][p] = i
  IN  /\ cache' = [cache EXCEPT ![b][i] =
                     [lpn |-> w.lpn, dirty |-> TRUE, span |-> w.span,
                      epoch |-> g_epoch]]
      /\ lru' = [lru EXCEPT ![b] = [p \in 1..NumBufs |->
                     IF p = 1 THEN i
                     ELSE IF p <= pos THEN lru[b][p - 1] ELSE lru[b][p]]]
      /\ w' = [w EXCEPT !.lpn = @ + 1, !.remain = @ - 1]
      /\ pc' = IF w.remain = 1 THEN "written" ELSE "page"

-----------------------------------------------------------------------------
\* ftl_write, one page at a time

HostWrite(l, n) ==
  /\ pc = "idle" /\ Len(hist) < MaxWrites
  /\ w' = [lpn |-> l, remain |-> n, span |-> n]
  /\ hist' = Append(hist, l..(l + n - 1))
  /\ pc' = "page"
  /\ UNCHANGED <<nand, wbuf, pool, tables, chkpt, g_epoch, back, loops,
                 gcvars, flushed, incomplete>>

\* The pool_write_buf() at the top of the loop.
WritePool ==
  /\ pc = "page" /\ PoolWriteBuf /\ pc' = "lookup"
  /\ UNCHANGED <<g_epoch, back, w, loops, gcvars, ghosts>>

\* exist_in_cache, and for a dirty hit insert_dep_entry: the write that is
\* overwritten in the buffer depends on this one.
DepEntrySwapped(e) ==           \* mutant: src and dst change places
  [src |-> g_epoch, dst |-> e.epoch, span |-> e.span]
DepEntry(e) == [src |-> e.epoch, dst |-> g_epoch, span |-> e.span]

OverwriteNoDep(e) == deps       \* mutant: no insert_dep_entry
Overwrite(e) == IF e.dirty THEN Append(deps, DepEntry(e)) ELSE deps

LookupMiss ==
  /\ pc = "lookup" /\ Hits(w.lpn) = {}
  /\ pc' = "clean" /\ idx' = 0
  /\ UNCHANGED <<nand, wbuf, pool, tables, chkpt, g_epoch, back, w, bank,
                 done, gcvars, ghosts>>

LookupHit ==
  /\ pc = "lookup"
  /\ \E i \in Bufs :
       LET e == cache[Bank(w.lpn)][i]
       IN  /\ FirstHit(w.lpn, i)
           /\ deps' = Overwrite(e)
           /\ IF e.dirty /\ Len(deps') >= DepentsPerPage
                THEN pc' = "depfull" /\ UNCHANGED <<wbuf, w>>
                ELSE Enqueue(i)
  /\ UNCHANGED <<nand, pool, tables, mapents, timer, g_epoch, back, loops,
                 gcvars, ghosts>>

\* get_clean_cache_buf: pool until the buffer at idx is clean ...
CleanPool ==
  /\ pc = "clean" /\ cache[Bank(w.lpn)][idx].dirty
  /\ PoolWriteBuf
  /\ idx' = (idx + 1) % NumBufs
  /\ UNCHANGED <<g_epoch, pc, back, w, bank, done, gcvars, ghosts>>

\* ... then take the clean buffer that is last in LRU order.
CleanFoundAny ==                \* mutant: the LRU buffer, clean or not
  LET b == Bank(w.lpn)
  IN  /\ pc = "clean"
      /\ \E i \in Bufs : LruLast(b, Bufs, i) /\ Enqueue(i)
      /\ UNCHANGED <<nand, pool, tables, chkpt, g_epoch, back, loops, gcvars,
                     ghosts>>
CleanFound ==
  LET b == Bank(w.lpn)
  IN  /\ pc = "clean" /\ ~cache[b][idx].dirty
      /\ \E i \in Bufs : LruLast(b, Bufs \ DirtyBufs(b), i) /\ Enqueue(i)
      /\ UNCHANGED <<nand, pool, tables, chkpt, g_epoch, back, loops, gcvars,
                     ghosts>>

\* record_depent, called with the dependency page full or from a flush.
RecordDepentLost ==             \* mutant: the page is not programmed
  timer' = FALSE /\ log' = log /\ deps' = <<>>
RecordDepent ==
  /\ timer' = FALSE
  /\ log' = IF deps = <<>> THEN log
            ELSE Append(log, [type |-> "depent", ents |-> deps])
  /\ deps' = <<>>

DepFull ==
  /\ pc = "depfull" /\ RecordDepent
  /\ \E i \in Bufs : FirstHit(w.lpn, i) /\ Enqueue(i)
  /\ UNCHANGED <<flash, maps, mapIdx, pool, tables, mapents, g_epoch, back,
                 loops, gcvars, ghosts>>

\* reach_gc_threshold and blkmgr_reach_batch_gc_threshold
ReachGc(b) == ring[b].free < GcThreshold
Deficit(b) == IF ReachGc(b) THEN GcThreshold - ring[b].free ELSE 0
ReachBatchGc == MapThenSumSet(Deficit, Banks) > BatchGcThreshold

\* blkmgr_reach_log_reclaim_threshold, reach_chkpt_threshold
ReachReclaimLate(lg) ==         \* mutant: two pages late
  Len(lg) > LogThreshold + 1
ReachReclaim(lg) == Len(lg) >= LogThreshold
ReachChkpt == Len(mapents) > ChkptThreshold \/ ReachReclaim(log)

\* From the end of the GC loop on: g_epoch++, then a checkpoint, then the
\* flush the timer asked for.
EndWrite ==
  /\ g_epoch' = g_epoch + 1
  /\ IF ReachChkpt THEN pc' = "dep" /\ back' = "chkpt"
     ELSE IF timer THEN pc' = "dep" /\ back' = "auto"
     ELSE pc' = "idle" /\ back' = back

Written ==
  /\ pc = "written"
  /\ IF ReachBatchGc THEN pc' = "dep" /\ back' = "gc" /\ g_epoch' = g_epoch
     ELSE EndWrite
  /\ UNCHANGED <<nand, wbuf, pool, tables, chkpt, w, loops, gcvars, ghosts>>

-----------------------------------------------------------------------------
\* ftl_prefix_flush: the dependencies first, then every dirty buffer

FlushDeps ==
  /\ pc = "dep" /\ RecordDepent
  /\ pc' = "flush" /\ bank' = 0 /\ done' = TRUE
  /\ UNCHANGED <<flash, maps, mapIdx, wbuf, pool, tables, mapents, g_epoch,
                 back, w, idx, gcvars, ghosts>>

\* flush_write_buf: one round over the banks; a round in which some bank
\* still had a dirty buffer is followed by another.
FlushBank ==
  /\ pc = "flush" /\ bank < NumBanks
  /\ bank' = bank + 1
  /\ \/ Dequeue(bank) /\ done' = FALSE
     \/ DirtyBufs(bank) = {} /\ UNCHANGED <<nand, wbuf, tables, chkpt, done>>
  /\ UNCHANGED <<pool, g_epoch, pc, back, w, idx, gcvars, ghosts>>

FlushAgainForever ==            \* mutant: done is not set again
  /\ pc = "flush" /\ bank = NumBanks /\ ~done
  /\ bank' = 0 /\ done' = FALSE
  /\ UNCHANGED <<nand, wbuf, pool, tables, chkpt, g_epoch, pc, back, w, idx,
                 gcvars, ghosts>>
FlushAgain ==
  /\ pc = "flush" /\ bank = NumBanks /\ ~done
  /\ bank' = 0 /\ done' = TRUE
  /\ UNCHANGED <<nand, wbuf, pool, tables, chkpt, g_epoch, pc, back, w, idx,
                 gcvars, ghosts>>

RoundsOverEarly == bank = NumBanks      \* mutant: one round only
RoundsOver == bank = NumBanks /\ done

FlushDone ==
  /\ pc = "flush" /\ RoundsOver
  /\ pc' = CASE back = "gc" -> "gc"
             [] back \in {"chkpt", "close"} -> "mapent"
             [] back \in {"host", "auto"} -> "idle"
  /\ bank' = 0
  /\ flushed' = IF back = "host" THEN Len(hist) ELSE flushed
  /\ UNCHANGED <<nand, wbuf, pool, tables, chkpt, g_epoch, back, w, done, idx,
                 gcvars, hist, incomplete>>

\* ftl_flush, and ftl_close up to its checkpoint
HostFlush ==
  /\ pc = "idle" /\ pc' = "dep"
  /\ \/ "flush" \in Events /\ back' = "host"
     \/ "close" \in Events /\ back' = "close"
  /\ UNCHANGED <<nand, wbuf, pool, tables, chkpt, g_epoch, w, loops, gcvars,
                 ghosts>>

-----------------------------------------------------------------------------
\* The GC loop of ftl_write and garbage_collection

GcSkip ==
  /\ pc = "gc" /\ bank < NumBanks /\ ~ReachGc(bank)
  /\ bank' = bank + 1
  /\ UNCHANGED <<nand, wbuf, pool, tables, chkpt, g_epoch, pc, back, w, done,
                 idx, gcvars, ghosts>>

\* Erase the previous victim if that is still pending, choose the next one.
GcBegin ==
  /\ pc = "gc" /\ bank < NumBanks /\ ReachGc(bank)
  /\ LET r == VtErased(ring[bank])
     IN  /\ flash' = IF ring[bank].vt = NoBlk THEN flash
                     ELSE [flash EXCEPT ![bank][ring[bank].vt] = Erased]
         /\ \E i \in Idx : /\ IsVictim(r, vcount[bank], i)
                          /\ victim' = r.list[i]
                          /\ ring' = [ring EXCEPT ![bank] = SwapVictim(r, i)]
  /\ gcPage' = 0 /\ nvalid' = 0 /\ pc' = "gccopy"
  /\ UNCHANGED <<log, maps, mapIdx, wbuf, pool, pgmap, vcount, active, chkpt,
                 g_epoch, back, w, loops, ghosts>>

\* The pages still to copy: the summary page of the victim names their
\* logical pages, and the map still points to them.
ValidLeftShort ==               \* mutant: misses the last data page
  LET blk == flash[bank][victim]
  IN  {p \in Pages : /\ blk.next # NoBlk
                     /\ gcPage <= p /\ p < Len(blk.pages) - 1
                     /\ pgmap[blk.pages[p + 1].lpn]
                          = [blk |-> victim, page |-> p]}
ValidLeft ==
  LET blk == flash[bank][victim]
  IN  {p \in Pages : /\ blk.next # NoBlk
                     /\ gcPage <= p /\ p < Len(blk.pages)
                     /\ pgmap[blk.pages[p + 1].lpn]
                          = [blk |-> victim, page |-> p]}

GcCopy ==
  /\ pc = "gccopy"
  /\ \E p \in ValidLeft :
       /\ \A q \in ValidLeft : p <= q
       /\ LET pg == flash[bank][victim].pages[p + 1]
          IN  Program(bank, [pg EXCEPT !.span = 0, !.epoch = GcTag], NoBlk)
       /\ gcPage' = p + 1
  /\ nvalid' = nvalid + 1
  /\ UNCHANGED <<wbuf, pool, deps, timer, g_epoch, pc, back, w, loops, victim,
                 ghosts>>

GcEnd ==
  /\ pc = "gccopy" /\ ValidLeft = {}
  /\ vcount' = [vcount EXCEPT ![bank][victim] = 0]
  /\ ring' = [ring EXCEPT ![bank] = FreeVictim(@, victim)]
  /\ victim' = NoBlk /\ gcPage' = 0 /\ nvalid' = 0
  /\ pc' = "gc" /\ bank' = bank + 1
  /\ UNCHANGED <<nand, wbuf, pool, pgmap, active, chkpt, g_epoch, back, w,
                 done, idx, ghosts>>

\* Another round while some bank is below the threshold.
GcRound ==
  /\ pc = "gc" /\ bank = NumBanks
  /\ bank' = 0
  /\ IF \E b \in Banks : ReachGc(b)
       THEN UNCHANGED <<pc, back, g_epoch>>
       ELSE EndWrite
  /\ UNCHANGED <<nand, wbuf, pool, tables, chkpt, w, done, idx, gcvars,
                 ghosts>>

-----------------------------------------------------------------------------
\* The checkpoint: record_mapent, record_tag, reclaim of the log

MapentRestShort(n) ==           \* mutant: off by one at the page boundary
  SubSeq(mapents, n + 2, Len(mapents))
MapentRest(n) == SubSeq(mapents, n + 1, Len(mapents))

RecordMapent ==
  /\ pc = "mapent"
  /\ LET n == IF Len(mapents) < MapentsPerPage THEN Len(mapents)
                                                  ELSE MapentsPerPage
     IN  IF mapents = <<>> THEN pc' = "tag" /\ UNCHANGED <<log, mapents>>
         ELSE /\ log' = Append(log, [type |-> "mapent",
                                     ents |-> SubSeq(mapents, 1, n)])
              /\ mapents' = MapentRest(n)
              /\ pc' = pc
  /\ UNCHANGED <<flash, maps, mapIdx, wbuf, pool, tables, deps, timer,
                 g_epoch, back, w, loops, gcvars, ghosts>>

\* record_tag: push_rsv, the tag page, and reclaim_log when the log is low.
\* ftl_close goes on to persist the map table; ftl_write checks the timer.
RecordTag ==
  /\ pc = "tag"
  /\ ring' = [b \in Banks |-> PushRsv(ring[b])]
  /\ log' = Append(log, Tag(g_epoch, active))
  /\ IF ReachReclaim(log') \/ back = "close"
       THEN pc' = "persist" /\ back' = back
     ELSE IF timer THEN pc' = "dep" /\ back' = "auto"
     ELSE pc' = "idle" /\ back' = back
  /\ UNCHANGED <<flash, maps, mapIdx, wbuf, pool, pgmap, vcount, active, chkpt,
                 g_epoch, w, loops, gcvars, ghosts>>

\* pgmap_persist_map_table: the map pages and the commit page ...
PersistMap ==
  /\ pc = "persist"
  /\ maps' = [maps EXCEPT ![mapIdx] =
                [epoch |-> EpochPred(g_epoch), map |-> pgmap]]
  /\ mapIdx' = 1 - mapIdx
  /\ pc' = "erasemap"
  /\ UNCHANGED <<flash, log, wbuf, pool, tables, chkpt, g_epoch, back, w,
                 loops, gcvars, ghosts>>

\* ... then the other map block is erased.
EraseMap ==
  /\ pc = "erasemap"
  /\ maps' = [maps EXCEPT ![mapIdx] = NoMap]
  /\ IF ReachReclaim(log) THEN pc' = "eraselog" /\ flushed' = flushed
                     ELSE pc' = "closed" /\ flushed' = Len(hist)
  /\ UNCHANGED <<flash, log, mapIdx, wbuf, pool, tables, chkpt, g_epoch, back,
                 w, loops, gcvars, hist, incomplete>>

\* erase_all_log_blks starts with the block the log begins in, which is what
\* makes the whole log unreadable; record_tag is called again.
EraseLog ==
  /\ pc = "eraselog" /\ log' = <<>> /\ pc' = "tag"
  /\ UNCHANGED <<flash, maps, mapIdx, wbuf, pool, tables, chkpt, g_epoch, back,
                 w, loops, gcvars, ghosts>>

-----------------------------------------------------------------------------
\* Main loop idle time, timer interrupt, power failure

IdlePool ==
  /\ "idle" \in Events /\ pc = "idle" /\ pc' = "pool"
  /\ UNCHANGED <<nand, wbuf, pool, tables, chkpt, g_epoch, back, w, loops,
                 gcvars, ghosts>>

PoolStep ==
  /\ pc = "pool" /\ PoolWriteBuf /\ pc' = "idle"
  /\ UNCHANGED <<g_epoch, back, w, loops, gcvars, ghosts>>

\* The summary page goes out first when the next program finds a full block.
NextProgram(b) ==
  \/ /\ \/ pc \in {"pool", "page"}
        \/ pc = "clean" /\ cache[Bank(w.lpn)][idx].dirty
     /\ b = pool /\ HalfDirty(b)
  \/ pc = "flush" /\ b = bank /\ DirtyBufs(b) # {}
  \/ pc = "gccopy" /\ b = bank /\ ValidLeft # {}

SummaryPage ==
  /\ \E b \in Banks : NextProgram(b) /\ CloseBlock(b)
  /\ UNCHANGED <<log, maps, mapIdx, wbuf, pool, pgmap, vcount, chkpt, g_epoch,
                 pc, back, w, loops, gcvars, ghosts>>

\* irq_handler: schedule_flush_depent
Timer ==
  /\ "timer" \in Events /\ ~timer /\ pc \notin {"closed", "recovered"}
  /\ timer' = TRUE
  /\ UNCHANGED <<nand, wbuf, pool, tables, deps, mapents, g_epoch, pc, back, w,
                 loops, gcvars, ghosts>>

\* Power fails and ftl_open runs again: DRAM tables and block lists start
\* anew, the page map comes from recovery.  The firmware does not rebuild
\* the block lists, so that a recovered drive only serves reads.
CrashAndRecover ==
  /\ "crash" \in Events /\ pc # "recovered" /\ pc' = "recovered"
  /\ LET rec == Recover(flash, log, maps)
     IN  pgmap' = rec.map /\ incomplete' = rec.incomplete
  /\ cache' = [b \in Banks |-> [i \in Bufs |-> NoEnt]]
  /\ lru' = [b \in Banks |-> [i \in 1..NumBufs |-> i - 1]]
  /\ vcount' = [b \in Banks |-> [k \in Blks |-> 0]]
  /\ active' = [b \in Banks |-> FirstPpn]
  /\ ring' = [b \in Banks |-> TakeBlk(InitRing)]
  /\ deps' = <<>> /\ mapents' = <<>> /\ timer' = FALSE
  /\ g_epoch' = RestoredMap(maps).epoch
  /\ mapIdx' = IF maps[0].epoch > maps[1].epoch THEN 0 ELSE 1
  /\ back' = "host" /\ pool' = 0
  /\ w' = [lpn |-> 0, remain |-> 0, span |-> 0]
  /\ bank' = 0 /\ done' = TRUE /\ idx' = 0
  /\ victim' = NoBlk /\ gcPage' = 0 /\ nvalid' = 0
  /\ UNCHANGED <<flash, log, maps, hist, flushed>>

WriteStep == \/ WritePool \/ LookupMiss \/ LookupHit \/ CleanPool
             \/ CleanFound \/ DepFull \/ Written
FlushStep == FlushDeps \/ FlushBank \/ FlushAgain \/ FlushDone
GcStep    == GcSkip \/ GcBegin \/ GcCopy \/ GcEnd \/ GcRound
ChkptStep == RecordMapent \/ RecordTag \/ PersistMap \/ EraseMap \/ EraseLog

FtlStep == WriteStep \/ FlushStep \/ GcStep \/ ChkptStep \/ SummaryPage
             \/ PoolStep

Next ==
  \/ FtlStep
  \/ \E c \in WriteCmds : HostWrite(c[1], c[2])
  \/ HostFlush
  \/ IdlePool
  \/ Timer
  \/ CrashAndRecover

Spec == Init /\ [][Next]_vars

\* The firmware runs without pause; the host and the timer are free.
FairSpec == Spec /\ WF_vars(FtlStep)
-----------------------------------------------------------------------------
(***************************************************************************)
(* Properties                                                              *)
(***************************************************************************)

\* ftl_read: from the buffer if the page is there, else from the page the
\* map points to; the number of the write whose data comes back, 0 if the
\* page was never written, Garbage if the map points to an erased page.
Garbage == -1
ReadView(l) ==
  IF Hits(l) # {} THEN cache[Bank(l)][Min(Hits(l))].epoch + 1
  ELSE IF pgmap[l] = NoPpn THEN 0
  ELSE LET p == flash[Bank(l)][pgmap[l].blk].pages
       IN  IF pgmap[l].page < Len(p) THEN p[pgmap[l].page + 1].ver
                                     ELSE Garbage

\* Pages of the running write command that are still to be buffered.
PendingPages ==
  IF Writing THEN w.lpn..(w.lpn + w.remain - 1) ELSE {}

\* A checkpoint of at least one write is in flash (the tag of format() has
\* the epoch of no write).
Checkpointed ==
  \/ \E i \in TagsOf(log) : log[i].epoch # EpochPred(0)
  \/ RestoredMap(maps).epoch # 0

Disk == INSTANCE OrderedDisk
          WITH writes   <- hist,
               pending  <- PendingPages,
               contents <- [l \in Lpns |-> ReadView(l)],
               durable  <- IF Checkpointed THEN flushed ELSE 0,
               up       <- pc # "recovered"

\* Every behaviour of the firmware, power failures included, is one of the
\* abstract disk: reads return the last write whatever dequeue, garbage
\* collection and checkpoints move around, and a recovered drive holds a
\* prefix of the writes that covers the last flush.
ImplementsOrderedDisk == Disk!DSpec

\* The same up to a power failure, of which it says nothing.
OrderedUntilPowerFails ==
  Disk!DInit /\ [][Disk!DNext \/ pc' = "recovered"]_(Disk!dvars)

\* check_prefix of the simulator: the recovered image is exactly the first
\* epoch_incomplete writes.
PrefixSemantics ==
  pc = "recovered" =>
    /\ incomplete <= Len(hist)
    /\ \A l \in Lpns : ReadView(l) = Disk!View(incomplete)[l]

\* The flush check of the simulator, from the first checkpoint on.
FlushSemantics ==
  pc = "recovered" /\ Checkpointed => incomplete >= flushed

\* The flush check as vst.c states it, with no exception.
FlushSemanticsAlways == pc = "recovered" => incomplete >= flushed

\* vcount is the number of map entries that point into the block, in every
\* block but the one being collected: greedy victim selection and the
\* assertion in garbage_collection rely on it.
VcountExact ==
  pc # "recovered" =>
    \A b \in Banks, k \in Blks :
      ~(pc = "gccopy" /\ b = bank /\ k = victim) =>
        vcount[b][k] = Cardinality({l \in Lpns : Bank(l) = b
                                                  /\ pgmap[l].blk = k})

\* chk_overwrite of the simulator: whenever a page is handed out, it and the
\* rest of its block are erased, although freed blocks are erased late.
ProgramsErasedPages ==
  pc # "recovered" =>
    \A b \in Banks :
      LET blk == flash[b][active[b].blk]
      IN  Len(blk.pages) = active[b].page /\ blk.next = NoBlk

\* The assertion at the end of garbage_collection: the pages copied are those
\* vcount promised.
CopiesCounted ==
  pc = "gccopy" /\ ValidLeft = {} => nvalid = vcount[bank][victim]

\* Garbage collection may rely on the counts: for the choice of the victim
\* and for the number of pages to copy.
CountsExact == VcountExact /\ CopiesCounted

\* Nothing runs out, although the code takes blocks without looking at how
\* many are left: the blocks taken are free, and not the one that is counted
\* as free before it is erased (get_and_inc_active_blk); the head of the ring
\* does not come round to the mark of the reserved blocks, where all of them
\* would look unreserved, so that a victim is never taken from the blocks
\* recovery needs (get_victim_blk); the victim is a block written to its end;
\* collecting it gains something (the assertion "GC threshold set too large");
\* and no reclaim comes so early that the map table would have the epoch that
\* stands for none.
RoomLeft ==
  /\ pc # "recovered" =>
       \A b \in Banks : /\ ring[b].free >= IF ring[b].vt = NoBlk THEN 0 ELSE 1
                        /\ ring[b].rsv # ring[b].head
  /\ pc = "gccopy" =>
       /\ flash[bank][victim].next # NoBlk
       /\ ring[bank].rsv # ring[bank].tail
       /\ ValidLeft = {} => nvalid < PagesPerVblk - 1
  /\ pc = "eraselog" => g_epoch # 1

\* The blocks recovery scans from the last tag on are never given to
\* garbage collection and never erased while they are needed.
ChainReserved ==
  pc \notin {"recovered", "eraselog"} /\ TagsOf(log) # {} =>
    \A b \in Banks :
      LET chain == ChainOf(flash[b], LastTag(log).active[b])
      IN  /\ Last(chain) = active[b].blk
          /\ \A n \in DOMAIN chain : chain[n] \in ReservedBlks(ring[b])

\* The map can be rebuilt at any moment from the last full checkpoint, the
\* map entries in the log and those still in DRAM: none is missing.
MapentsComplete ==
  pc # "recovered" =>
    ReplayMapents(Append(log, [type |-> "mapent", ents |-> mapents]),
                  RestoredMap(maps).map, Len(log) + 1) = pgmap

\* A tag makes recovery start after it, with the active pages and the map it
\* finds in the log: when it is written, and until the reclaim that may
\* follow has ended, every write issued is in flash and every map entry and
\* dependency is in the log.
CheckpointComplete ==
  pc \in {"tag", "persist", "erasemap", "eraselog"} =>
    /\ g_epoch = Len(hist)
    /\ deps = <<>> /\ mapents = <<>>
    /\ \A b \in Banks : DirtyBufs(b) = {}

\* A dependency leads from a write to a later one: pull_epoch_incomplete
\* goes through them once, from the largest source down, and misses a chain
\* of dependencies otherwise.
Forward(ents) ==
  \A i \in DOMAIN ents : ents[i].src < ents[i].dst /\ ents[i].dst <= g_epoch

DepsForward ==
  pc # "recovered" =>
    /\ Forward(deps)
    /\ \A j \in DOMAIN log : log[j].type = "depent" => Forward(log[j].ents)

\* Between two reclaims the log stays within its blocks, although command
\* handlers append to it without looking at the room left.
LogFits == Len(log) <= LogCapacity

\* What recovery would return never shrinks: no flash operation (summary,
\* map commit, erase of the old map, of the log, of a block) takes a write
\* away that a power failure before it would have kept.
NeverForgets ==
  [][Recover(flash', log', maps').incomplete
       >= Recover(flash, log, maps).incomplete]_vars

\* Every command ends: the search for a clean buffer, the flush rounds, the
\* garbage collection rounds and the checkpoint loop all terminate.
CommandsComplete ==
  pc \in {"page", "dep"} ~> pc \in {"idle", "closed", "recovered"}
=============================================================================
