---------------------------- MODULE OptrRecovery ----------------------------
(***************************************************************************)
(* What the firmware keeps in flash memory, and what recovery.c makes of   *)
(* it.  Recovery writes nothing to flash, so it is a function of the       *)
(* flash: the result does not depend on how often recovery is interrupted. *)
(*                                                                         *)
(* A data page carries in its spare area the logical page, the number of   *)
(* pages of its write command and the epoch of that command (cache.c,      *)
(* dequeue); a page copied by garbage collection carries GcTag instead of  *)
(* an epoch.  ver stands for the payload: the number of the write command  *)
(* that produced it, which a copy leaves unchanged.                        *)
(***************************************************************************)
EXTENDS BlkList, Sequences, SequencesExt

CONSTANTS NumBanks,             \* NUM_BANKS
          Lpns,                 \* logical pages, a set of numbers
          PagesPerVblk,         \* PAGES_PER_VBLK; the last page is a summary
          EpochMod              \* 2^32: epochs are UINT32

ASSUME RecoveryAssumption ==
  /\ NumBanks \in Nat \ {0}
  /\ Lpns \subseteq Nat
  /\ PagesPerVblk \in Nat /\ PagesPerVblk > 1
  /\ EpochMod \in Nat /\ EpochMod > 3

ASSUME LpnsAssumption == IsFiniteSet(Lpns)

Banks   == 0..(NumBanks - 1)
Bank(l) == l % NumBanks                         \* get_bank
Pages   == 0..(PagesPerVblk - 1)
Epochs  == 0..(EpochMod - 1)
GcTag   == EpochMod - 2                         \* (UINT32)-2

Ppn    == [blk: Blks, page: Pages]
NoPpn  == [blk |-> NoBlk, page |-> 0]           \* ppn 0: never written
PpnOpt == Ppn \cup {NoPpn}
NoMap  == [epoch |-> 0, map |-> [l \in Lpns |-> NoPpn]]

DataPage == [lpn: Lpns, span: Nat, epoch: Epochs, ver: Nat]
Block    == [pages: Seq(DataPage), next: Blks \cup {NoBlk}]
MapEnt   == [lpn: Lpns, ppn: Ppn]
DepEnt   == [src: Epochs, dst: Epochs, span: Nat]
MapTable == [epoch: Epochs, map: [Lpns -> PpnOpt]]
LogPage  == [type: {"tag"}, epoch: Epochs, active: [Banks -> Ppn]]
              \cup [type: {"mapent"}, ents: Seq(MapEnt)]
              \cup [type: {"depent"}, ents: Seq(DepEnt)]

Erased == [pages |-> <<>>, next |-> NoBlk]

\* epoch - 1 and epoch + 1 in UINT32 arithmetic
EpochPred(e) == IF e = 0 THEN EpochMod - 1 ELSE e - 1
EpochSucc(e) == (e + 1) % EpochMod

-----------------------------------------------------------------------------
\* pgmap_restore_map_table: the committed map table with the larger epoch;
\* an epoch of 0 counts as no table.
RestoredMap(maps) ==
  IF maps[0].epoch = 0 /\ maps[1].epoch = 0 THEN NoMap
  ELSE IF maps[0].epoch > maps[1].epoch THEN maps[0] ELSE maps[1]

TagsOf(log) == {i \in DOMAIN log : log[i].type = "tag"}

\* find_last_commit: the tag the scan of the log sees last.
LastTag(log) == log[Max(TagsOf(log))]

\* reach_last_commit: the later passes stop at the first tag with its epoch.
ReachLast(log) ==
  Min({i \in TagsOf(log) : log[i].epoch = LastTag(log).epoch})

\* What a scan meets is kept with its place, a tuple of numbers (at); LastOf
\* is what the scan meets last.
Earlier(x, y) ==
  \E k \in DOMAIN x : x[k] < y[k] /\ \A i \in 1..(k - 1) : x[i] = y[i]
LastOf(S) == CHOOSE x \in S : \A y \in S : y = x \/ Earlier(y.at, x.at)

\* process_mapent, for every mapent page before the last commit: of the
\* entries for a logical page the last one stays.
Mapents(log, last) ==
  UNION {{[at |-> <<j, i>>, ent |-> log[j].ents[i]] : i \in DOMAIN log[j].ents} :
           j \in {k \in DOMAIN log : k <= last /\ log[k].type = "mapent"}}
ReplayMapents(log, base, last) ==
  LET ents == Mapents(log, last)
  IN  [l \in Lpns |-> LET S == {x \in ents : x.ent.lpn = l}
                      IN  IF S = {} THEN base[l] ELSE LastOf(S).ent.ppn]

\* The depent pages that follow the last commit with no other page between.
DepPages(log, last) ==
  {j \in DOMAIN log : j > last /\ \A i \in (last + 1)..j :
                                     log[i].type = "depent"}
DepIds(log, last) ==
  UNION {{<<j, i>> : i \in DOMAIN log[j].ents} : j \in DepPages(log, last)}

\* retrieve_page_entries: the pages from the active page of the tag on, to
\* the end of its block and through the blocks the summary pages link to.
ChainOf(blocks, ppn) ==
  LET chain[n \in 0..NumBlks] ==
        IF n = 0 THEN <<ppn.blk>>
        ELSE LET s == chain[n - 1]  nxt == blocks[Last(s)].next
             IN  IF nxt = NoBlk THEN s ELSE Append(s, nxt)
  IN  chain[NumBlks]

Retrieved(b, blocks, ppn) ==
  LET chain == ChainOf(blocks, ppn)
      from(n) == IF n = 1 THEN ppn.page ELSE 0
  IN  UNION {{[at  |-> <<b, n, p>>,
               ppn |-> [blk |-> chain[n], page |-> p],
               pg  |-> blocks[chain[n]].pages[p + 1]] :
                 p \in from(n)..(Len(blocks[chain[n]].pages) - 1)} :
               n \in DOMAIN chain}

AllRetrieved(flash, active) ==
  UNION {Retrieved(b, flash[b], active[b]) : b \in Banks}

-----------------------------------------------------------------------------
\* add_recovery_ent for the retrieved pages (mode 0) and the dependencies:
\* how many pages of the write with this epoch are accounted for.
WritePages(pages, commit) ==
  {x \in pages : x.pg.epoch # GcTag /\ x.pg.epoch > commit}

Found(epoch, pages, deps, commit) ==
  Cardinality({x \in WritePages(pages, commit) : x.pg.epoch = epoch})
    + Cardinality({d \in DOMAIN deps : deps[d].src = epoch
                                         /\ epoch > commit})

Span(epoch, pages, deps, commit) ==
  LET S == {x.pg.span : x \in {y \in WritePages(pages, commit) :
                                 y.pg.epoch = epoch}}
             \cup {deps[d].span : d \in {c \in DOMAIN deps :
                                 deps[c].src = epoch /\ epoch > commit}}
  IN  IF S = {} THEN 0 ELSE Max(S)

EpochMax(pages, deps, commit) ==
  Max({commit}
        \cup {x.pg.epoch : x \in WritePages(pages, commit)}
        \cup {deps[d].src : d \in {c \in DOMAIN deps :
                                     deps[c].src > commit}})

\* find_first_incomplete_write
FirstIncomplete(pages, deps, commit) ==
  LET last == EpochMax(pages, deps, commit) - commit
      full(i) == /\ Span(commit + i, pages, deps, commit) # 0
                 /\ Span(commit + i, pages, deps, commit)
                      = Found(commit + i, pages, deps, commit)
      idx == Min({last + 1} \cup {i \in 1..last : ~full(i)})
  IN  (commit + idx) % EpochMod

\* pull_epoch_incomplete: the dependencies sorted by source are gone through
\* from the largest source down, sources from incomplete on without effect.
PullIncompleteUp(deps, incomplete) ==   \* mutant: smallest source first
  LET pull[s \in 0..incomplete] ==
        IF s = 0 THEN incomplete
        ELSE IF /\ s - 1 < pull[s - 1]
                /\ \E d \in DOMAIN deps : /\ deps[d].src = s - 1
                                          /\ deps[d].dst >= pull[s - 1]
             THEN s - 1 ELSE pull[s - 1]
  IN  pull[incomplete]
PullIncomplete(deps, incomplete) ==
  LET pull[s \in 0..incomplete] ==
        IF s = incomplete THEN s
        ELSE IF \E d \in DOMAIN deps : /\ deps[d].src = s
                                       /\ deps[d].dst >= pull[s + 1]
             THEN s ELSE pull[s + 1]
  IN  pull[0]

\* retrieve_page_entries in mode 0: copies made by GC since the last tag.
RemapCopies(map, pages) ==
  [l \in Lpns |->
     LET S == {x \in pages : x.pg.lpn = l /\ x.pg.epoch = GcTag}
     IN  IF S = {} THEN map[l] ELSE LastOf(S).ppn]

\* remap_page_entries (mode 1): the newest page before the cut, the first one
\* scanned if there are several; epoch_prev (RECOVERY_PAGE_EPOCH) starts at 0
\* for every logical page.
NewestOf(S) ==
  CHOOSE x \in S : \A y \in S :
    \/ y = x \/ y.pg.epoch < x.pg.epoch
    \/ y.pg.epoch = x.pg.epoch /\ Earlier(x.at, y.at)
RemapWrites(map, pages, incomplete) ==
  [l \in Lpns |->
     LET S == {x \in pages : /\ x.pg.lpn = l
                             /\ 0 < x.pg.epoch /\ x.pg.epoch < incomplete}
     IN  IF S = {} THEN map[l] ELSE NewestOf(S).ppn]

\* ftl_recovery (analyze and rebuild) after init_pgmap.  Without any tag the
\* full checkpoint is all there is.
Recover(flash, log, maps) ==
  LET base == RestoredMap(maps)
  IN  IF TagsOf(log) = {}
        THEN [incomplete |-> EpochSucc(base.epoch), map |-> base.map]
        ELSE LET last   == ReachLast(log)
                 tag    == LastTag(log)
                 pages  == AllRetrieved(flash, tag.active)
                 ids    == DepIds(log, last)
                 deps   == [d \in ids |-> log[d[1]].ents[d[2]]]
                 cut    == PullIncomplete(deps,
                             FirstIncomplete(pages, deps, tag.epoch))
                 redone == RemapCopies(
                             ReplayMapents(log, base.map, last), pages)
             IN  [incomplete |-> cut, map |-> RemapWrites(redone, pages, cut)]
=============================================================================
