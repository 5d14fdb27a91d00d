----------------------------- MODULE VstMemory -----------------------------
(***************************************************************************)
(* The memories of the simulator (vst/src/vram.c, vflash.c, vpage.c and    *)
(* the wrappers of vst/port.c), next to the memories they stand for.       *)
(*                                                                         *)
(* A simulated page holds either metadata, as bytes, or host data, as a    *)
(* tag and, for each sector, the address and version that was written      *)
(* there.  cell and nand are the real memories: each sector holds a sector *)
(* of host data or a value of metadata, whatever its neighbours hold.      *)
(* "VST prohibits saving both host data and metadata on the same page"     *)
(* (vpage.c:15): the guards AloneHost and AloneMeta are that rule, which   *)
(* the firmware has to keep; everything else it may do in any order.       *)
(*                                                                         *)
(* A copy of host data that ends at the end of a page also gives a tag to  *)
(* the page behind (vram.c:139), whatever that page holds.  Its bytes stay *)
(* and are read as before, but a program would take it for host data: the  *)
(* pages Behind hold metadata as HEAD_BUF(0), behind the last buffer of    *)
(* the cache, does, which is programmed right after a store to it          *)
(* (persist_tag): action Persist.                                          *)
(*                                                                         *)
(* Metadata has the grain of a sector.  The read buffers are the first     *)
(* pages of DRAM and the write buffers the next ones, as in ftl.h, and     *)
(* the last page is never used, as NUM_RW_BUFFERS leaves it.               *)
(***************************************************************************)
EXTENDS Integers, FiniteSets

CONSTANTS
  SECTORS_PER_PAGE,
  RSize, WSize,   \* rbuf.size, wbuf.size
  DramPages,      \* VST_DRAM_SIZE in pages
  Blocks, PAGES_PER_BLOCK,
  VST_MAX_LBA,
  Metadata,       \* values of metadata
  MetaPages,      \* pages of DRAM the firmware stores metadata in
  CopyPages,      \* those it copies host data to: the read buffers (ftl.c:181)
                  \* and the buffers of the cache (cache.c:70)
  MaxVer          \* bound: versions of a sector

VstMemoryConstants ==
  /\ SECTORS_PER_PAGE \in Nat \ {0} /\ RSize \in Nat \ {0} /\ WSize \in Nat \ {0}
  /\ DramPages \in Nat /\ RSize + WSize < DramPages
  /\ PAGES_PER_BLOCK \in Nat \ {0} /\ VST_MAX_LBA \in Nat /\ MaxVer \in Nat
  /\ Metadata \subseteq Nat \ {0} /\ MetaPages \subseteq 0 .. DramPages - 2
  /\ CopyPages \subseteq 0 .. DramPages - 2

ASSUME MemoryConstants == VstMemoryConstants

VARIABLES
  vram,        \* DRAM page -> simulated page
  flash,       \* <<block, page>> -> simulated page, is_erased
  rptr, wptr,  \* rbuf.ptr, wbuf.ptr
  vers,        \* address -> version last sent by the host
  cell,        \* the real DRAM:  page -> sector -> contents
  nand         \* the real flash: page -> sector -> contents

vars == <<vram, flash, rptr, wptr, vers, cell, nand>>

Off == 0 .. SECTORS_PER_PAGE - 1
Dram == 0 .. DramPages - 1
Used == 0 .. DramPages - 2
FlashPages == Blocks \X (0 .. PAGES_PER_BLOCK - 1)
Lbas == 0 .. VST_MAX_LBA
Behind == {p + 1 : p \in CopyPages}
Address == 0 .. DramPages * SECTORS_PER_PAGE - 1

\* Contents of a sector of a real memory.  Blank is any value that means
\* nothing: cleared, erased, or what malloc left.  Nobody relies on it, nor
\* on what is lost.
Host(lba, ver) == <<lba, ver>>
Meta(x) == <<-1, x>>
Blank == 0
Lost == <<-2, 0>>
Filler == {Meta(Blank), Lost}

IsHost(c) == c[1] >= 0
IsMeta(c) == ~IsHost(c) /\ c \notin Filler

-----------------------------------------------------------------------------
(* Simulated pages (vpage.c).                                              *)

\* No sector, or the zeros of a page that was never tagged: no version is 0.
NoSect == <<-1, 0>>

\* mutant: the sectors keep what an earlier tag left in them
TagPageKeeps(pp) == [pp EXCEPT !.tagged = TRUE]
tag_page(pp) ==
  IF pp.tagged THEN pp
  ELSE [pp EXCEPT !.tagged = TRUE, !.sects = [o \in Off |-> NoSect]]
untag_page(pp) == [pp EXCEPT !.tagged = FALSE]

\* vpage_init, and a page without data.
NewPage ==
  [tagged |-> FALSE, data |-> [o \in Off |-> Blank],
   sects |-> [o \in Off |-> NoSect]]

vpage_copy(dst, src, sect, n) ==
  LET In(o) == o \in sect .. sect + n - 1
      tagged == tag_page(dst)
  IN IF src.tagged
     THEN [tagged EXCEPT !.sects = [o \in Off |-> IF In(o) THEN src.sects[o] ELSE tagged.sects[o]]]
     ELSE [untag_page(dst) EXCEPT !.data = [o \in Off |-> IF In(o) THEN src.data[o] ELSE dst.data[o]]]

vpage_free(pp) == [pp EXCEPT !.tagged = FALSE, !.data = [o \in Off |-> Blank]]

\* vpage_serialize and vpage_deserialize: what is left of a page in an image.
vpage_saved(pp) ==
  IF pp.tagged THEN [NewPage EXCEPT !.tagged = TRUE, !.sects = pp.sects]
               ELSE [NewPage EXCEPT !.data = pp.data]

\* The real counterpart of vpage_copy.
Copied(dst, src, sect, n) == [o \in Off |-> IF o \in sect .. sect + n - 1 THEN src[o] ELSE dst[o]]

-----------------------------------------------------------------------------
ErasedPage == [page |-> NewPage, is_erased |-> TRUE]

Init ==
  /\ vram = [p \in Dram |-> NewPage]
  /\ flash = [f \in FlashPages |-> ErasedPage]
  /\ rptr = 0 /\ wptr = 0
  /\ vers = [l \in Lbas |-> 0]
  /\ cell = [p \in Dram |-> [o \in Off |-> Meta(Blank)]]
  /\ nand = [f \in FlashPages |-> [o \in Off |-> Meta(Blank)]]

(* Addresses of sectors in DRAM: a is one, n a number of sectors.          *)

Page(a) == a \div SECTORS_PER_PAGE
Sector(a) == a % SECTORS_PER_PAGE
AddressOf(p, o) == p * SECTORS_PER_PAGE + o
\* The pages that vst_memcpy and vst_memset retag: the loop ends at the page
\* of the first byte behind the range.
PagesTo(a, n) == Page(a) .. Page(a + n)
InRange(p, o, a, n) == AddressOf(p, o) \in a .. a + n - 1

\* Metadata is written only if the pages that lose their tag hold no host data
\* outside the range: in ftl.h no table has host data behind it.  Host data
\* are written only if the pages of the range hold no metadata outside it.
AloneMeta(a, n, pages) ==
  \A p \in pages, o \in Off : IsHost(cell[p][o]) => InRange(p, o, a, n)
AloneHost(a, n) ==
  \A p \in Page(a) .. Page(a + n - 1), o \in Off :
    InRange(p, o, a, n) \/ ~IsMeta(cell[p][o])

-----------------------------------------------------------------------------
(* The host.                                                               *)

rbuf(k) == k
wbuf(k) == RSize + k

PageOf(lba) == lba \div SECTORS_PER_PAGE
\* The buffer that takes sector lba of a request for n sectors from first.
BufferOf(ptr, size, first, lba) == (ptr + PageOf(lba) - PageOf(first)) % size
Pieces(lba, n) == PageOf(lba + n - 1) - PageOf(lba) + 1

\* send_to_wbuf.  A request is not larger than the buffers.  What recovery
\* kept in them (RECOVERY_PAGE_EPOCH overlaps them) is no longer used.
SendToWbuf(lba, n) ==
  LET ver == [l \in Lbas |-> IF l \in lba .. lba + n - 1 THEN vers[l] + 1 ELSE vers[l]]
      \* The piece that goes to page p, and the sector of it at o.
      Piece(p) == (p - wbuf(wptr)) % WSize
      Lba(p, o) == ((PageOf(lba) + Piece(p)) * SECTORS_PER_PAGE) + o
      Touched(p) == p \in {wbuf(k) : k \in 0 .. WSize - 1} /\ Piece(p) < Pieces(lba, n)
      Sent(p, o) == Lba(p, o) \in lba .. lba + n - 1
  IN /\ Pieces(lba, n) <= WSize
     /\ \A l \in lba .. lba + n - 1 : vers[l] < MaxVer
     /\ vers' = ver
     /\ vram' = [p \in Dram |->
                   IF ~Touched(p) THEN vram[p]
                   ELSE [tag_page(vram[p]) EXCEPT !.sects =
                           [o \in Off |-> IF Sent(p, o) THEN <<Lba(p, o), ver[Lba(p, o)]>>
                                          ELSE tag_page(vram[p]).sects[o]]]]
     /\ cell' = [p \in Dram |->
                   IF ~Touched(p) THEN cell[p]
                   ELSE [o \in Off |->
                           IF Sent(p, o) THEN Host(Lba(p, o), ver[Lba(p, o)])
                           ELSE IF IsMeta(cell[p][o]) THEN Meta(Blank)
                           ELSE cell[p][o]]]
     /\ wptr' = (wptr + Pieces(lba, n)) % WSize
     /\ UNCHANGED <<flash, rptr, nand>>

\* chk_lpn_consistent, on one sector: TRUE if it is let through.
Consistent(page, l) ==
  vers[l] # 0 => page.sects[l % SECTORS_PER_PAGE] = <<l, vers[l]>>

CheckPasses(lba, n) ==
  \A l \in lba .. lba + n - 1 : Consistent(vram[rbuf(BufferOf(rptr, RSize, lba, l))], l)

\* recv_from_rbuf: a sector that does not pass aborts the run.
RecvFromRbuf(lba, n) ==
  /\ CheckPasses(lba, n)
  /\ rptr' = (rptr + Pieces(lba, n)) % RSize
  /\ UNCHANGED <<vram, flash, wptr, vers, cell, nand>>

\* The version that keep_version records for lba.
Kept(lba) ==
  LET pp == vram[rbuf(rptr)]
      s == pp.sects[lba % SECTORS_PER_PAGE]
  IN IF ~pp.tagged \/ s[1] # lba THEN 0 ELSE s[2]

KeepVersion ==
  /\ rptr' = (rptr + 1) % RSize
  /\ UNCHANGED <<vram, flash, wptr, vers, cell, nand>>

-----------------------------------------------------------------------------
(* Flash operations.                                                       *)

\* vst_read_page.
ReadPage(f, p, sect, n) ==
  /\ sect + n <= SECTORS_PER_PAGE
  /\ IF flash[f].page.tagged
     THEN AloneHost(AddressOf(p, sect), n)
     ELSE /\ p \in MetaPages \/ \A o \in Off : nand[f][o] \in Filler
          /\ AloneMeta(AddressOf(p, sect), n, {p})
  /\ vram' = [vram EXCEPT ![p] = vpage_copy(vram[p], flash[f].page, sect, n)]
  /\ cell' = [cell EXCEPT ![p] = Copied(cell[p], nand[f], sect, n)]
  /\ UNCHANGED <<flash, rptr, wptr, vers, nand>>

\* vst_write_page and vst_copyback_page.  chk_overwrite aborts a program on
\* a page that is not erased; that the firmware never does it is shown in
\* OptrFtl (ProgramsErasedPages).
Program(f, page, cells, sect, n) ==
  /\ flash[f].is_erased
  /\ sect + n <= SECTORS_PER_PAGE
  /\ flash' = [flash EXCEPT ![f] = [page |-> vpage_copy(@.page, page, sect, n), is_erased |-> FALSE]]
  /\ nand' = [nand EXCEPT ![f] = Copied(nand[f], cells, sect, n)]
  /\ UNCHANGED <<rptr, wptr, vers>>

WritePage(p, f, sect, n) ==
  /\ p \in Behind => \A o \in Off : ~IsMeta(cell[p][o])
  /\ Program(f, vram[p], cell[p], sect, n)
  /\ UNCHANGED <<vram, cell>>
CopybackPage(f, g) ==
  /\ f # g /\ Program(g, flash[f].page, nand[f], 0, SECTORS_PER_PAGE)
  /\ UNCHANGED <<vram, cell>>

\* persist_tag: the tag is stored in its buffer, which is then programmed.
Persist(p, o, x, f) ==
  LET page == [untag_page(vram[p]) EXCEPT !.data = [vram[p].data EXCEPT ![o] = x]]
      cells == [cell[p] EXCEPT ![o] = Meta(x)]
  IN /\ AloneMeta(AddressOf(p, o), 1, {p})
     /\ Program(f, page, cells, 0, SECTORS_PER_PAGE)
     /\ vram' = [vram EXCEPT ![p] = page]
     /\ cell' = [cell EXCEPT ![p] = cells]

EraseBlock(blk) ==
  /\ flash' = [f \in FlashPages |->
                 IF f[1] = blk THEN [page |-> vpage_free(flash[f].page), is_erased |-> TRUE] ELSE flash[f]]
  /\ nand' = [f \in FlashPages |-> IF f[1] = blk THEN [o \in Off |-> Meta(Blank)] ELSE nand[f]]
  /\ UNCHANGED <<vram, rptr, wptr, vers, cell>>

-----------------------------------------------------------------------------
(* DRAM operations.                                                        *)

\* Bytes written by a store of the firmware, at the grain of a sector.
Stored(a, n, value(_), real(_), pages) ==
  /\ vram' = [p \in Dram |->
                IF p \notin pages THEN vram[p]
                ELSE [untag_page(vram[p]) EXCEPT !.data =
                        [o \in Off |-> IF InRange(p, o, a, n) THEN value(AddressOf(p, o))
                                       ELSE vram[p].data[o]]]]
  /\ cell' = [p \in Dram |->
                IF p \notin pages THEN cell[p]
                ELSE [o \in Off |-> IF InRange(p, o, a, n) THEN real(AddressOf(p, o))
                                    ELSE cell[p][o]]]
  /\ UNCHANGED <<flash, rptr, wptr, vers, nand>>

\* vst_write_dram_8, _16 and _32.
WriteDram(a, x) ==
  /\ AloneMeta(a, 1, {Page(a)})
  /\ Stored(a, 1, LAMBDA d : x, LAMBDA d : Meta(x), {Page(a)})

\* vst_set_bit_dram and vst_clr_bit_dram: the byte changes where it is, the
\* page of the base address loses its tag.  The firmware changes bits of a
\* bitmap that it has cleared before (blkmgr.c:57).
BitDram(base, a, x) ==
  /\ IsMeta(cell[Page(a)][Sector(a)])
  /\ \A o \in Off : ~IsHost(cell[Page(base)][o])
  /\ vram' = [p \in Dram |->
       LET pp == IF p = Page(base) THEN untag_page(vram[p]) ELSE vram[p]
       IN IF p = Page(a) THEN [pp EXCEPT !.data = [vram[p].data EXCEPT ![Sector(a)] = x]] ELSE pp]
  /\ cell' = [cell EXCEPT ![Page(a)] = [cell[Page(a)] EXCEPT ![Sector(a)] = Meta(x)]]
  /\ UNCHANGED <<flash, rptr, wptr, vers, nand>>

\* vst_memset, and vst_memcpy from SRAM.
MemSet(a, n, x) ==
  /\ a + n \in Address
  /\ AloneMeta(a, n, PagesTo(a, n))
  /\ Stored(a, n, LAMBDA d : x, LAMBDA d : Meta(x), PagesTo(a, n))

\* vst_memcpy from DRAM, of metadata.  From a page behind a target of copies it
\* is copied only after a store to that page.
CopyMeta(d, s, n) ==
  LET Value(a) == vram[Page(a - d + s)].data[Sector(a - d + s)]
      Real(a) == cell[Page(a - d + s)][Sector(a - d + s)]
  IN /\ ~vram[Page(s)].tagged
     /\ \A a \in s .. s + n - 1 : ~IsHost(cell[Page(a)][Sector(a)])
     /\ AloneMeta(d, n, PagesTo(d, n))
     /\ Stored(d, n, Value, Real, PagesTo(d, n))

\* vst_memcpy from DRAM, of host data, sector by sector.  It goes by the tag
\* of the first source page: the firmware never copies across pages whose
\* tags differ.  The pages that get a tag go on to the one behind the range;
\* what it holds is not looked at.
CopyHost(d, s, n) ==
  LET Source(p, o) == AddressOf(p, o) - d + s
  IN /\ vram[Page(s)].tagged
     /\ \A a \in s .. s + n - 1 : vram[Page(a)].tagged
     /\ \A a \in s .. s + n - 1 : ~IsMeta(cell[Page(a)][Sector(a)])
     /\ AloneHost(d, n)
     /\ vram' = [p \in Dram |->
                   IF p \notin PagesTo(d, n) THEN vram[p]
                   ELSE [tag_page(vram[p]) EXCEPT !.sects =
                     [o \in Off |-> IF InRange(p, o, d, n)
                                    THEN vram[Page(Source(p, o))].sects[Sector(Source(p, o))]
                                    ELSE tag_page(vram[p]).sects[o]]]]
     /\ cell' = [p \in Dram |->
                   IF p \notin PagesTo(d, n) THEN cell[p]
                   ELSE [o \in Off |-> IF InRange(p, o, d, n)
                                       THEN cell[Page(Source(p, o))][Sector(Source(p, o))]
                                       ELSE cell[p][o]]]
     /\ UNCHANGED <<flash, rptr, wptr, vers, nand>>

\* A read of sectors that were never written: the store of ftl.c:167 is
\* omitted (omit_next_dram_op), and only the tag is taken.  The rest of the
\* read buffer is not part of the answer.
OmittedSet(k) ==
  LET p == rbuf(k)
  IN /\ vram' = [vram EXCEPT ![p] = untag_page(@)]
     /\ cell' = [cell EXCEPT ![p] = [o \in Off |-> Meta(Blank)]]
     /\ UNCHANGED <<flash, rptr, wptr, vers, nand>>

-----------------------------------------------------------------------------
(* Power failure and images.                                               *)

\* reset_rwbuf_ptr, in the child of a simulated crash.  The bytes of DRAM
\* are cleared, the tags are not: the sectors of a tagged page are still
\* there for the simulator, and lost on the device.
Crash ==
  /\ vram' = [p \in Dram |-> [vram[p] EXCEPT !.data = [o \in Off |-> Blank]]]
  /\ cell' = [p \in Dram |-> [o \in Off |-> IF vram[p].tagged THEN Lost ELSE Meta(Blank)]]
  /\ rptr' = 0 /\ wptr' = 0
  /\ UNCHANGED <<flash, vers, nand>>

\* serialize_flash, read back by deserialize_flash after open_flash.
Image == [f \in FlashPages |->
  IF flash[f].is_erased THEN ErasedPage
  ELSE [page |-> vpage_saved(flash[f].page), is_erased |-> FALSE]]

\* A run that starts from the image of another: open_flash, open_ram,
\* deserialize_flash.
Reopen ==
  /\ flash' = Image
  /\ vram' = [p \in Dram |-> NewPage]
  /\ cell' = [p \in Dram |-> [o \in Off |-> Meta(Blank)]]
  /\ rptr' = 0 /\ wptr' = 0
  /\ UNCHANGED <<vers, nand>>

-----------------------------------------------------------------------------
Lengths == 1 .. SECTORS_PER_PAGE
SectorsOf(pages) == {AddressOf(p, o) : p \in pages, o \in Off}
In(a, n, pages) == {Page(a), Page(a + n - 1)} \subseteq pages
Apart(d, s, n) == d + n <= s \/ s + n <= d
RBufs == {rbuf(k) : k \in 0 .. RSize - 1}
WBufs == {wbuf(k) : k \in 0 .. WSize - 1}

Next ==
  \/ \E l \in Lbas, n \in 1 .. VST_MAX_LBA + 1 :
       l + n - 1 \in Lbas /\ (SendToWbuf(l, n) \/ (Pieces(l, n) <= RSize /\ RecvFromRbuf(l, n)))
  \/ KeepVersion
  \/ \E f \in FlashPages, p \in Used, sect \in Off, n \in Lengths :
       \/ p \notin WBufs \ MetaPages /\ ReadPage(f, p, sect, n)
       \/ p \notin RBufs \ MetaPages /\ WritePage(p, f, sect, n)
  \/ \E f \in FlashPages, p \in MetaPages, o \in Off, x \in Metadata : Persist(p, o, x, f)
  \/ \E f, g \in FlashPages : CopybackPage(f, g)
  \/ \E blk \in Blocks : EraseBlock(blk)
  \/ \E a \in SectorsOf(MetaPages), x \in Metadata : WriteDram(a, x)
  \/ \E base, a \in SectorsOf(MetaPages), x \in Metadata : base <= a /\ BitDram(base, a, x)
  \/ \E a \in SectorsOf(MetaPages), n \in Lengths \ {1}, x \in Metadata :
       In(a, n, MetaPages) /\ MemSet(a, n, x)
  \/ \E d, s \in SectorsOf(MetaPages), n \in Lengths :
       Apart(d, s, n) /\ In(d, n, MetaPages) /\ In(s, n, MetaPages) /\ CopyMeta(d, s, n)
  \/ \E d \in SectorsOf(CopyPages), q \in Used \ RBufs, n \in Lengths :
       LET s == AddressOf(q, Sector(d))
       IN /\ Apart(d, s, n) /\ In(d, n, CopyPages) /\ In(s, n, Used \ RBufs)
          /\ CopyHost(d, s, n)
  \/ \E k \in 0 .. RSize - 1 : OmittedSet(k)
  \/ Crash
  \/ Reopen

Spec == Init /\ [][Next]_vars

-----------------------------------------------------------------------------
\* A simulated page and its real counterpart.
TagsMatch(pp, cells) ==
  \A o \in Off : cells[o] # Lost =>
    /\ IsHost(cells[o]) => pp.tagged /\ pp.sects[o] = cells[o]
    /\ pp.tagged /\ pp.sects[o][1] # -1 => pp.sects[o] = cells[o]
BytesMatch(pp, cells) ==
  \A o \in Off : IsMeta(cells[o]) => Meta(pp.data[o]) = cells[o]
NotHidden(pp, cells) == pp.tagged => \A o \in Off : ~IsMeta(cells[o])

\* Wherever the real memory holds a sector that the host sent, the simulator
\* says so with the right address and version, and it says so nowhere else,
\* through any sequence of buffers, programs, copies, erases, images and
\* crashes that keeps the rule of vpage.c:15.
HostDataExact ==
  /\ \A p \in Dram : TagsMatch(vram[p], cell[p])
  /\ \A f \in FlashPages : TagsMatch(flash[f].page, nand[f])

\* Metadata is in memory as on the device, and no tag hides it from a program
\* or a copy: not that of an earlier use of the page, nor one that a neighbour's
\* copy left.  The pages behind the targets of copies may have such a tag, with
\* the right bytes under it, until the next store; never does it reach flash.
MetadataExact ==
  /\ \A p \in Dram :
       BytesMatch(vram[p], cell[p]) /\ (p \notin Behind => NotHidden(vram[p], cell[p]))
  /\ \A f \in FlashPages :
       BytesMatch(flash[f].page, nand[f]) /\ NotHidden(flash[f].page, nand[f])

\* Real contents of the read buffer for sector l of a request from lba.
Answer(lba, l) == cell[rbuf(BufferOf(rptr, RSize, lba, l))][l % SECTORS_PER_PAGE]
Requests == {r \in Lbas \X (1 .. VST_MAX_LBA + 1) :
               r[1] + r[2] - 1 \in Lbas /\ Pieces(r[1], r[2]) <= RSize}
Right(lba, n) == \A l \in lba .. lba + n - 1 : vers[l] # 0 => Answer(lba, l) = Host(l, vers[l])

\* The simulator never aborts on an answer that is right on the device.
NoFalseMismatch == \A r \in Requests : Right(r[1], r[2]) => CheckPasses(r[1], r[2])

\* What a child records for a sector is the version the device would return.
KeptVersionExact ==
  \A l \in Lbas : Answer(l, l) # Lost =>
    Kept(l) = IF IsHost(Answer(l, l)) /\ Answer(l, l)[1] = l THEN Answer(l, l)[2] ELSE 0

=============================================================================
