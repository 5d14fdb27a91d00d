-------------------------- MODULE VstMemoryProofs --------------------------
(***************************************************************************)
(* The memories of the simulator tell what the memories they stand for     *)
(* hold, for any number and size of pages, buffers and blocks: host data   *)
(* are known by address and version, metadata have the bytes of the device *)
(* and no tag over them but behind a target of copies, as long as the      *)
(* firmware keeps the rule of vpage.c.                                     *)
(***************************************************************************)
EXTENDS VstMemory, TLAPS

-----------------------------------------------------------------------------
(* The invariant.                                                          *)

\* What sectors of real and of simulated pages may hold.
Contents == (Lbas \X Nat) \cup ({-1} \X Nat) \cup {Lost}
Sects    == (Lbas \X Nat) \cup {NoSect}
SimPage  == [tagged: BOOLEAN, data: [Off -> Nat], sects: [Off -> Sects]]

TypeOK ==
  /\ vram \in [Dram -> SimPage] /\ cell \in [Dram -> [Off -> Contents]]
  /\ flash \in [FlashPages -> [page: SimPage, is_erased: BOOLEAN]]
  /\ nand \in [FlashPages -> [Off -> Contents]]
  /\ rptr \in 0 .. RSize - 1 /\ vers \in [Lbas -> Nat]

\* TagsMatch and BytesMatch, of one sector: tag t and bytes x of its page,
\* what the simulator has for it (s), and what it holds (c).  A page may be
\* behind a target of copies (b): then its metadata may have a tag over them.
SectOk(t, s, x, c) ==
  /\ IsHost(c) => t /\ s = c
  /\ t /\ s[1] # -1 /\ c # Lost => s = c
  /\ IsMeta(c) => Meta(x) = c
NoMeta(cells) == \A o \in Off : ~IsMeta(cells[o])
PageOk(pp, cells, b) ==
  /\ \A o \in Off : SectOk(pp.tagged, pp.sects[o], pp.data[o], cells[o])
  /\ b \/ (pp.tagged => NoMeta(cells))

\* An erased page, whose sectors may be left from an earlier use.
ErasedOk(f) ==
  flash[f].is_erased =>
    ~flash[f].page.tagged /\ \A o \in Off : nand[f][o] = Meta(Blank)

IInv ==
  /\ TypeOK
  /\ \A p \in Dram : PageOk(vram[p], cell[p], p \in Behind)
  /\ \A f \in FlashPages : PageOk(flash[f].page, nand[f], FALSE) /\ ErasedOk(f)

-----------------------------------------------------------------------------
(* One sector.                                                             *)

LEMMA ContentsAre ==
  ASSUME NEW c \in Contents
  PROVE  /\ IsHost(c) <=> c \in Lbas \X Nat
         /\ IsHost(c) => c # Lost /\ c \notin Filler /\ c[1] # -1
         /\ c \in Filler /\ c # Lost => c = Meta(Blank) /\ c[1] = -1
         /\ c # Lost /\ ~IsHost(c) => c[1] = -1
<1>1. VST_MAX_LBA \in Nat => \A l \in Lbas : l \in Int /\ l >= 0
  BY DEF Lbas
<1>2. \A l \in Lbas : l \in Int /\ l >= 0
  BY DEF Lbas
<1>3. CASE c \in Lbas \X Nat
  <2>1. c[1] \in Int /\ c[1] >= 0
    BY <1>2, <1>3
  <2> QED
    BY <1>3, <2>1 DEF IsHost, Lost, Filler, Meta
<1>4. CASE c \in {-1} \X Nat
  <2>1. c[1] = -1
    BY <1>4
  <2>2. c \notin Lbas \X Nat
    BY <2>1, <1>2
  <2> QED
    BY <2>1, <2>2 DEF IsHost, Lost, Filler, Meta
<1>5. CASE c = Lost
  <2>1. c[1] = -2
    BY <1>5 DEF Lost
  <2>2. c \notin Lbas \X Nat
    BY <2>1, <1>2
  <2> QED
    BY <2>1, <2>2, <1>5 DEF IsHost, Lost
<1> QED
  BY <1>3, <1>4, <1>5 DEF Contents

LEMMA MetaIs ==
  ASSUME NEW x \in Nat
  PROVE  /\ Meta(x) \in Contents /\ ~IsHost(Meta(x)) /\ Meta(Blank) \in Filler
         /\ Lost \in Contents /\ Lost \in Filler /\ ~IsHost(Lost)
         /\ Meta(Blank) \in Contents /\ ~IsHost(Meta(Blank)) /\ Blank \in Nat
BY DEF Meta, Contents, IsHost, Filler, Blank, Lost

LEMMA MetadataIs ==
  ASSUME NEW c \in Contents, IsMeta(c)
  PROVE  ~IsHost(c) /\ c # Lost /\ c[1] = -1
BY ContentsAre DEF IsMeta, Filler

LEMMA BlankIs == ~IsMeta(Meta(Blank)) /\ ~IsMeta(Lost)
BY MetaIs DEF IsMeta, Blank

\* What stays when its page gains a tag, with its bytes.
LEMMA KeepTagged ==
  ASSUME NEW c \in Contents, NEW t \in BOOLEAN, NEW s, NEW x, SectOk(t, s, x, c)
  PROVE  SectOk(TRUE, IF t THEN s ELSE NoSect, x, c)
BY ContentsAre DEF SectOk, NoSect

\* Metadata that is lost when its page gains one.
LEMMA LoseMeta ==
  ASSUME NEW c \in Contents, NEW t \in BOOLEAN, NEW s, NEW x, SectOk(t, s, x, c),
         IsMeta(c), NEW y
  PROVE  SectOk(TRUE, IF t THEN s ELSE NoSect, y, Meta(Blank))
BY MetaIs, MetadataIs, BlankIs DEF SectOk, NoSect

\* Metadata that is replaced by other, whatever the tag.
LEMMA ChangeMeta ==
  ASSUME NEW c \in Contents, NEW t, NEW s, NEW x, SectOk(t, s, x, c), IsMeta(c),
         NEW y \in Nat
  PROVE  SectOk(t, s, y, Meta(y))
BY MetaIs, MetadataIs DEF SectOk

\* What is no host data stays, or is copied, where there is no tag.
LEMMA KeepMeta ==
  ASSUME NEW c \in Contents, NEW t, NEW s, NEW x, SectOk(t, s, x, c), ~IsHost(c), NEW r
  PROVE  SectOk(FALSE, r, x, c)
BY DEF SectOk

LEMMA PutMeta ==
  ASSUME NEW x, NEW s
  PROVE  SectOk(FALSE, s, x, Meta(x))
BY DEF SectOk, IsHost, Meta

LEMMA PutHost ==
  ASSUME NEW c \in Lbas \X Nat, NEW x
  PROVE  SectOk(TRUE, c, x, c) /\ ~IsMeta(c)
BY ContentsAre DEF SectOk, Contents, IsMeta

\* Copies of a page with a tag, and of one without.
LEMMA CopyTagged ==
  ASSUME NEW c, NEW t, t, NEW s, NEW x, SectOk(t, s, x, c), ~IsMeta(c), NEW y
  PROVE  SectOk(TRUE, s, y, c)
BY DEF SectOk

LEMMA CopyUntagged ==
  ASSUME NEW c, NEW t, ~t, NEW s, NEW x, SectOk(t, s, x, c), NEW r
  PROVE  ~IsHost(c) /\ SectOk(FALSE, r, x, c)
BY DEF SectOk

-----------------------------------------------------------------------------
(* Addresses.                                                              *)

LEMMA Sizes ==
  /\ SECTORS_PER_PAGE \in Nat /\ SECTORS_PER_PAGE > 0
  /\ RSize \in Nat /\ RSize > 0 /\ WSize \in Nat /\ WSize > 0
  /\ DramPages \in Nat /\ RSize + WSize < DramPages /\ VST_MAX_LBA \in Nat
  /\ Metadata \subseteq Nat
BY MemoryConstants DEF VstMemoryConstants

LEMMA SectorIn ==
  ASSUME NEW a \in Nat
  PROVE  Sector(a) \in Off /\ Page(a) \in Nat /\ PageOf(a) \in Nat
         /\ a = SECTORS_PER_PAGE * Page(a) + Sector(a)
BY Sizes DEF Sector, Off, Page, PageOf

LEMMA PageMonotone ==
  ASSUME NEW a \in Nat, NEW b \in Nat, a <= b
  PROVE  Page(a) <= Page(b)
<1>1. SUFFICES ASSUME Page(b) + 1 <= Page(a)  PROVE FALSE
  BY SectorIn
<1>2. PICK d \in Nat : Page(a) = Page(b) + 1 + d
  <2>1. Page(a) - Page(b) - 1 \in Nat /\ Page(a) = Page(b) + 1 + (Page(a) - Page(b) - 1)
    BY <1>1, SectorIn
  <2> QED
    BY <2>1
<1>3. SECTORS_PER_PAGE * Page(a)
        = SECTORS_PER_PAGE * Page(b) + SECTORS_PER_PAGE + SECTORS_PER_PAGE * d
  <2>1. \A k, m, e \in Nat : k * (m + 1 + e) = k * m + k + k * e
    OBVIOUS
  <2> QED
    BY <1>2, <2>1, Sizes, SectorIn
<1>4. SECTORS_PER_PAGE * d \in Nat
  BY Sizes
<1>5. a >= SECTORS_PER_PAGE * Page(b) + SECTORS_PER_PAGE
  <2>1. a >= SECTORS_PER_PAGE * Page(a)
    BY SectorIn, Sizes DEF Off
  <2>2. SECTORS_PER_PAGE * Page(b) \in Nat
    BY SectorIn, Sizes
  <2> QED
    BY <1>3, <1>4, <2>1, <2>2, Sizes
<1>6. b < SECTORS_PER_PAGE * Page(b) + SECTORS_PER_PAGE
  BY SectorIn, Sizes DEF Off
<1> QED
  BY <1>5, <1>6, SectorIn, Sizes

LEMMA QuotientUnique ==
  ASSUME NEW q \in Nat, NEW r \in Nat, NEW o \in Off, NEW u \in Off,
         SECTORS_PER_PAGE * q + o = SECTORS_PER_PAGE * r + u
  PROVE  q <= r
<1>1. SUFFICES ASSUME r + 1 <= q  PROVE FALSE
  OBVIOUS
<1>2. PICK d \in Nat : q = r + 1 + d
  <2>1. q - r - 1 \in Nat /\ q = r + 1 + (q - r - 1)
    BY <1>1
  <2> QED
    BY <2>1
<1>3. SECTORS_PER_PAGE * q = SECTORS_PER_PAGE * r + SECTORS_PER_PAGE + SECTORS_PER_PAGE * d
  <2>1. \A k, m, e \in Nat : k * (m + 1 + e) = k * m + k + k * e
    OBVIOUS
  <2> QED
    BY <1>2, <2>1, Sizes
<1>4. SECTORS_PER_PAGE * d \in Nat /\ SECTORS_PER_PAGE * r \in Nat
  BY Sizes
<1> QED
  BY <1>3, <1>4, Sizes DEF Off

LEMMA PageOfSum ==
  ASSUME NEW q \in Nat, NEW o \in Off
  PROVE  AddressOf(q, o) \in Nat /\ Page(AddressOf(q, o)) = q
<1>1. AddressOf(q, o) \in Nat /\ AddressOf(q, o) = SECTORS_PER_PAGE * q + o
  <2>1. q * SECTORS_PER_PAGE = SECTORS_PER_PAGE * q /\ SECTORS_PER_PAGE * q \in Nat
    BY Sizes
  <2> QED
    BY <2>1, Sizes DEF AddressOf, Off
<1>2. PICK a \in Nat : a = AddressOf(q, o)
  BY <1>1
<1>3. PICK r \in Nat, u \in Off :
        r = Page(a) /\ SECTORS_PER_PAGE * q + o = SECTORS_PER_PAGE * r + u
  BY <1>1, <1>2, SectorIn
<1>4. q <= r /\ r <= q
  BY <1>3, QuotientUnique
<1> QED
  BY <1>1, <1>2, <1>3, <1>4

\* The page after that of a byte is the next one, if it is another.
LEMMA PageNext ==
  ASSUME NEW a \in Nat
  PROVE  Page(a + 1) = Page(a) \/ Page(a + 1) = Page(a) + 1
<1>1. Page(a) <= Page(a + 1)
  BY PageMonotone
<1>2. AddressOf(Page(a) + 1, 0) \in Nat /\ Page(AddressOf(Page(a) + 1, 0)) = Page(a) + 1
  BY PageOfSum, SectorIn, Sizes DEF Off
<1>3. a + 1 <= AddressOf(Page(a) + 1, 0)
  <2>1. a + 1 <= SECTORS_PER_PAGE * Page(a) + SECTORS_PER_PAGE
    BY SectorIn, Sizes DEF Off
  <2>2. \A k, m \in Nat : (k + 1) * m = m * k + m
    OBVIOUS
  <2> QED
    BY <2>1, <2>2, SectorIn, Sizes DEF AddressOf
<1>4. Page(a + 1) <= Page(a) + 1
  BY <1>2, <1>3, PageMonotone
<1> QED
  BY <1>1, <1>4, SectorIn

\* The sectors of a range that starts and ends in DRAM.
LEMMA RangeInDram ==
  ASSUME NEW a \in Nat, NEW n \in Lengths, NEW b \in a .. a + n - 1,
         Page(a) \in Dram, Page(a + n - 1) \in Dram
  PROVE  Page(b) \in Dram /\ Sector(b) \in Off
<1>1. b \in Nat /\ a + n - 1 \in Nat /\ a <= b /\ b <= a + n - 1
  BY Sizes DEF Lengths
<1> QED
  BY <1>1, PageMonotone, SectorIn, Sizes DEF Dram

LEMMA RangeInPage ==
  ASSUME NEW p \in Dram, NEW sect \in Off, NEW n \in Lengths, NEW o \in Off
  PROVE  InRange(p, o, AddressOf(p, sect), n) <=> o \in sect .. sect + n - 1
<1>1. PICK q \in Nat : q = p * SECTORS_PER_PAGE
  BY Sizes DEF Dram
<1>2. AddressOf(p, o) = q + o /\ AddressOf(p, sect) = q + sect
  BY <1>1 DEF AddressOf
<1> QED
  BY <1>2, Sizes DEF InRange, Off, Lengths

LEMMA AddressIn ==
  ASSUME NEW p \in Dram, NEW o \in Off
  PROVE  AddressOf(p, o) \in Nat
BY Sizes DEF AddressOf, Dram, Off

-----------------------------------------------------------------------------
(* One page.                                                               *)

WithSects(pp, T) == [tag_page(pp) EXCEPT !.sects = T]
WithBytes(pp, D) == [untag_page(pp) EXCEPT !.data = D]

\* What is written under a tag: sectors that have a match, and what was there.
LaidOn(pp, cells, T, C) ==
  \A o \in Off :
    \/ \A x : SectOk(TRUE, T[o], x, C[o])
    \/ /\ T[o] = tag_page(pp).sects[o]
       /\ C[o] = cells[o] \/ (IsMeta(cells[o]) /\ C[o] = Meta(Blank))

\* Metadata stays under a tag only behind a target of copies.
LEMMA HostPage ==
  ASSUME NEW pp \in SimPage, NEW cells \in [Off -> Contents], NEW b, PageOk(pp, cells, b),
         NEW T \in [Off -> Sects], NEW C \in [Off -> Contents], NEW e, e \/ NoMeta(C),
         LaidOn(pp, cells, T, C), NEW new, new = WithSects(pp, T)
  PROVE  new \in SimPage /\ PageOk(new, C, e)
<1>1. /\ tag_page(pp) \in SimPage /\ tag_page(pp).tagged /\ tag_page(pp).data = pp.data
      /\ \A o \in Off : tag_page(pp).sects[o] = IF pp.tagged THEN pp.sects[o] ELSE NoSect
  BY DEF tag_page, SimPage, Sects
<1>2. new.tagged = TRUE /\ new.sects = T /\ new.data = pp.data
  BY <1>1 DEF SimPage, WithSects
<1>3. ASSUME NEW o \in Off,
             T[o] = tag_page(pp).sects[o],
             C[o] = cells[o] \/ (IsMeta(cells[o]) /\ C[o] = Meta(Blank))
      PROVE  SectOk(TRUE, T[o], pp.data[o], C[o])
  <2>1. /\ cells[o] \in Contents /\ pp.tagged \in BOOLEAN
        /\ SectOk(pp.tagged, pp.sects[o], pp.data[o], cells[o])
    BY DEF PageOk, SimPage
  <2>2. T[o] = IF pp.tagged THEN pp.sects[o] ELSE NoSect
    BY <1>1, <1>3
  <2>3. SectOk(TRUE, IF pp.tagged THEN pp.sects[o] ELSE NoSect, pp.data[o], cells[o])
    BY <2>1, KeepTagged
  <2>4. IsMeta(cells[o]) =>
          SectOk(TRUE, IF pp.tagged THEN pp.sects[o] ELSE NoSect, pp.data[o], Meta(Blank))
    BY <2>1, LoseMeta
  <2> QED
    BY <1>3, <2>2, <2>3, <2>4
<1>4. new \in SimPage
  BY <1>1 DEF SimPage, WithSects
<1>5. PageOk(new, C, e)
  BY <1>2, <1>3 DEF PageOk, LaidOn
<1> QED
  BY <1>4, <1>5

\* What is written without one.
LEMMA MetaPage ==
  ASSUME NEW pp \in SimPage, NEW cells \in [Off -> Contents], NEW b, PageOk(pp, cells, b),
         NEW D \in [Off -> Nat], NEW C \in [Off -> Contents], NEW e,
         \A o \in Off :
           \/ \A r : SectOk(FALSE, r, D[o], C[o])
           \/ ~IsHost(cells[o]) /\ D[o] = pp.data[o] /\ C[o] = cells[o],
         NEW new, new = WithBytes(pp, D)
  PROVE  new \in SimPage /\ PageOk(new, C, e)
<1>1. new.tagged = FALSE /\ new.data = D /\ new.sects = pp.sects
  BY DEF WithBytes, untag_page, SimPage
<1>2. ASSUME NEW o \in Off, ~IsHost(cells[o]), D[o] = pp.data[o], C[o] = cells[o]
      PROVE  SectOk(FALSE, new.sects[o], D[o], C[o])
  <2>1. /\ cells[o] \in Contents
        /\ SectOk(pp.tagged, pp.sects[o], pp.data[o], cells[o])
    BY DEF PageOk, SimPage
  <2> QED
    BY <1>2, <2>1, KeepMeta
<1>3. new \in SimPage
  BY DEF SimPage, untag_page, WithBytes
<1>4. PageOk(new, C, e)
  BY <1>1, <1>2 DEF PageOk
<1> QED
  BY <1>3, <1>4

\* A byte of metadata that changes under whatever tag its page has.
LEMMA BitPage ==
  ASSUME NEW pp \in SimPage, NEW cells \in [Off -> Contents], NEW b, PageOk(pp, cells, b),
         NEW u \in Off, IsMeta(cells[u]), NEW x \in Nat
  PROVE  /\ [pp EXCEPT !.data = [pp.data EXCEPT ![u] = x]] \in SimPage
         /\ [cells EXCEPT ![u] = Meta(x)] \in [Off -> Contents]
         /\ PageOk([pp EXCEPT !.data = [pp.data EXCEPT ![u] = x]],
                   [cells EXCEPT ![u] = Meta(x)], b)
<1> DEFINE new == [pp EXCEPT !.data = [pp.data EXCEPT ![u] = x]]
           C   == [cells EXCEPT ![u] = Meta(x)]
<1>1. new \in SimPage /\ C \in [Off -> Contents]
  BY MetaIs DEF SimPage
<1>2. /\ new.tagged = pp.tagged /\ new.sects = pp.sects
      /\ \A o \in Off : /\ new.data[o] = IF o = u THEN x ELSE pp.data[o]
                        /\ C[o] = IF o = u THEN Meta(x) ELSE cells[o]
  BY DEF SimPage
<1>3. SectOk(pp.tagged, pp.sects[u], x, Meta(x))
  BY ChangeMeta DEF PageOk
<1> HIDE DEF new, C
<1>4. \A o \in Off : SectOk(new.tagged, new.sects[o], new.data[o], C[o])
  BY <1>2, <1>3 DEF PageOk
<1>5. b \/ (pp.tagged => NoMeta(cells))
  BY DEF PageOk
<1>6. b \/ (new.tagged => NoMeta(C))
  BY <1>2, <1>5 DEF NoMeta
<1>7. PageOk(new, C, b)
  BY <1>4, <1>6 DEF PageOk
<1> QED
  BY <1>1, <1>7 DEF new, C

\* vpage_copy does what the copy does: the rest of the target may hold no
\* metadata if the source has a tag, and no host data if it has none.
LEMMA CopyPage ==
  ASSUME NEW dst \in SimPage, NEW dcells \in [Off -> Contents], NEW b, PageOk(dst, dcells, b),
         NEW src \in SimPage, NEW scells \in [Off -> Contents], PageOk(src, scells, FALSE),
         NEW sect, NEW n, NEW e,
         \A o \in Off : o \notin sect .. sect + n - 1 =>
           IF src.tagged THEN ~IsMeta(dcells[o]) ELSE ~IsHost(dcells[o])
  PROVE  /\ vpage_copy(dst, src, sect, n) \in SimPage
         /\ Copied(dcells, scells, sect, n) \in [Off -> Contents]
         /\ PageOk(vpage_copy(dst, src, sect, n), Copied(dcells, scells, sect, n), e)
<1> DEFINE C == Copied(dcells, scells, sect, n)
           I == sect .. sect + n - 1
           T == [o \in Off |-> IF o \in I THEN src.sects[o] ELSE tag_page(dst).sects[o]]
           D == [o \in Off |-> IF o \in I THEN src.data[o] ELSE dst.data[o]]
<1>1. /\ \A o \in Off : SectOk(src.tagged, src.sects[o], src.data[o], scells[o])
      /\ src.tagged => NoMeta(scells)
  BY DEF PageOk
<1>2. /\ C \in [Off -> Contents]
      /\ \A o \in Off : C[o] = IF o \in I THEN scells[o] ELSE dcells[o]
  BY DEF Copied
<1>3. CASE src.tagged
  <2>1. vpage_copy(dst, src, sect, n) = WithSects(dst, T)
    BY <1>3 DEF vpage_copy, WithSects
  <2>2. T \in [Off -> Sects]
    <3>1. src.sects \in [Off -> Sects] /\ tag_page(dst).sects \in [Off -> Sects]
      BY DEF tag_page, SimPage, Sects
    <3> QED
      BY <3>1
  <2>3. \A o \in Off : o \in I => \A x : SectOk(TRUE, T[o], x, C[o])
    BY <1>1, <1>2, <1>3, CopyTagged DEF NoMeta
  <2>4. \A o \in Off : o \notin I => T[o] = tag_page(dst).sects[o] /\ C[o] = dcells[o]
    BY <1>2, <1>3
  <2>5. NoMeta(C)
    BY <1>1, <1>2, <1>3 DEF NoMeta
  <2>6. PICK new : new = vpage_copy(dst, src, sect, n)
    OBVIOUS
  <2>7. new \in SimPage /\ PageOk(new, C, e)
    <3> HIDE DEF T, C
    <3>1. C \in [Off -> Contents]
      BY <1>2
    <3>2. LaidOn(dst, dcells, T, C)
      BY <2>3, <2>4 DEF LaidOn
    <3> QED
      BY <2>1, <2>2, <2>5, <2>6, <3>1, <3>2, HostPage
  <2> QED
    BY <1>2, <2>6, <2>7
<1>4. CASE ~src.tagged
  <2>1. vpage_copy(dst, src, sect, n) = WithBytes(dst, D)
    BY <1>4 DEF vpage_copy, WithBytes
  <2>2. D \in [Off -> Nat]
    BY DEF SimPage
  <2>3. \A o \in Off : o \in I => \A r : SectOk(FALSE, r, D[o], C[o])
    BY <1>1, <1>2, <1>4, CopyUntagged
  <2>4. \A o \in Off : o \notin I =>
          ~IsHost(dcells[o]) /\ D[o] = dst.data[o] /\ C[o] = dcells[o]
    BY <1>2, <1>4
  <2>5. PICK new : new = vpage_copy(dst, src, sect, n)
    OBVIOUS
  <2>6. new \in SimPage /\ PageOk(new, C, e)
    <3> HIDE DEF D, C
    <3>1. C \in [Off -> Contents]
      BY <1>2
    <3> QED
      BY <2>1, <2>2, <2>3, <2>4, <2>5, <3>1, MetaPage
  <2> QED
    BY <1>2, <2>5, <2>6
<1> QED
  BY <1>3, <1>4

\* A page without data, without a tag.
LEMMA BlankPage ==
  ASSUME NEW pp \in SimPage, ~pp.tagged, NEW cells, NEW b,
         cells = [o \in Off |-> Meta(Blank)]
  PROVE  cells \in [Off -> Contents] /\ PageOk(pp, cells, b)
BY MetaIs, BlankIs DEF PageOk, SectOk

LEMMA NewPageIs == NewPage \in SimPage /\ ~NewPage.tagged
BY DEF NewPage, SimPage, Sects, Blank

-----------------------------------------------------------------------------
(* The actions keep the invariant.                                         *)

LEMMA DramPageIs ==
  ASSUME IInv, NEW p \in Dram
  PROVE  vram[p] \in SimPage /\ cell[p] \in [Off -> Contents] /\ PageOk(vram[p], cell[p], p \in Behind)
BY DEF IInv, TypeOK

LEMMA FlashPageIs ==
  ASSUME IInv, NEW f \in FlashPages
  PROVE  /\ flash[f].page \in SimPage /\ flash[f].is_erased \in BOOLEAN
         /\ nand[f] \in [Off -> Contents]
         /\ PageOk(flash[f].page, nand[f], FALSE) /\ ErasedOk(f)
BY DEF IInv, TypeOK

DramOk(p) ==
  /\ vram[p] \in SimPage /\ cell[p] \in [Off -> Contents]
  /\ PageOk(vram[p], cell[p], p \in Behind)
FlashOk(f) ==
  /\ flash[f] \in [page: SimPage, is_erased: BOOLEAN] /\ nand[f] \in [Off -> Contents]
  /\ PageOk(flash[f].page, nand[f], FALSE) /\ ErasedOk(f)

LEMMA AnyStep ==
  ASSUME vram' = [p \in Dram |-> vram'[p]], cell' = [p \in Dram |-> cell'[p]],
         flash' = [f \in FlashPages |-> flash'[f]], nand' = [f \in FlashPages |-> nand'[f]],
         \A p \in Dram : DramOk(p)', \A f \in FlashPages : FlashOk(f)',
         rptr' \in 0 .. RSize - 1, vers' \in [Lbas -> Nat]
  PROVE  IInv'
<1>1. vram' \in [Dram -> SimPage] /\ cell' \in [Dram -> [Off -> Contents]]
  BY DEF DramOk
<1>2. /\ flash' \in [FlashPages -> [page: SimPage, is_erased: BOOLEAN]]
      /\ nand' \in [FlashPages -> [Off -> Contents]]
  BY DEF FlashOk
<1>3. TypeOK'
  BY <1>1, <1>2 DEF TypeOK
<1>4. \A p \in Dram : PageOk(vram[p], cell[p], p \in Behind)'
  BY DEF DramOk
<1>5. \A f \in FlashPages : (PageOk(flash[f].page, nand[f], FALSE) /\ ErasedOk(f))'
  BY DEF FlashOk
<1> QED
  BY <1>3, <1>4, <1>5 DEF IInv

\* A step that leaves the flash alone.
LEMMA DramStep ==
  ASSUME IInv, UNCHANGED <<flash, nand>>,
         vram' = [p \in Dram |-> vram'[p]], cell' = [p \in Dram |-> cell'[p]],
         \A p \in Dram :
           /\ vram'[p] \in SimPage /\ cell'[p] \in [Off -> Contents]
           /\ PageOk(vram'[p], cell'[p], p \in Behind),
         rptr' \in 0 .. RSize - 1, vers' \in [Lbas -> Nat]
  PROVE  IInv'
<1>1. \A p \in Dram : DramOk(p)'
  BY DEF DramOk
<1>2. \A f \in FlashPages : FlashOk(f)'
  BY DEF FlashOk, ErasedOk, IInv, TypeOK
<1>3. flash' = [f \in FlashPages |-> flash'[f]] /\ nand' = [f \in FlashPages |-> nand'[f]]
  BY DEF IInv, TypeOK
<1> QED
  BY <1>1, <1>2, <1>3, AnyStep

\* One that leaves the DRAM alone.
LEMMA FlashStep ==
  ASSUME IInv, UNCHANGED <<vram, cell, rptr, vers>>,
         flash' = [f \in FlashPages |-> flash'[f]], nand' = [f \in FlashPages |-> nand'[f]],
         \A f \in FlashPages : FlashOk(f)'
  PROVE  IInv'
<1>1. \A p \in Dram : DramOk(p)'
  BY DEF DramOk, IInv, TypeOK
<1>2. /\ vram' = [p \in Dram |-> vram'[p]] /\ cell' = [p \in Dram |-> cell'[p]]
      /\ rptr' \in 0 .. RSize - 1 /\ vers' \in [Lbas -> Nat]
  BY DEF IInv, TypeOK
<1> QED
  BY <1>1, <1>2, AnyStep

LEMMA SendKeeps ==
  ASSUME IInv, NEW lba \in Lbas, NEW n \in 1 .. VST_MAX_LBA + 1, lba + n - 1 \in Lbas,
         SendToWbuf(lba, n)
  PROVE  IInv'
<1> DEFINE ver == [l \in Lbas |-> IF l \in lba .. lba + n - 1 THEN vers[l] + 1 ELSE vers[l]]
           Piece(p) == (p - wbuf(wptr)) % WSize
           Lba(p, o) == ((PageOf(lba) + Piece(p)) * SECTORS_PER_PAGE) + o
           Touched(p) == p \in {wbuf(k) : k \in 0 .. WSize - 1} /\ Piece(p) < Pieces(lba, n)
           Sent(p, o) == Lba(p, o) \in lba .. lba + n - 1
           T(p) == [o \in Off |-> IF Sent(p, o) THEN <<Lba(p, o), ver[Lba(p, o)]>>
                                  ELSE tag_page(vram[p]).sects[o]]
           C(p) == [o \in Off |->
                      IF Sent(p, o) THEN Host(Lba(p, o), ver[Lba(p, o)])
                      ELSE IF IsMeta(cell[p][o]) THEN Meta(Blank)
                      ELSE cell[p][o]]
<1>1. ver \in [Lbas -> Nat]
  BY DEF IInv, TypeOK
<1>2. /\ vers' = ver
      /\ vram' = [p \in Dram |-> IF ~Touched(p) THEN vram[p]
                                 ELSE WithSects(vram[p], T(p))]
      /\ cell' = [p \in Dram |-> IF ~Touched(p) THEN cell[p] ELSE C(p)]
      /\ UNCHANGED <<flash, rptr, nand>>
  BY DEF SendToWbuf, WithSects
<1>3. ASSUME NEW p \in Dram, Touched(p)
      PROVE  /\ C(p) \in [Off -> Contents]
             /\ WithSects(vram[p], T(p)) \in SimPage
             /\ PageOk(WithSects(vram[p], T(p)), C(p), p \in Behind)
  <2>1. vram[p] \in SimPage /\ cell[p] \in [Off -> Contents] /\ PageOk(vram[p], cell[p], p \in Behind)
    BY DramPageIs
  <2>2. tag_page(vram[p]).sects \in [Off -> Sects]
    BY <2>1 DEF tag_page, SimPage, Sects
  <2>3. ASSUME NEW o \in Off, Sent(p, o)
        PROVE  /\ T(p)[o] \in Lbas \X Nat /\ T(p)[o] = C(p)[o] /\ ~IsMeta(C(p)[o])
               /\ \A x : SectOk(TRUE, T(p)[o], x, C(p)[o])
    <3>1. PICK l \in lba .. lba + n - 1 : l = Lba(p, o)
      BY <2>3
    <3>2. l \in Lbas
      BY <3>1, Sizes DEF Lbas
    <3>3. T(p)[o] = <<l, ver[l]>> /\ C(p)[o] = <<l, ver[l]>>
      BY <2>3, <3>1 DEF Host
    <3>4. <<l, ver[l]>> \in Lbas \X Nat
      BY <1>1, <3>2
    <3> QED
      BY <3>3, <3>4, PutHost
  <2>4. ASSUME NEW o \in Off, ~Sent(p, o)
        PROVE  /\ T(p)[o] = tag_page(vram[p]).sects[o]
               /\ C(p)[o] = cell[p][o] \/ (IsMeta(cell[p][o]) /\ C(p)[o] = Meta(Blank))
               /\ C(p)[o] \in Contents /\ ~IsMeta(C(p)[o])
    BY <2>1, <2>4, MetaIs, BlankIs
  <2>5. T(p) \in [Off -> Sects]
    <3>1. \A o \in Off : T(p)[o] \in Sects
      BY <2>2, <2>3, <2>4 DEF Sects
    <3> QED
      BY <3>1
  <2>6. C(p) \in [Off -> Contents]
    <3>1. \A o \in Off : C(p)[o] \in Contents
      BY <2>3, <2>4 DEF Contents
    <3> QED
      BY <3>1
  <2>7. PICK new : new = WithSects(vram[p], T(p))
    OBVIOUS
  <2>8. PICK t, c : t = T(p) /\ c = C(p)
    OBVIOUS
  <2>9. /\ \A o \in Off :
             \/ \A x : SectOk(TRUE, t[o], x, c[o])
             \/ /\ t[o] = tag_page(vram[p]).sects[o]
                /\ c[o] = cell[p][o] \/ (IsMeta(cell[p][o]) /\ c[o] = Meta(Blank))
        /\ NoMeta(c)
    BY <2>3, <2>4, <2>8 DEF NoMeta
  <2>10. new \in SimPage /\ PageOk(new, c, p \in Behind)
    <3> HIDE DEF T, C, Sent, Lba, ver, Touched
    <3>1. new = WithSects(vram[p], t) /\ t \in [Off -> Sects] /\ c \in [Off -> Contents]
      BY <2>5, <2>6, <2>7, <2>8
    <3>2. NoMeta(c)
      BY <2>9
    <3>3. LaidOn(vram[p], cell[p], t, c)
      BY <2>9 DEF LaidOn
    <3>4. /\ vram[p] \in SimPage /\ cell[p] \in [Off -> Contents]
          /\ PageOk(vram[p], cell[p], p \in Behind)
      BY <2>1
    <3>5. new \in SimPage /\ PageOk(new, c, FALSE)
      BY <3>1, <3>2, <3>3, <3>4, HostPage
    <3> QED
      BY <3>5 DEF PageOk
  <2> QED
    BY <2>6, <2>7, <2>8, <2>10
<1>4. \A p \in Dram :
        vram'[p] \in SimPage /\ cell'[p] \in [Off -> Contents] /\ PageOk(vram'[p], cell'[p], p \in Behind)
  <2> HIDE DEF T, C, Touched
  <2> QED
    BY <1>2, <1>3, DramPageIs
<1>5. vram' = [p \in Dram |-> vram'[p]] /\ cell' = [p \in Dram |-> cell'[p]]
  <2> HIDE DEF T, C, Touched
  <2> QED
    BY <1>2
<1> HIDE DEF T, C, Touched, ver
<1>6. rptr' \in 0 .. RSize - 1 /\ vers' \in [Lbas -> Nat]
  BY <1>1, <1>2 DEF IInv, TypeOK
<1>7. UNCHANGED <<flash, nand>>
  BY <1>2
<1> QED
  BY <1>4, <1>5, <1>6, <1>7, DramStep

LEMMA PointersKeep ==
  ASSUME IInv, UNCHANGED <<vram, flash, vers, cell, nand>>, rptr' \in 0 .. RSize - 1
  PROVE  IInv'
<1>1. \A f \in FlashPages : ErasedOk(f)'
  BY DEF IInv, ErasedOk
<1> QED
  BY <1>1 DEF IInv, TypeOK

LEMMA RecvKeeps ==
  ASSUME IInv, NEW lba \in Lbas, NEW n \in 1 .. VST_MAX_LBA + 1, RecvFromRbuf(lba, n)
  PROVE  IInv'
<1>1. lba \in Nat /\ lba + n - 1 \in Nat /\ rptr \in Nat
  BY Sizes DEF Lbas, IInv, TypeOK
<1>2. rptr + Pieces(lba, n) \in Int
  BY <1>1, SectorIn DEF Pieces
<1>3. rptr' \in 0 .. RSize - 1
  BY <1>2, Sizes DEF RecvFromRbuf
<1> QED
  BY <1>3, PointersKeep DEF RecvFromRbuf

LEMMA KeepVersionKeeps ==
  ASSUME IInv, KeepVersion
  PROVE  IInv'
<1>1. rptr + 1 \in Nat
  BY DEF IInv, TypeOK
<1>2. rptr' \in 0 .. RSize - 1
  BY <1>1, Sizes DEF KeepVersion
<1> QED
  BY <1>2, PointersKeep DEF KeepVersion

LEMMA ReadPageKeeps ==
  ASSUME IInv, NEW f \in FlashPages, NEW p \in Used, NEW sect \in Off, NEW n \in Lengths,
         ReadPage(f, p, sect, n)
  PROVE  IInv'
<1> DEFINE new == vpage_copy(vram[p], flash[f].page, sect, n)
           C   == Copied(cell[p], nand[f], sect, n)
<1>1. p \in Dram
  BY Sizes DEF Used, Dram
<1>2. /\ vram' = [vram EXCEPT ![p] = new] /\ cell' = [cell EXCEPT ![p] = C]
      /\ UNCHANGED <<flash, nand, rptr, vers>>
  BY DEF ReadPage
<1>3. \A o \in Off : o \notin sect .. sect + n - 1 =>
        IF flash[f].page.tagged THEN ~IsMeta(cell[p][o]) ELSE ~IsHost(cell[p][o])
  <2>1. PICK a \in Nat : a = AddressOf(p, sect) /\ Page(a) = p /\ a + n - 1 \in Nat /\ a <= a + n - 1
    BY <1>1, PageOfSum DEF Dram, Lengths
  <2>2. p \in Page(a) .. Page(a + n - 1)
    <3>1. Page(a) <= Page(a + n - 1) /\ Page(a) \in Nat /\ Page(a + n - 1) \in Nat
      BY <2>1, PageMonotone, SectorIn
    <3> QED
      BY <2>1, <3>1
  <2> QED
    BY <1>1, <2>1, <2>2, RangeInPage DEF ReadPage, AloneHost, AloneMeta
<1>4. new \in SimPage /\ C \in [Off -> Contents] /\ PageOk(new, C, p \in Behind)
  BY <1>1, <1>3, DramPageIs, FlashPageIs, CopyPage
<1>5. /\ vram \in [Dram -> SimPage] /\ cell \in [Dram -> [Off -> Contents]]
      /\ rptr \in 0 .. RSize - 1 /\ vers \in [Lbas -> Nat]
  BY DEF IInv, TypeOK
<1> HIDE DEF new, C
<1>6. \A q \in Dram :
        vram'[q] \in SimPage /\ cell'[q] \in [Off -> Contents] /\ PageOk(vram'[q], cell'[q], q \in Behind)
  BY <1>2, <1>4, <1>5, DramPageIs
<1>7. vram' = [q \in Dram |-> vram'[q]] /\ cell' = [q \in Dram |-> cell'[q]]
  BY <1>2, <1>5
<1> QED
  BY <1>2, <1>5, <1>6, <1>7, DramStep

LEMMA ProgramFlash ==
  ASSUME IInv, NEW f \in FlashPages, NEW page \in SimPage, NEW cells \in [Off -> Contents],
         PageOk(page, cells, FALSE), NEW sect, NEW n, Program(f, page, cells, sect, n)
  PROVE  /\ flash' = [g \in FlashPages |-> flash'[g]] /\ nand' = [g \in FlashPages |-> nand'[g]]
         /\ \A g \in FlashPages : FlashOk(g)'
         /\ UNCHANGED <<rptr, vers>>
<1> DEFINE new == vpage_copy(flash[f].page, page, sect, n)
           C   == Copied(nand[f], cells, sect, n)
           entry == [page |-> new, is_erased |-> FALSE]
<1>1. /\ flash' = [flash EXCEPT ![f] = entry] /\ nand' = [nand EXCEPT ![f] = C]
      /\ UNCHANGED <<rptr, vers>>
  BY DEF Program
<1>2. \A o \in Off : nand[f][o] = Meta(Blank)
  BY FlashPageIs DEF Program, ErasedOk
<1>3. new \in SimPage /\ C \in [Off -> Contents] /\ PageOk(new, C, FALSE)
  BY <1>2, FlashPageIs, MetaIs, BlankIs, CopyPage
<1>4. /\ flash \in [FlashPages -> [page: SimPage, is_erased: BOOLEAN]]
      /\ nand \in [FlashPages -> [Off -> Contents]]
  BY DEF IInv, TypeOK
<1> HIDE DEF new, C
<1>5. entry \in [page: SimPage, is_erased: BOOLEAN] /\ entry.page = new /\ ~entry.is_erased
  BY <1>3
<1> HIDE DEF entry
<1>6. ASSUME NEW g \in FlashPages
      PROVE  FlashOk(g)'
  <2>1. CASE g = f
    BY <1>1, <1>3, <1>4, <1>5, <2>1 DEF FlashOk, ErasedOk
  <2>2. CASE g # f
    BY <1>1, <1>4, <2>2, FlashPageIs DEF FlashOk, ErasedOk
  <2> QED
    BY <2>1, <2>2
<1> QED
  BY <1>1, <1>4, <1>6

LEMMA ProgramKeeps ==
  ASSUME IInv, NEW f \in FlashPages, NEW page \in SimPage, NEW cells \in [Off -> Contents],
         PageOk(page, cells, FALSE), NEW sect, NEW n, Program(f, page, cells, sect, n),
         UNCHANGED <<vram, cell>>
  PROVE  IInv'
BY ProgramFlash, FlashStep

\* What is programmed from a page behind a target of copies is no metadata.
LEMMA WritePageKeeps ==
  ASSUME IInv, NEW f \in FlashPages, NEW p \in Used, NEW sect \in Off, NEW n \in Lengths,
         WritePage(p, f, sect, n)
  PROVE  IInv'
<1>1. p \in Dram
  BY Sizes DEF Used, Dram
<1>2. PageOk(vram[p], cell[p], FALSE)
  BY <1>1, DramPageIs DEF WritePage, PageOk, NoMeta
<1> QED
  BY <1>1, <1>2, DramPageIs, ProgramKeeps DEF WritePage

LEMMA CopybackKeeps ==
  ASSUME IInv, NEW f \in FlashPages, NEW g \in FlashPages, CopybackPage(f, g)
  PROVE  IInv'
BY FlashPageIs, ProgramKeeps DEF CopybackPage

LEMMA PersistKeeps ==
  ASSUME IInv, NEW p \in Dram, NEW o \in Off, NEW x \in Metadata, NEW f \in FlashPages,
         Persist(p, o, x, f)
  PROVE  IInv'
<1> DEFINE D    == [vram[p].data EXCEPT ![o] = x]
           page == WithBytes(vram[p], D)
           C    == [cell[p] EXCEPT ![o] = Meta(x)]
<1>1. /\ Program(f, page, C, 0, SECTORS_PER_PAGE)
      /\ vram' = [vram EXCEPT ![p] = page] /\ cell' = [cell EXCEPT ![p] = C]
  BY DEF Persist, WithBytes
<1>2. /\ vram[p].data \in [Off -> Nat] /\ vram[p] \in SimPage /\ cell[p] \in [Off -> Contents]
      /\ \A u \in Off : u # o => ~IsHost(cell[p][u])
  <2>1. \A u \in Off : InRange(p, u, AddressOf(p, o), 1) => u = o
    <3>1. 1 \in Lengths
      BY Sizes DEF Lengths
    <3>2. \A u \in Off : u \in o .. o + 1 - 1 => u = o
      BY DEF Off
    <3> QED
      BY <3>1, <3>2, RangeInPage
  <2> QED
    BY <2>1, DramPageIs DEF Persist, AloneMeta, SimPage
<1>3. x \in Nat /\ Meta(x) \in Contents /\ \A r : SectOk(FALSE, r, x, Meta(x))
  BY Sizes, MetaIs, PutMeta
<1>4. /\ D \in [Off -> Nat] /\ C \in [Off -> Contents]
      /\ \A u \in Off :
           \/ \A r : SectOk(FALSE, r, D[u], C[u])
           \/ ~IsHost(cell[p][u]) /\ D[u] = vram[p].data[u] /\ C[u] = cell[p][u]
  BY <1>2, <1>3
<1>5. \A e : page \in SimPage /\ PageOk(page, C, e)
  <2> SUFFICES ASSUME NEW e  PROVE page \in SimPage /\ PageOk(page, C, e)
    OBVIOUS
  <2>1. PICK new : new = page
    OBVIOUS
  <2> HIDE DEF D, C
  <2>2. PageOk(vram[p], cell[p], p \in Behind)
    BY DramPageIs
  <2> QED
    BY <1>2, <1>4, <2>1, <2>2, MetaPage
<1> HIDE DEF page, C, D
<1>6. /\ flash' = [g \in FlashPages |-> flash'[g]] /\ nand' = [g \in FlashPages |-> nand'[g]]
      /\ \A g \in FlashPages : FlashOk(g)'
      /\ UNCHANGED <<rptr, vers>>
  BY <1>1, <1>4, <1>5, ProgramFlash
<1>7. /\ vram \in [Dram -> SimPage] /\ cell \in [Dram -> [Off -> Contents]]
      /\ rptr \in 0 .. RSize - 1 /\ vers \in [Lbas -> Nat]
  BY DEF IInv, TypeOK
<1>8. \A q \in Dram : DramOk(q)'
  <2>1. CASE vram'[p] = page /\ cell'[p] = C
    <3> SUFFICES ASSUME NEW q \in Dram  PROVE DramOk(q)'
      OBVIOUS
    <3>1. CASE q = p
      BY <1>4, <1>5, <2>1, <3>1 DEF DramOk
    <3>2. CASE q # p
      BY <1>1, <1>7, <3>2, DramPageIs DEF DramOk
    <3> QED
      BY <3>1, <3>2
  <2> QED
    BY <1>1, <1>7, <2>1
<1>9. vram' = [q \in Dram |-> vram'[q]] /\ cell' = [q \in Dram |-> cell'[q]]
  BY <1>1, <1>7
<1> QED
  BY <1>6, <1>7, <1>8, <1>9, AnyStep

LEMMA EraseKeeps ==
  ASSUME IInv, NEW blk \in Blocks, EraseBlock(blk)
  PROVE  IInv'
<1>1. ASSUME NEW f \in FlashPages
      PROVE  FlashOk(f)'
  <2>1. CASE f[1] = blk
    <3>1. /\ flash'[f] = [page |-> vpage_free(flash[f].page), is_erased |-> TRUE]
          /\ nand'[f] = [o \in Off |-> Meta(Blank)]
      BY <2>1 DEF EraseBlock
    <3>2. vpage_free(flash[f].page) \in SimPage /\ ~vpage_free(flash[f].page).tagged
      BY FlashPageIs DEF vpage_free, SimPage, Blank
    <3>3. nand'[f] \in [Off -> Contents] /\ PageOk(vpage_free(flash[f].page), nand'[f], FALSE)
      BY <3>1, <3>2, BlankPage
    <3>4. /\ flash'[f] \in [page: SimPage, is_erased: BOOLEAN] /\ ErasedOk(f)'
          /\ flash'[f].page = vpage_free(flash[f].page)
      BY <3>1, <3>2 DEF ErasedOk
    <3> QED
      BY <3>1, <3>3, <3>4 DEF FlashOk
  <2>2. CASE f[1] # blk
    <3>1. flash'[f] = flash[f] /\ nand'[f] = nand[f]
      BY <2>2 DEF EraseBlock
    <3>2. flash[f] \in [page: SimPage, is_erased: BOOLEAN]
      BY DEF IInv, TypeOK
    <3> QED
      BY <3>1, <3>2, FlashPageIs DEF FlashOk, ErasedOk
  <2> QED
    BY <2>1, <2>2
<1>2. flash' = [f \in FlashPages |-> flash'[f]] /\ nand' = [f \in FlashPages |-> nand'[f]]
  BY DEF EraseBlock
<1>3. UNCHANGED <<vram, cell, rptr, vers>>
  BY DEF EraseBlock
<1> QED
  BY <1>1, <1>2, <1>3, FlashStep

\* What a store leaves in a page: new, and C in the real one.
StoredTo(p, new, C) ==
  /\ C \in [Off -> Contents]
  /\ \E D \in [Off -> Nat] :
       /\ new = WithBytes(vram[p], D)
       /\ \A o \in Off :
            \/ \A r : SectOk(FALSE, r, D[o], C[o])
            \/ ~IsHost(cell[p][o]) /\ D[o] = vram[p].data[o] /\ C[o] = cell[p][o]

LEMMA StorePage ==
  ASSUME IInv, NEW p \in Dram, NEW new, NEW C, StoredTo(p, new, C)
  PROVE  new \in SimPage /\ C \in [Off -> Contents] /\ PageOk(new, C, p \in Behind)
BY DramPageIs, MetaPage DEF StoredTo

LEMMA StoreKeeps ==
  ASSUME IInv,
         \A p \in Dram :
           \/ vram'[p] = vram[p] /\ cell'[p] = cell[p]
           \/ StoredTo(p, vram'[p], cell'[p]),
         vram' = [p \in Dram |-> vram'[p]], cell' = [p \in Dram |-> cell'[p]],
         UNCHANGED <<flash, rptr, vers, nand>>
  PROVE  IInv'
<1>1. \A p \in Dram :
        vram'[p] \in SimPage /\ cell'[p] \in [Off -> Contents] /\ PageOk(vram'[p], cell'[p], p \in Behind)
  BY StorePage, DramPageIs
<1>2. rptr' \in 0 .. RSize - 1 /\ vers' \in [Lbas -> Nat]
  BY DEF IInv, TypeOK
<1> QED
  BY <1>1, <1>2, DramStep

LEMMA WriteDramKeeps ==
  ASSUME IInv, NEW a, NEW x \in Metadata, WriteDram(a, x)
  PROVE  IInv'
<1> DEFINE D(p) == [o \in Off |-> IF InRange(p, o, a, 1) THEN x ELSE vram[p].data[o]]
           C(p) == [o \in Off |-> IF InRange(p, o, a, 1) THEN Meta(x) ELSE cell[p][o]]
<1>1. /\ vram' = [p \in Dram |-> IF p \notin {Page(a)} THEN vram[p]
                                 ELSE WithBytes(vram[p], D(p))]
      /\ cell' = [p \in Dram |-> IF p \notin {Page(a)} THEN cell[p] ELSE C(p)]
      /\ UNCHANGED <<flash, rptr, vers, nand>>
  BY DEF WriteDram, Stored, WithBytes
<1>2. ASSUME NEW p \in Dram, p \in {Page(a)}
      PROVE  StoredTo(p, WithBytes(vram[p], D(p)), C(p))
  <2>1. /\ vram[p].data \in [Off -> Nat] /\ cell[p] \in [Off -> Contents]
        /\ \A o \in Off : ~InRange(p, o, a, 1) => ~IsHost(cell[p][o])
    BY <1>2, DramPageIs DEF WriteDram, AloneMeta, SimPage
  <2>2. x \in Nat /\ Meta(x) \in Contents /\ \A r : SectOk(FALSE, r, x, Meta(x))
    BY Sizes, MetaIs, PutMeta
  <2>3. /\ D(p) \in [Off -> Nat] /\ C(p) \in [Off -> Contents]
        /\ \A o \in Off :
             \/ \A r : SectOk(FALSE, r, D(p)[o], C(p)[o])
             \/ ~IsHost(cell[p][o]) /\ D(p)[o] = vram[p].data[o] /\ C(p)[o] = cell[p][o]
    BY <2>1, <2>2
  <2> HIDE DEF D, C
  <2> QED
    BY <2>3 DEF StoredTo
<1> HIDE DEF D, C
<1>3. \A p \in Dram :
        \/ vram'[p] = vram[p] /\ cell'[p] = cell[p]
        \/ StoredTo(p, vram'[p], cell'[p])
  BY <1>1, <1>2
<1>4. vram' = [p \in Dram |-> vram'[p]] /\ cell' = [p \in Dram |-> cell'[p]]
  BY <1>1
<1> QED
  BY <1>1, <1>3, <1>4, StoreKeeps

LEMMA BitDramKeeps ==
  ASSUME IInv, NEW base, NEW a \in Nat, Page(a) \in Dram, NEW x \in Metadata,
         BitDram(base, a, x)
  PROVE  IInv'
<1> DEFINE pp(p) == IF p = Page(base) THEN untag_page(vram[p]) ELSE vram[p]
<1>1. PICK u \in Off, q \in Dram : u = Sector(a) /\ q = Page(a)
  BY SectorIn
<1>2. /\ vram' = [p \in Dram |-> IF p = q THEN [pp(p) EXCEPT !.data = [vram[p].data EXCEPT ![u] = x]]
                                 ELSE pp(p)]
      /\ cell' = [cell EXCEPT ![q] = [cell[q] EXCEPT ![u] = Meta(x)]]
      /\ IsMeta(cell[q][u]) /\ UNCHANGED <<flash, rptr, vers, nand>>
  BY <1>1 DEF BitDram
<1>3. ASSUME NEW p \in Dram
      PROVE  /\ pp(p) \in SimPage /\ pp(p).data = vram[p].data /\ cell[p] \in [Off -> Contents]
             /\ PageOk(pp(p), cell[p], p \in Behind)
  <2>1. /\ vram[p] \in SimPage /\ cell[p] \in [Off -> Contents]
        /\ PageOk(vram[p], cell[p], p \in Behind)
    BY DramPageIs
  <2>2. CASE p = Page(base)
    <3>1. pp(p) = untag_page(vram[p])
      BY <2>2
    <3>2. /\ untag_page(vram[p]) \in SimPage /\ untag_page(vram[p]).data = vram[p].data
          /\ ~untag_page(vram[p]).tagged /\ untag_page(vram[p]).tagged = FALSE
      BY <2>1 DEF untag_page, SimPage
    <3>3. \A o \in Off : SectOk(FALSE, untag_page(vram[p]).sects[o], vram[p].data[o], cell[p][o])
      <4> SUFFICES ASSUME NEW o \in Off
                   PROVE  SectOk(FALSE, untag_page(vram[p]).sects[o], vram[p].data[o], cell[p][o])
        OBVIOUS
      <4>1. ~IsHost(cell[p][o])
        BY <2>2 DEF BitDram
      <4>2. SectOk(vram[p].tagged, vram[p].sects[o], vram[p].data[o], cell[p][o])
        BY <2>1 DEF PageOk
      <4>3. cell[p][o] \in Contents
        BY <2>1
      <4> QED
        BY <4>1, <4>2, <4>3, KeepMeta
    <3>4. PageOk(untag_page(vram[p]), cell[p], p \in Behind)
      BY <3>2, <3>3 DEF PageOk
    <3> QED
      BY <2>1, <3>1, <3>2, <3>4
  <2>3. CASE p # Page(base)
    BY <2>1, <2>3
  <2> QED
    BY <2>2, <2>3
<1>4. x \in Nat
  BY Sizes
<1> HIDE DEF pp
<1>5. /\ [pp(q) EXCEPT !.data = [pp(q).data EXCEPT ![u] = x]] \in SimPage
      /\ [cell[q] EXCEPT ![u] = Meta(x)] \in [Off -> Contents]
      /\ PageOk([pp(q) EXCEPT !.data = [pp(q).data EXCEPT ![u] = x]],
                [cell[q] EXCEPT ![u] = Meta(x)], q \in Behind)
  BY <1>2, <1>3, <1>4, BitPage
<1>6. PICK new, C : /\ new = [pp(q) EXCEPT !.data = [vram[q].data EXCEPT ![u] = x]]
                    /\ C = [cell[q] EXCEPT ![u] = Meta(x)]
  OBVIOUS
<1>7. new \in SimPage /\ C \in [Off -> Contents] /\ PageOk(new, C, q \in Behind)
  BY <1>3, <1>5, <1>6
<1>8. /\ cell \in [Dram -> [Off -> Contents]]
      /\ rptr \in 0 .. RSize - 1 /\ vers \in [Lbas -> Nat]
  BY DEF IInv, TypeOK
<1>9. /\ \A p \in Dram : vram'[p] = IF p = q THEN new ELSE pp(p)
      /\ \A p \in Dram : cell'[p] = IF p = q THEN C ELSE cell[p]
      /\ vram' = [p \in Dram |-> vram'[p]] /\ cell' = [p \in Dram |-> cell'[p]]
  BY <1>2, <1>6, <1>8
<1>10. \A p \in Dram :
        /\ vram'[p] \in SimPage /\ cell'[p] \in [Off -> Contents]
        /\ PageOk(vram'[p], cell'[p], p \in Behind)
  BY <1>3, <1>7, <1>9
<1> QED
  BY <1>2, <1>8, <1>9, <1>10, DramStep

LEMMA MemSetKeeps ==
  ASSUME IInv, NEW a, NEW n, NEW x \in Metadata, MemSet(a, n, x)
  PROVE  IInv'
<1> DEFINE D(p) == [o \in Off |-> IF InRange(p, o, a, n) THEN x ELSE vram[p].data[o]]
           C(p) == [o \in Off |-> IF InRange(p, o, a, n) THEN Meta(x) ELSE cell[p][o]]
<1>1. /\ vram' = [p \in Dram |-> IF p \notin PagesTo(a, n) THEN vram[p]
                                 ELSE WithBytes(vram[p], D(p))]
      /\ cell' = [p \in Dram |-> IF p \notin PagesTo(a, n) THEN cell[p] ELSE C(p)]
      /\ UNCHANGED <<flash, rptr, vers, nand>>
  BY DEF MemSet, Stored, WithBytes
<1>2. ASSUME NEW p \in Dram, p \in PagesTo(a, n)
      PROVE  StoredTo(p, WithBytes(vram[p], D(p)), C(p))
  <2>1. /\ vram[p].data \in [Off -> Nat] /\ cell[p] \in [Off -> Contents]
        /\ \A o \in Off : ~InRange(p, o, a, n) => ~IsHost(cell[p][o])
    BY <1>2, DramPageIs DEF MemSet, AloneMeta, SimPage
  <2>2. x \in Nat /\ Meta(x) \in Contents /\ \A r : SectOk(FALSE, r, x, Meta(x))
    BY Sizes, MetaIs, PutMeta
  <2>3. /\ D(p) \in [Off -> Nat] /\ C(p) \in [Off -> Contents]
        /\ \A o \in Off :
             \/ \A r : SectOk(FALSE, r, D(p)[o], C(p)[o])
             \/ ~IsHost(cell[p][o]) /\ D(p)[o] = vram[p].data[o] /\ C(p)[o] = cell[p][o]
    BY <2>1, <2>2
  <2> HIDE DEF D, C
  <2> QED
    BY <2>3 DEF StoredTo
<1> HIDE DEF D, C
<1>3. \A p \in Dram :
        \/ vram'[p] = vram[p] /\ cell'[p] = cell[p]
        \/ StoredTo(p, vram'[p], cell'[p])
  BY <1>1, <1>2
<1>4. vram' = [p \in Dram |-> vram'[p]] /\ cell' = [p \in Dram |-> cell'[p]]
  BY <1>1
<1> QED
  BY <1>1, <1>3, <1>4, StoreKeeps

LEMMA CopyMetaKeeps ==
  ASSUME IInv, NEW d \in Nat, NEW s \in Nat, NEW n \in Lengths,
         Page(s) \in Dram, Page(s + n - 1) \in Dram, CopyMeta(d, s, n)
  PROVE  IInv'
<1> DEFINE Value(a) == vram[Page(a - d + s)].data[Sector(a - d + s)]
           Real(a) == cell[Page(a - d + s)][Sector(a - d + s)]
           D(p) == [o \in Off |-> IF InRange(p, o, d, n) THEN Value(AddressOf(p, o)) ELSE vram[p].data[o]]
           C(p) == [o \in Off |-> IF InRange(p, o, d, n) THEN Real(AddressOf(p, o)) ELSE cell[p][o]]
<1>1. /\ vram' = [p \in Dram |-> IF p \notin PagesTo(d, n) THEN vram[p] ELSE WithBytes(vram[p], D(p))]
      /\ cell' = [p \in Dram |-> IF p \notin PagesTo(d, n) THEN cell[p] ELSE C(p)]
      /\ UNCHANGED <<flash, rptr, vers, nand>>
  BY DEF CopyMeta, Stored, WithBytes
<1>2. ASSUME NEW p \in Dram, p \in PagesTo(d, n)
      PROVE  StoredTo(p, WithBytes(vram[p], D(p)), C(p))
  <2>1. /\ vram[p].data \in [Off -> Nat] /\ cell[p] \in [Off -> Contents]
        /\ \A o \in Off : ~InRange(p, o, d, n) => ~IsHost(cell[p][o])
    BY <1>2, DramPageIs DEF CopyMeta, AloneMeta, SimPage
  <2>2. ASSUME NEW o \in Off, InRange(p, o, d, n)
        PROVE  /\ D(p)[o] \in Nat /\ C(p)[o] \in Contents
               /\ \A r : SectOk(FALSE, r, D(p)[o], C(p)[o])
    <3>1. PICK b \in s .. s + n - 1 : b = AddressOf(p, o) - d + s
      BY <2>2, AddressIn DEF InRange, Lengths
    <3>2. Page(b) \in Dram /\ Sector(b) \in Off
      BY RangeInDram
    <3>3. PICK q \in Dram, e \in Off : q = Page(b) /\ e = Sector(b)
      BY <3>2
    <3>4. ~IsHost(cell[q][e])
      BY <3>3 DEF CopyMeta
    <3>5. /\ vram[q] \in SimPage /\ cell[q] \in [Off -> Contents]
          /\ SectOk(vram[q].tagged, vram[q].sects[e], vram[q].data[e], cell[q][e])
      BY DramPageIs DEF PageOk
    <3>6. \A r : SectOk(FALSE, r, vram[q].data[e], cell[q][e])
      BY <3>4, <3>5, KeepMeta
    <3>7. vram[q].data[e] \in Nat /\ cell[q][e] \in Contents
      BY <3>5 DEF SimPage
    <3>8. D(p)[o] = vram[q].data[e] /\ C(p)[o] = cell[q][e]
      BY <2>2, <3>1, <3>3
    <3> QED
      BY <3>6, <3>7, <3>8
  <2>3. \A o \in Off : ~InRange(p, o, d, n) => D(p)[o] = vram[p].data[o] /\ C(p)[o] = cell[p][o]
    OBVIOUS
  <2>4. D(p) \in [Off -> Nat] /\ C(p) \in [Off -> Contents]
    <3>1. \A o \in Off : D(p)[o] \in Nat /\ C(p)[o] \in Contents
      BY <2>1, <2>2, <2>3
    <3> QED
      BY <3>1
  <2> HIDE DEF D, C
  <2> QED
    BY <2>1, <2>2, <2>3, <2>4 DEF StoredTo
<1> HIDE DEF D, C
<1>3. \A p \in Dram :
        \/ vram'[p] = vram[p] /\ cell'[p] = cell[p]
        \/ StoredTo(p, vram'[p], cell'[p])
  BY <1>1, <1>2
<1>4. vram' = [p \in Dram |-> vram'[p]] /\ cell' = [p \in Dram |-> cell'[p]]
  BY <1>1
<1> QED
  BY <1>1, <1>3, <1>4, StoreKeeps

LEMMA CopyHostKeeps ==
  ASSUME IInv, NEW d \in Nat, NEW s \in Nat, NEW n \in Lengths,
         Page(s) \in Dram, Page(s + n - 1) \in Dram, Page(d + n - 1) \in CopyPages,
         CopyHost(d, s, n)
  PROVE  IInv'
<1> DEFINE Source(p, o) == AddressOf(p, o) - d + s
           T(p) == [o \in Off |-> IF InRange(p, o, d, n)
                                  THEN vram[Page(Source(p, o))].sects[Sector(Source(p, o))]
                                  ELSE tag_page(vram[p]).sects[o]]
           C(p) == [o \in Off |-> IF InRange(p, o, d, n)
                                  THEN cell[Page(Source(p, o))][Sector(Source(p, o))]
                                  ELSE cell[p][o]]
           New(p) == WithSects(vram[p], T(p))
<1>1. /\ vram' = [p \in Dram |-> IF p \notin PagesTo(d, n) THEN vram[p] ELSE New(p)]
      /\ cell' = [p \in Dram |-> IF p \notin PagesTo(d, n) THEN cell[p] ELSE C(p)]
      /\ UNCHANGED <<flash, rptr, vers, nand>>
  BY DEF CopyHost, WithSects
<1>2. ASSUME NEW p \in Dram, p \in PagesTo(d, n)
      PROVE  /\ C(p) \in [Off -> Contents] /\ New(p) \in SimPage
             /\ PageOk(New(p), C(p), p \in Behind)
  <2>1. /\ vram[p] \in SimPage /\ cell[p] \in [Off -> Contents]
        /\ PageOk(vram[p], cell[p], p \in Behind)
        /\ p \in Behind \/ \A o \in Off : ~InRange(p, o, d, n) => ~IsMeta(cell[p][o])
    <3>1. CASE p \in Page(d) .. Page(d + n - 1)
      BY <3>1, DramPageIs DEF CopyHost, AloneHost
    <3>2. CASE p \notin Page(d) .. Page(d + n - 1)
      <4>1. PICK m \in Nat : m = d + n - 1 /\ d + n = m + 1
        BY DEF Lengths
      <4>2. Page(m) \in Nat /\ Page(m + 1) \in Nat /\ Page(d) \in Nat
        BY <4>1, SectorIn
      <4>3. p \in Page(d) .. Page(m + 1) /\ p \notin Page(d) .. Page(m)
        BY <1>2, <3>2, <4>1 DEF PagesTo
      <4>4. p = Page(m) + 1
        BY <4>2, <4>3, PageNext
      <4>5. p \in Behind
        BY <4>1, <4>4 DEF Behind
      <4> QED
        BY <4>5, DramPageIs
    <3> QED
      BY <3>1, <3>2
  <2>2. tag_page(vram[p]).sects \in [Off -> Sects]
    BY <2>1 DEF tag_page, SimPage, Sects
  <2>3. ASSUME NEW o \in Off, InRange(p, o, d, n)
        PROVE  /\ T(p)[o] \in Sects /\ C(p)[o] \in Contents /\ ~IsMeta(C(p)[o])
               /\ \A x : SectOk(TRUE, T(p)[o], x, C(p)[o])
    <3>1. PICK b \in s .. s + n - 1 : b = Source(p, o)
      BY <2>3, AddressIn DEF InRange, Lengths
    <3>2. Page(b) \in Dram /\ Sector(b) \in Off
      BY RangeInDram
    <3>3. PICK q \in Dram, e \in Off : q = Page(b) /\ e = Sector(b)
      BY <3>2
    <3>4. vram[q].tagged /\ ~IsMeta(cell[q][e])
      BY <3>3 DEF CopyHost
    <3>5. /\ vram[q] \in SimPage /\ cell[q] \in [Off -> Contents]
          /\ SectOk(vram[q].tagged, vram[q].sects[e], vram[q].data[e], cell[q][e])
      BY DramPageIs DEF PageOk
    <3>6. \A x : SectOk(TRUE, vram[q].sects[e], x, cell[q][e])
      BY <3>4, <3>5, CopyTagged
    <3>7. vram[q].sects[e] \in Sects /\ cell[q][e] \in Contents
      BY <3>5 DEF SimPage
    <3>8. T(p)[o] = vram[q].sects[e] /\ C(p)[o] = cell[q][e]
      BY <2>3, <3>1, <3>3
    <3> QED
      BY <3>4, <3>6, <3>7, <3>8
  <2>4. \A o \in Off : ~InRange(p, o, d, n) =>
          T(p)[o] = tag_page(vram[p]).sects[o] /\ C(p)[o] = cell[p][o]
    OBVIOUS
  <2>5. T(p) \in [Off -> Sects] /\ C(p) \in [Off -> Contents]
    <3>1. \A o \in Off : T(p)[o] \in Sects /\ C(p)[o] \in Contents
      BY <2>1, <2>2, <2>3, <2>4
    <3> QED
      BY <3>1
  <2>6. PICK t, c, new : t = T(p) /\ c = C(p) /\ new = New(p)
    OBVIOUS
  <2>7. new = WithSects(vram[p], t)
    BY <2>6
  <2>8. /\ \A o \in Off :
             \/ \A x : SectOk(TRUE, t[o], x, c[o])
             \/ t[o] = tag_page(vram[p]).sects[o] /\ c[o] = cell[p][o]
        /\ p \in Behind \/ NoMeta(c)
    <3> HIDE DEF T, C
    <3> QED
      BY <2>1, <2>3, <2>4, <2>6 DEF NoMeta
  <2>9. t \in [Off -> Sects] /\ c \in [Off -> Contents] /\ LaidOn(vram[p], cell[p], t, c)
    BY <2>5, <2>6, <2>8 DEF LaidOn
  <2>10. new \in SimPage /\ PageOk(new, c, p \in Behind)
    BY <2>1, <2>7, <2>8, <2>9, HostPage
  <2> QED
    BY <2>6, <2>9, <2>10
<1> HIDE DEF C, New
<1>3. \A p \in Dram :
        vram'[p] \in SimPage /\ cell'[p] \in [Off -> Contents] /\ PageOk(vram'[p], cell'[p], p \in Behind)
  BY <1>1, <1>2, DramPageIs
<1>4. vram' = [p \in Dram |-> vram'[p]] /\ cell' = [p \in Dram |-> cell'[p]]
  BY <1>1
<1>5. rptr' \in 0 .. RSize - 1 /\ vers' \in [Lbas -> Nat] /\ UNCHANGED <<flash, nand>>
  BY <1>1 DEF IInv, TypeOK
<1> QED
  BY <1>3, <1>4, <1>5, DramStep

LEMMA OmittedKeeps ==
  ASSUME IInv, NEW k \in 0 .. RSize - 1, OmittedSet(k)
  PROVE  IInv'
<1> DEFINE C == [o \in Off |-> Meta(Blank)]
<1>1. k \in Dram /\ rbuf(k) = k
  BY Sizes DEF Dram, rbuf
<1>2. /\ vram' = [vram EXCEPT ![k] = untag_page(vram[k])] /\ cell' = [cell EXCEPT ![k] = C]
      /\ UNCHANGED <<flash, rptr, vers, nand>>
  BY <1>1 DEF OmittedSet
<1>3. /\ untag_page(vram[k]) \in SimPage
      /\ C \in [Off -> Contents] /\ PageOk(untag_page(vram[k]), C, k \in Behind)
  <2>1. untag_page(vram[k]) \in SimPage /\ ~untag_page(vram[k]).tagged
    BY <1>1, DramPageIs DEF untag_page, SimPage
  <2> QED
    BY <2>1, BlankPage
<1>4. /\ vram \in [Dram -> SimPage] /\ cell \in [Dram -> [Off -> Contents]]
      /\ rptr \in 0 .. RSize - 1 /\ vers \in [Lbas -> Nat]
  BY DEF IInv, TypeOK
<1> HIDE DEF C
<1>5. \A q \in Dram :
        vram'[q] \in SimPage /\ cell'[q] \in [Off -> Contents] /\ PageOk(vram'[q], cell'[q], q \in Behind)
  BY <1>2, <1>3, <1>4, DramPageIs
<1>6. vram' = [q \in Dram |-> vram'[q]] /\ cell' = [q \in Dram |-> cell'[q]]
  BY <1>2, <1>4
<1> QED
  BY <1>2, <1>4, <1>5, <1>6, DramStep

LEMMA CrashKeeps ==
  ASSUME IInv, Crash
  PROVE  IInv'
<1>1. ASSUME NEW p \in Dram
      PROVE  vram'[p] \in SimPage /\ cell'[p] \in [Off -> Contents] /\ PageOk(vram'[p], cell'[p], p \in Behind)
  <2>1. vram[p] \in SimPage
    BY DramPageIs
  <2>2. /\ vram'[p] = [vram[p] EXCEPT !.data = [o \in Off |-> Blank]]
        /\ cell'[p] = [o \in Off |-> IF vram[p].tagged THEN Lost ELSE Meta(Blank)]
    BY DEF Crash
  <2>3. vram'[p] \in SimPage /\ vram'[p].tagged = vram[p].tagged
    BY <2>1, <2>2, MetaIs DEF SimPage
  <2>4. cell'[p] \in [Off -> Contents]
    BY <2>2, MetaIs
  <2>5. ASSUME NEW o \in Off
        PROVE  /\ SectOk(vram'[p].tagged, vram'[p].sects[o], vram'[p].data[o], cell'[p][o])
               /\ ~IsMeta(cell'[p][o])
    <3>1. cell'[p][o] = IF vram[p].tagged THEN Lost ELSE Meta(Blank)
      BY <2>2
    <3>2. ~IsMeta(cell'[p][o]) /\ ~IsHost(cell'[p][o])
      BY <3>1, MetaIs, BlankIs
    <3>3. vram'[p].tagged => cell'[p][o] = Lost
      BY <2>3, <3>1
    <3> QED
      BY <3>2, <3>3 DEF SectOk
  <2> QED
    BY <2>3, <2>4, <2>5 DEF PageOk, NoMeta
<1>2. vram' = [p \in Dram |-> vram'[p]] /\ cell' = [p \in Dram |-> cell'[p]]
  BY DEF Crash
<1>3. rptr' \in 0 .. RSize - 1 /\ vers' \in [Lbas -> Nat] /\ UNCHANGED <<flash, nand>>
  BY Sizes DEF Crash, IInv, TypeOK
<1> QED
  BY <1>1, <1>2, <1>3, DramStep

LEMMA ReopenKeeps ==
  ASSUME IInv, Reopen
  PROVE  IInv'
<1>1. ASSUME NEW p \in Dram
      PROVE  vram'[p] \in SimPage /\ cell'[p] \in [Off -> Contents] /\ PageOk(vram'[p], cell'[p], p \in Behind)
  <2>1. vram'[p] = NewPage /\ cell'[p] = [o \in Off |-> Meta(Blank)]
    BY DEF Reopen
  <2> QED
    BY <2>1, NewPageIs, BlankPage
<1>2. ASSUME NEW f \in FlashPages
      PROVE  /\ flash'[f] \in [page: SimPage, is_erased: BOOLEAN]
             /\ PageOk(flash'[f].page, nand[f], FALSE)
             /\ flash'[f].is_erased =>
                  ~flash'[f].page.tagged /\ \A o \in Off : nand[f][o] = Meta(Blank)
  <2>1. flash'[f] = IF flash[f].is_erased THEN ErasedPage
                    ELSE [page |-> vpage_saved(flash[f].page), is_erased |-> FALSE]
    BY DEF Reopen, Image
  <2>2. CASE flash[f].is_erased
    <3>1. nand[f] = [o \in Off |-> Meta(Blank)]
      BY <2>2, FlashPageIs DEF ErasedOk
    <3>2. flash'[f] = ErasedPage
      BY <2>1, <2>2
    <3>3. ErasedPage.page = NewPage /\ ErasedPage \in [page: SimPage, is_erased: BOOLEAN]
      BY NewPageIs DEF ErasedPage
    <3> QED
      BY <3>1, <3>2, <3>3, NewPageIs, BlankPage
  <2>3. CASE ~flash[f].is_erased
    <3> DEFINE pp == flash[f].page
               new == vpage_saved(pp)
    <3>1. /\ pp \in SimPage /\ \A o \in Off : SectOk(pp.tagged, pp.sects[o], pp.data[o], nand[f][o])
          /\ pp.tagged => NoMeta(nand[f])
      BY FlashPageIs DEF PageOk
    <3>2. new \in SimPage /\ PageOk(new, nand[f], FALSE)
      <4>1. CASE pp.tagged
        <5>1. new = [tagged |-> TRUE, data |-> [o \in Off |-> Blank], sects |-> pp.sects]
          BY <4>1 DEF vpage_saved, NewPage
        <5>2. \A o \in Off : SectOk(TRUE, pp.sects[o], Blank, nand[f][o])
          BY <3>1, <4>1, CopyTagged DEF NoMeta
        <5>3. new \in SimPage
          BY <3>1, <5>1, MetaIs DEF SimPage
        <5>4. new.tagged = TRUE /\ new.sects = pp.sects /\ \A o \in Off : new.data[o] = Blank
          BY <5>1
        <5> QED
          BY <3>1, <4>1, <5>2, <5>3, <5>4 DEF PageOk
      <4>2. CASE ~pp.tagged
        <5>1. new = [tagged |-> FALSE, data |-> pp.data, sects |-> [o \in Off |-> NoSect]]
          BY <4>2 DEF vpage_saved, NewPage
        <5>2. \A o \in Off : SectOk(FALSE, NoSect, pp.data[o], nand[f][o])
          BY <3>1, <4>2, CopyUntagged
        <5>3. new \in SimPage
          BY <3>1, <5>1 DEF SimPage, Sects
        <5>4. new.tagged = FALSE /\ new.data = pp.data /\ \A o \in Off : new.sects[o] = NoSect
          BY <5>1
        <5> QED
          BY <5>2, <5>3, <5>4 DEF PageOk
      <4> QED
        BY <4>1, <4>2
    <3>3. flash'[f] = [page |-> new, is_erased |-> FALSE] /\ flash'[f].page = new
      BY <2>1, <2>3
    <3> HIDE DEF new
    <3>4. flash'[f] \in [page: SimPage, is_erased: BOOLEAN] /\ ~flash'[f].is_erased
      BY <3>2, <3>3
    <3> QED
      BY <3>2, <3>3, <3>4
  <2> QED
    BY <2>2, <2>3
<1>3. /\ TypeOK' /\ nand' = nand
  <2>1. /\ vram' = [p \in Dram |-> vram'[p]] /\ cell' = [p \in Dram |-> cell'[p]]
        /\ flash' = [f \in FlashPages |-> flash'[f]]
        /\ rptr' = 0 /\ UNCHANGED <<vers, nand>>
    BY DEF Reopen, Image
  <2>2. /\ vram' \in [Dram -> SimPage] /\ cell' \in [Dram -> [Off -> Contents]]
        /\ flash' \in [FlashPages -> [page: SimPage, is_erased: BOOLEAN]]
    BY <1>1, <1>2, <2>1
  <2> QED
    BY <2>1, <2>2, Sizes DEF IInv, TypeOK
<1> QED
  BY <1>1, <1>2, <1>3 DEF IInv, ErasedOk

LEMMA InitIInv == Init => IInv
<1> SUFFICES ASSUME Init  PROVE IInv
  OBVIOUS
<1>1. /\ vram = [p \in Dram |-> NewPage] /\ cell = [p \in Dram |-> [o \in Off |-> Meta(Blank)]]
      /\ flash = [f \in FlashPages |-> ErasedPage]
      /\ nand = [f \in FlashPages |-> [o \in Off |-> Meta(Blank)]]
      /\ rptr = 0 /\ vers = [l \in Lbas |-> 0]
  BY DEF Init
<1>2. [o \in Off |-> Meta(Blank)] \in [Off -> Contents]
  BY MetaIs
<1>3. ErasedPage.page = NewPage /\ ErasedPage \in [page: SimPage, is_erased: BOOLEAN]
  BY NewPageIs DEF ErasedPage
<1>4. TypeOK
  BY <1>1, <1>2, <1>3, NewPageIs, Sizes DEF TypeOK
<1>5. \A p \in Dram : PageOk(vram[p], cell[p], p \in Behind)
  BY <1>1, NewPageIs, BlankPage
<1>6. \A f \in FlashPages : PageOk(flash[f].page, nand[f], FALSE) /\ ErasedOk(f)
  <2> SUFFICES ASSUME NEW f \in FlashPages
               PROVE  PageOk(flash[f].page, nand[f], FALSE) /\ ErasedOk(f)
    OBVIOUS
  <2>1. flash[f].page = NewPage /\ nand[f] = [o \in Off |-> Meta(Blank)]
    BY <1>1, <1>3
  <2> QED
    BY <2>1, NewPageIs, BlankPage DEF ErasedOk
<1> QED
  BY <1>4, <1>5, <1>6 DEF IInv

LEMMA SectorsAre ==
  ASSUME NEW pages, pages \subseteq Dram, NEW a \in SectorsOf(pages)
  PROVE  a \in Nat /\ Page(a) \in Dram
<1>1. PICK p \in pages, o \in Off : a = AddressOf(p, o)
  BY DEF SectorsOf
<1>2. p \in Dram
  BY Zenon
<1>3. AddressOf(p, o) \in Nat /\ Page(AddressOf(p, o)) = p
  BY <1>2, PageOfSum DEF Dram
<1> QED
  BY <1>1, <1>2, <1>3, Zenon

LEMMA UsedInDram ==
  Used \subseteq Dram /\ MetaPages \subseteq Dram /\ CopyPages \subseteq Dram
BY MemoryConstants DEF VstMemoryConstants, Used, Dram

LEMMA NextIInv == IInv /\ [Next]_vars => IInv'
<1> SUFFICES ASSUME IInv, [Next]_vars  PROVE IInv'
  OBVIOUS
<1>1. CASE \E l \in Lbas, n \in 1 .. VST_MAX_LBA + 1 :
             l + n - 1 \in Lbas /\ (SendToWbuf(l, n) \/ (Pieces(l, n) <= RSize /\ RecvFromRbuf(l, n)))
  BY <1>1, SendKeeps, RecvKeeps
<1>2. CASE KeepVersion
  BY <1>2, KeepVersionKeeps
<1>3. CASE \E f \in FlashPages, p \in Used, sect \in Off, n \in Lengths :
             \/ p \notin WBufs \ MetaPages /\ ReadPage(f, p, sect, n)
             \/ p \notin RBufs \ MetaPages /\ WritePage(p, f, sect, n)
  BY <1>3, ReadPageKeeps, WritePageKeeps
<1>4. CASE \E f \in FlashPages, p \in MetaPages, o \in Off, x \in Metadata : Persist(p, o, x, f)
  BY <1>4, UsedInDram, PersistKeeps
<1>5. CASE \E f, g \in FlashPages : CopybackPage(f, g)
  BY <1>5, CopybackKeeps
<1>6. CASE \E blk \in Blocks : EraseBlock(blk)
  BY <1>6, EraseKeeps
<1>7. CASE \E a \in SectorsOf(MetaPages), x \in Metadata : WriteDram(a, x)
  BY <1>7, WriteDramKeeps
<1>8. CASE \E base, a \in SectorsOf(MetaPages), x \in Metadata : base <= a /\ BitDram(base, a, x)
  <2>1. PICK base \in SectorsOf(MetaPages), a \in SectorsOf(MetaPages), x \in Metadata :
          BitDram(base, a, x)
    BY <1>8
  <2>2. a \in Nat /\ Page(a) \in Dram
    BY SectorsAre, UsedInDram
  <2> QED
    BY <2>1, <2>2, BitDramKeeps
<1>9. CASE \E a \in SectorsOf(MetaPages), n \in Lengths \ {1}, x \in Metadata :
             In(a, n, MetaPages) /\ MemSet(a, n, x)
  BY <1>9, MemSetKeeps
<1>10. CASE \E d, s \in SectorsOf(MetaPages), n \in Lengths :
             Apart(d, s, n) /\ In(d, n, MetaPages) /\ In(s, n, MetaPages) /\ CopyMeta(d, s, n)
  <2>1. PICK d \in SectorsOf(MetaPages), s \in SectorsOf(MetaPages), n \in Lengths :
          In(s, n, MetaPages) /\ CopyMeta(d, s, n)
    BY <1>10
  <2>2. d \in Nat /\ s \in Nat /\ Page(s) \in Dram /\ Page(s + n - 1) \in Dram
    BY <2>1, SectorsAre, UsedInDram DEF In
  <2> QED
    BY <2>1, <2>2, CopyMetaKeeps
<1>11. CASE \E d \in SectorsOf(CopyPages), q \in Used \ RBufs, n \in Lengths :
             LET s == AddressOf(q, Sector(d))
             IN /\ Apart(d, s, n) /\ In(d, n, CopyPages) /\ In(s, n, Used \ RBufs)
                /\ CopyHost(d, s, n)
  <2>1. PICK d \in SectorsOf(CopyPages), q \in Used \ RBufs, n \in Lengths :
          /\ In(d, n, CopyPages) /\ In(AddressOf(q, Sector(d)), n, Used \ RBufs)
          /\ CopyHost(d, AddressOf(q, Sector(d)), n)
    BY <1>11
  <2>2. PICK s : s = AddressOf(q, Sector(d))
    OBVIOUS
  <2>3. d \in Nat
    BY SectorsAre, UsedInDram
  <2>4. s \in Nat
    BY <2>2, <2>3, AddressIn, SectorIn, UsedInDram
  <2>5. Page(s) \in Dram /\ Page(s + n - 1) \in Dram /\ Page(d + n - 1) \in CopyPages
    BY <2>1, <2>2, UsedInDram DEF In
  <2> QED
    BY <2>1, <2>2, <2>3, <2>4, <2>5, CopyHostKeeps
<1>12. CASE \E k \in 0 .. RSize - 1 : OmittedSet(k)
  BY <1>12, OmittedKeeps
<1>13. CASE Crash
  BY <1>13, CrashKeeps
<1>14. CASE Reopen
  BY <1>14, ReopenKeeps
<1>15. CASE UNCHANGED vars
  BY <1>15, PointersKeep DEF vars, IInv, TypeOK
<1> QED
  BY <1>1, <1>2, <1>3, <1>4, <1>5, <1>6, <1>7, <1>8, <1>9, <1>10,
     <1>11, <1>12, <1>13, <1>14, <1>15 DEF Next

-----------------------------------------------------------------------------
(* What it means.                                                          *)

LEMMA DataExact == IInv => HostDataExact /\ MetadataExact
<1> SUFFICES ASSUME IInv  PROVE HostDataExact /\ MetadataExact
  OBVIOUS
<1>1. ASSUME NEW p \in Dram
      PROVE  /\ TagsMatch(vram[p], cell[p]) /\ BytesMatch(vram[p], cell[p])
             /\ p \notin Behind => NotHidden(vram[p], cell[p])
  <2>1. vram[p] \in SimPage /\ cell[p] \in [Off -> Contents] /\ PageOk(vram[p], cell[p], p \in Behind)
    BY DramPageIs
  <2>2. TagsMatch(vram[p], cell[p]) /\ BytesMatch(vram[p], cell[p])
    BY <2>1 DEF PageOk, SectOk, TagsMatch, BytesMatch
  <2>3. p \notin Behind => NotHidden(vram[p], cell[p])
    BY <2>1 DEF PageOk, NoMeta, NotHidden
  <2> QED
    BY <2>2, <2>3
<1>2. ASSUME NEW f \in FlashPages
      PROVE  /\ TagsMatch(flash[f].page, nand[f]) /\ BytesMatch(flash[f].page, nand[f])
             /\ NotHidden(flash[f].page, nand[f])
  <2>1. flash[f].page \in SimPage /\ nand[f] \in [Off -> Contents] /\ PageOk(flash[f].page, nand[f], FALSE)
    BY FlashPageIs
  <2>2. TagsMatch(flash[f].page, nand[f]) /\ BytesMatch(flash[f].page, nand[f])
    BY <2>1 DEF PageOk, SectOk, TagsMatch, BytesMatch
  <2>3. NotHidden(flash[f].page, nand[f])
    BY <2>1 DEF PageOk, NoMeta, NotHidden
  <2> QED
    BY <2>2, <2>3
<1> QED
  BY <1>1, <1>2 DEF HostDataExact, MetadataExact

\* Where a request is answered from.
LEMMA AnswerIn ==
  ASSUME IInv, NEW lba \in Lbas, NEW l \in Lbas
  PROVE  /\ BufferOf(rptr, RSize, lba, l) \in Dram /\ l % SECTORS_PER_PAGE \in Off
         /\ BufferOf(rptr, RSize, l, l) = rptr /\ rptr \in Dram
<1>1. rptr \in 0 .. RSize - 1 /\ l \in Nat /\ lba \in Nat
  BY DEF IInv, TypeOK, Lbas
<1>2. PageOf(l) \in Nat /\ PageOf(lba) \in Nat /\ Sector(l) \in Off
  BY <1>1, SectorIn
<1>3. rptr + PageOf(l) - PageOf(lba) \in Int /\ rptr + PageOf(l) - PageOf(l) = rptr
  BY <1>1, <1>2
<1>4. BufferOf(rptr, RSize, lba, l) \in 0 .. RSize - 1
  BY <1>3, Sizes DEF BufferOf
<1>5. rptr % RSize = rptr
  BY <1>1, Sizes
<1> QED
  BY <1>1, <1>2, <1>3, <1>4, <1>5, Sizes DEF BufferOf, Dram, Sector

LEMMA KeptExact == IInv => KeptVersionExact
<1> SUFFICES ASSUME IInv, NEW l \in Lbas, Answer(l, l) # Lost
             PROVE  Kept(l) = IF IsHost(Answer(l, l)) /\ Answer(l, l)[1] = l
                              THEN Answer(l, l)[2] ELSE 0
  BY DEF KeptVersionExact
<1>1. PICK o \in Off : o = l % SECTORS_PER_PAGE
  BY AnswerIn
<1>2. PICK pp, c : pp = vram[rptr] /\ c = cell[rptr][o]
  OBVIOUS
<1>3. Answer(l, l) = c /\ Kept(l) = IF ~pp.tagged \/ pp.sects[o][1] # l THEN 0 ELSE pp.sects[o][2]
  BY <1>1, <1>2, AnswerIn DEF Answer, Kept, rbuf
<1>4. c \in Contents /\ SectOk(pp.tagged, pp.sects[o], pp.data[o], c)
  BY <1>2, AnswerIn, DramPageIs DEF PageOk
<1>5. l >= 0 /\ l # -1
  BY DEF Lbas
<1>6. CASE pp.tagged /\ pp.sects[o][1] = l
  <2>1. pp.sects[o] = c
    BY <1>3, <1>4, <1>5, <1>6 DEF SectOk
  <2> QED
    BY <1>3, <1>5, <1>6, <2>1 DEF IsHost
<1>7. CASE ~(pp.tagged /\ pp.sects[o][1] = l)
  <2>1. ~(IsHost(c) /\ c[1] = l)
    BY <1>4, <1>7 DEF SectOk
  <2> QED
    BY <1>3, <1>7, <2>1
<1> QED
  BY <1>6, <1>7

LEMMA NoMismatch == IInv => NoFalseMismatch
<1> SUFFICES ASSUME IInv, NEW r \in Requests, Right(r[1], r[2]), NEW l \in r[1] .. r[1] + r[2] - 1
             PROVE  Consistent(vram[rbuf(BufferOf(rptr, RSize, r[1], l))], l)
  BY DEF NoFalseMismatch, CheckPasses
<1>1. r[1] \in Lbas /\ r[2] \in 1 .. VST_MAX_LBA + 1 /\ r[1] + r[2] - 1 \in Lbas
  BY DEF Requests
<1>2. l \in Lbas /\ l >= 0
  BY <1>1, Sizes DEF Lbas
<1>3. PICK b \in Dram, o \in Off : b = BufferOf(rptr, RSize, r[1], l) /\ o = l % SECTORS_PER_PAGE
  BY <1>1, <1>2, AnswerIn
<1>4. SectOk(vram[b].tagged, vram[b].sects[o], vram[b].data[o], cell[b][o])
  BY DramPageIs DEF PageOk
<1>5. SUFFICES ASSUME vers[l] # 0  PROVE vram[b].sects[o] = <<l, vers[l]>>
  BY <1>3 DEF Consistent, rbuf
<1>6. cell[b][o] = <<l, vers[l]>>
  BY <1>3, <1>5 DEF Right, Answer, Host, rbuf
<1>7. IsHost(cell[b][o])
  BY <1>2, <1>6 DEF IsHost
<1> QED
  BY <1>4, <1>6, <1>7 DEF SectOk

\* Wherever the real memory holds a sector that the host sent, the simulator
\* says so with the right address and version, and it says so nowhere else
\* (vpage_copy, tag_page, vst_memcpy); metadata are as on the device, under no
\* tag in flash nor, but behind a target of copies, in memory (vram.c:145); the
\* version a child records is the one the device would return (keep_version);
\* and chk_lpn_consistent never stops a run on an answer that is right.
THEOREM MemoryIsExact ==
  Spec => [](HostDataExact /\ MetadataExact /\ KeptVersionExact /\ NoFalseMismatch)
<1>1. IInv => HostDataExact /\ MetadataExact /\ KeptVersionExact /\ NoFalseMismatch
  BY DataExact, KeptExact, NoMismatch
<1> QED
  BY InitIInv, NextIInv, <1>1, PTL DEF Spec
=============================================================================
