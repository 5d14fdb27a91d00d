------------------------- MODULE OptrRecoveryProofs -------------------------
(***************************************************************************)
(* Recovery, were the power to fail now, for every value of the constants. *)
(*                                                                         *)
(* The cut that analyze computes is the largest prefix of the writes that  *)
(* is safe: all of it is in flash and no dependency leads out of it        *)
(* (CutIs); it never gets smaller (NextCut) and covers what was flushed    *)
(* (FlushOk). MapNow says that map table and map entries give the current  *)
(* map, OldInv where the replay finds the pages that the tag covers and    *)
(* that these are intact as long as the cut may need them. With the        *)
(* account of OptrLogProofs it follows that rebuild leaves every page as   *)
(* the writes before the cut left it (RecInv), so that the firmware is an  *)
(* ordered disk, power failures included.                                  *)
(***************************************************************************)
EXTENDS OptrLogProofs

-----------------------------------------------------------------------------
(* What recovery counts, and the cut.                                      *)

\* Write e reaches the flash whole: no page of it is in the buffer or still to
\* come, and the dependencies that stand for others are in the log (ids L).
Complete(h, c, D, L, P, e) ==
  /\ BufsOf(c, e) = {} /\ ToCome(h, P, e) = {}
  /\ \A d \in DOMAIN D \ L : D[d].src # e
\* No dependency of the log leads over x.
Closed(D, L, x) == \A d \in L : ~(D[d].src < x /\ x <= D[d].dst)

\* A power failure may leave the first x writes: each is complete in flash
\* and log, and no dependency leads out of them.
Safe(h, k, c, D, L, P, x) ==
  /\ x \in k..Len(h)
  /\ \A e \in k..(x - 1) : Complete(h, c, D, L, P, e)
  /\ Closed(D, L, x)

\* All that is found of a write agrees on its span.
Spans(pages, ds, e, s) ==
  /\ \A x \in pages : x.pg.epoch = e => x.pg.span = s
  /\ \A d \in DOMAIN ds : ds[d].src = e => ds[d].span = s
Restricts(E, D, L) == E = [d \in L |-> D[d]]
NoneEmpty(h) == \A e \in 1..Len(h) : h[e] # {}

\* The two tables of analyze: span and number of pieces found.
SpanOk(pages, ds, c, e, s) ==
  /\ PagesOf(pages, e) = {} /\ DepsOf(ds, e) = {} => Span(e, pages, ds, c) = 0
  /\ ~(PagesOf(pages, e) = {} /\ DepsOf(ds, e) = {}) => Span(e, pages, ds, c) = s
  /\ Found(e, pages, ds, c) = Cardinality(PagesOf(pages, e)) + Cardinality(DepsOf(ds, e))

\* The tables, for a write about which the pieces agree.
LEMMA SpanIs ==
  ASSUME NEW pages, NEW ds, NEW c \in Nat, NEW e \in Nat, e > c, NEW s \in Nat,
         Spans(pages, ds, e, s), e # GcTag
  PROVE  SpanOk(pages, ds, c, e, s)
<1>1. {y \in WritePages(pages, c) : y.pg.epoch = e} = PagesOf(pages, e)
  BY DEF WritePages, PagesOf
<1>2. {d \in DOMAIN ds : ds[d].src = e /\ e > c} = DepsOf(ds, e)
  BY DEF DepsOf
<1>3. PICK S : S = {x.pg.span : x \in PagesOf(pages, e)} \cup {ds[d].span : d \in DepsOf(ds, e)}
  OBVIOUS
<1>4. Span(e, pages, ds, c) = IF S = {} THEN 0 ELSE Max(S)
  BY <1>1, <1>2, <1>3 DEF Span
<1>5. PagesOf(pages, e) = {} /\ DepsOf(ds, e) = {} => S = {}
  BY <1>3
<1>6. \A y \in S : y = s
  BY <1>3 DEF PagesOf, DepsOf, Spans
<1>7. ASSUME ~(PagesOf(pages, e) = {} /\ DepsOf(ds, e) = {})
      PROVE  S # {} /\ Max(S) = s
  <2>1. S # {}
    BY <1>3, <1>7
  <2>2. s \in S
    BY <1>6, <2>1
  <2>3. \A y \in S : y \in Int /\ y <= s
    BY <1>6
  <2> QED
    BY <2>1, <2>2, <2>3, MaxIs
<1>8. Found(e, pages, ds, c) = Cardinality(PagesOf(pages, e)) + Cardinality(DepsOf(ds, e))
  BY <1>1, <1>2 DEF Found
<1> QED
  BY <1>4, <1>5, <1>7, <1>8 DEF SpanOk

\* The pieces found are as many as the span says exactly when no piece is
\* still in DRAM. This is what the count of pages is for.
LEMMA FullIsComplete ==
  ASSUME NEW h \in Seq(SUBSET Lpns), Len(h) < GcTag, NoneEmpty(h),
         NEW k \in Nat, k >= 1, NEW S, NEW c, NEW D, NEW P, AcctOk(h, k, S, c, D, P),
         NEW L \in SUBSET DOMAIN D, NEW E, Restricts(E, D, L), NEW e \in k..(Len(h) - 1)
  PROVE  Complete(h, c, D, L, P, e)
           <=> /\ Span(e, S, E, k - 1) # 0 /\ Span(e, S, E, k - 1) = Found(e, S, E, k - 1)
<1>0. Len(h) \in Nat /\ e \in Nat /\ k - 1 \in Nat /\ e > k - 1 /\ e + 1 \in 1..Len(h) /\ e # GcTag
  BY RecoveryAssumption DEF GcTag
<1>1. PICK s : s = Cardinality(h[e + 1])
  OBVIOUS
<1>2. s \in Nat /\ s # 0
  <2>1. h[e + 1] \in SUBSET Lpns /\ h[e + 1] # {}
    BY <1>0 DEF NoneEmpty
  <2>2. IsFiniteSet(h[e + 1])
    BY <2>1, LpnsAssumption, FS_Subset
  <2> QED
    BY <1>1, <2>1, <2>2, FS_CardinalityType, FS_EmptySet
<1>3. \A x \in S : x.pg.epoch = e => x.pg.span = s
  BY <1>0, <1>1 DEF AcctOk, PageOk
<1>4. DOMAIN E = L /\ \A d \in L : E[d] = D[d]
  BY DEF Restricts
<1>5. \A d \in DOMAIN E : E[d].src = e => E[d].span = s
  BY <1>1, <1>4 DEF AcctOk, DepOk
<1>6. /\ PagesOf(S, e) = {} /\ DepsOf(E, e) = {} => Span(e, S, E, k - 1) = 0
      /\ ~(PagesOf(S, e) = {} /\ DepsOf(E, e) = {}) => Span(e, S, E, k - 1) = s
      /\ Found(e, S, E, k - 1) = Cardinality(PagesOf(S, e)) + Cardinality(DepsOf(E, e))
  <2>1. PICK j : j = k - 1
    OBVIOUS
  <2>2. j \in Nat /\ e > j
    BY <1>0, <2>1
  <2>3. SpanOk(S, E, j, e, s)
    <3>1. Spans(S, E, e, s)
      BY <1>3, <1>5 DEF Spans
    <3> QED
      BY <1>0, <1>2, <2>2, <3>1, SpanIs
  <2> QED
    BY <2>1, <2>3 DEF SpanOk
<1>7. /\ IsFiniteSet(PagesOf(S, e)) /\ IsFiniteSet(BufsOf(c, e)) /\ IsFiniteSet(DepsOf(D, e))
      /\ IsFiniteSet(ToCome(h, P, e))
      /\ Cardinality(PagesOf(S, e)) + Cardinality(BufsOf(c, e)) + Cardinality(DepsOf(D, e))
         + Cardinality(ToCome(h, P, e)) = s
  BY <1>1 DEF AcctOk, CountOk
<1>8. /\ DepsOf(E, e) \subseteq DepsOf(D, e)
      /\ DepsOf(E, e) = DepsOf(D, e) <=> \A d \in DOMAIN D \ L : D[d].src # e
  BY <1>4 DEF DepsOf
<1>9. /\ IsFiniteSet(DepsOf(E, e)) /\ Cardinality(DepsOf(E, e)) <= Cardinality(DepsOf(D, e))
      /\ Cardinality(DepsOf(D, e)) = Cardinality(DepsOf(E, e)) => DepsOf(E, e) = DepsOf(D, e)
  BY <1>7, <1>8, FS_Subset
<1>10. /\ Cardinality(PagesOf(S, e)) \in Nat /\ Cardinality(BufsOf(c, e)) \in Nat
       /\ Cardinality(DepsOf(D, e)) \in Nat /\ Cardinality(ToCome(h, P, e)) \in Nat
       /\ Cardinality(DepsOf(E, e)) \in Nat
  BY <1>7, <1>9, FS_CardinalityType
<1>11. /\ Cardinality(BufsOf(c, e)) = 0 <=> BufsOf(c, e) = {}
       /\ Cardinality(ToCome(h, P, e)) = 0 <=> ToCome(h, P, e) = {}
       /\ Cardinality(PagesOf(S, e)) = 0 <=> PagesOf(S, e) = {}
       /\ Cardinality(DepsOf(E, e)) = 0 <=> DepsOf(E, e) = {}
  BY <1>7, <1>9, FS_EmptySet
<1>12. ASSUME Complete(h, c, D, L, P, e)
       PROVE  /\ Span(e, S, E, k - 1) # 0 /\ Span(e, S, E, k - 1) = Found(e, S, E, k - 1)
  <2>1. BufsOf(c, e) = {} /\ ToCome(h, P, e) = {} /\ DepsOf(E, e) = DepsOf(D, e)
    BY <1>8, <1>12 DEF Complete
  <2>2. Cardinality(PagesOf(S, e)) + Cardinality(DepsOf(E, e)) = s
    BY <1>7, <1>10, <1>11, <2>1
  <2> QED
    BY <1>2, <1>6, <1>10, <1>11, <2>2
<1>13. ASSUME Span(e, S, E, k - 1) # 0, Span(e, S, E, k - 1) = Found(e, S, E, k - 1)
       PROVE  Complete(h, c, D, L, P, e)
  <2>1. Cardinality(PagesOf(S, e)) + Cardinality(DepsOf(E, e)) = s
    BY <1>6, <1>13
  <2>2. /\ Cardinality(BufsOf(c, e)) = 0 /\ Cardinality(ToCome(h, P, e)) = 0
        /\ Cardinality(DepsOf(D, e)) = Cardinality(DepsOf(E, e))
    BY <1>7, <1>9, <1>10, <2>1
  <2> QED
    BY <1>8, <1>9, <1>11, <2>2 DEF Complete
<1> QED
  BY <1>12, <1>13

\* The cut of recovery is the largest prefix that is safe.
LEMMA CutIs ==
  ASSUME NEW h \in Seq(SUBSET Lpns), Len(h) < GcTag, NoneEmpty(h),
         NEW k \in Nat, k >= 1, k <= Len(h),
         NEW S, NEW c, NEW D, NEW P, AcctOk(h, k, S, c, D, P),
         NEW L \in SUBSET DOMAIN D, NEW E, Restricts(E, D, L),
         NEW cut, cut = PullIncomplete(E, FirstIncomplete(S, E, k - 1))
  PROVE  /\ Safe(h, k, c, D, L, P, cut)
         /\ \A x : Safe(h, k, c, D, L, P, x) => x <= cut
<1>0. /\ Len(h) \in Nat /\ k - 1 \in Nat /\ k - 1 < Len(h) /\ Len(h) < EpochMod /\ GcTag \in Nat
  BY RecoveryAssumption DEF GcTag
<1>1. PICK W : W = {e \in k..(Len(h) - 1) : Complete(h, c, D, L, P, e)}
  OBVIOUS
<1>2. PICK j, n, f : j = k - 1 /\ n = Len(h) /\ f = FirstIncomplete(S, E, j)
  OBVIOUS
<1>3. \A x \in WritePages(S, j) : x.pg.epoch \in (j + 1)..(n - 1)
  <2>1. j + 1 = k
    BY <1>2
  <2> QED
    BY <1>2, <2>1 DEF WritePages, AcctOk, PageOk
<1>4. DOMAIN E = L /\ \A d \in L : E[d] = D[d]
  BY DEF Restricts
<1>5. /\ \A d \in DOMAIN E : E[d].src \in k..(Len(h) - 1) /\ E[d].dst \in Nat
      /\ \A d \in DOMAIN E : E[d].src \in (j + 1)..(n - 1)
      /\ \A d \in DOMAIN E : E[d].src \in Nat
  <2>1. \A d \in DOMAIN E : E[d].src \in k..(Len(h) - 1) /\ E[d].dst \in Nat
    BY <1>4 DEF AcctOk, DepOk
  <2>2. k..(Len(h) - 1) = (j + 1)..(n - 1) /\ \A i \in k..(Len(h) - 1) : i \in Nat
    BY <1>0, <1>2
  <2> QED
    BY <2>1, <2>2
<1>6. \A e \in (j + 1)..(n - 1) :
           e \in W <=> /\ Span(e, S, E, j) # 0
                       /\ Span(e, S, E, j) = Found(e, S, E, j)
  <2>1. \A e \in k..(Len(h) - 1) :
           e \in W <=> /\ Span(e, S, E, k - 1) # 0
                       /\ Span(e, S, E, k - 1) = Found(e, S, E, k - 1)
    BY <1>1, FullIsComplete
  <2>2. k..(Len(h) - 1) = (j + 1)..(n - 1)
    BY <1>0, <1>2
  <2> QED
    BY <1>2, <2>1, <2>2
<1>7. j \in Nat /\ n \in Nat /\ j < n /\ n < EpochMod
  BY <1>0, <1>2
<1>8. /\ f \in (j + 1)..n
      /\ \A e \in (j + 1)..(f - 1) : e \in W
      /\ f < n => f \notin W
  BY <1>2, <1>3, <1>5, <1>6, <1>7, FirstIs
<1>9. /\ f \in k..Len(h) /\ f \in Nat
      /\ \A e \in k..(f - 1) : Complete(h, c, D, L, P, e)
      /\ f < Len(h) => ~Complete(h, c, D, L, P, f)
  BY <1>0, <1>1, <1>2, <1>8
<1>10. cut = PullIncomplete(E, f)
  BY <1>2
<1>11. /\ cut \in 0..f
       /\ \A d \in DOMAIN E : ~(E[d].src < cut /\ cut <= E[d].dst)
       /\ \A x \in 0..f : (\A d \in DOMAIN E : ~(E[d].src < x /\ x <= E[d].dst)) => x <= cut
  <2>1. \A d \in DOMAIN E : E[d].src \in Nat /\ E[d].dst \in Nat
    BY <1>5
  <2>2. /\ PullIncomplete(E, f) \in 0..f
        /\ \A d \in DOMAIN E : ~(/\ E[d].src < PullIncomplete(E, f)
                                 /\ PullIncomplete(E, f) <= E[d].dst)
        /\ \A x \in 0..f : (\A d \in DOMAIN E : ~(E[d].src < x /\ x <= E[d].dst))
                              => x <= PullIncomplete(E, f)
    BY <1>9, <2>1, PullIs
  <2> QED
    BY <1>10, <2>2
<1>12. cut >= k
  <2>1. \A d \in DOMAIN E : ~(E[d].src < k)
    BY <1>0, <1>5
  <2> QED
    BY <1>0, <1>9, <1>11, <2>1
<1>13. Safe(h, k, c, D, L, P, cut)
  <2>1. cut \in k..Len(h) /\ \A e \in k..(cut - 1) : Complete(h, c, D, L, P, e)
    BY <1>0, <1>9, <1>11, <1>12
  <2> QED
    BY <1>4, <1>11, <2>1 DEF Safe, Closed
<1>14. ASSUME NEW x, Safe(h, k, c, D, L, P, x)
       PROVE  x <= cut
  <2>1. x \in k..Len(h) /\ \A e \in k..(x - 1) : Complete(h, c, D, L, P, e)
    BY <1>14 DEF Safe
  <2>2. x <= f
    BY <1>0, <1>9, <2>1
  <2>3. \A d \in DOMAIN E : ~(E[d].src < x /\ x <= E[d].dst)
    BY <1>4, <1>14 DEF Safe, Closed
  <2> QED
    BY <1>0, <1>9, <1>11, <2>1, <2>2, <2>3
<1> QED
  BY <1>13, <1>14

\* The number of writes that recovery would keep, were it to run now.
Cut == Recover(flash, log, maps).incomplete

\* A prefix of the writes that is safe now.
SafeAt(x) == Safe(hist, Saved, cache, Deps, Ids, PendingPages, x)

\* The dependencies in the log, as recovery reads them.
LogDeps == [d \in Ids |-> log[d[1]].ents[d[2]]]

\* What the lemmas about the cut need.
CutInv == TypeOK /\ EpochInv /\ SInv /\ LogInv /\ ChainInv /\ RunInv /\ AcctInv

\* Recovery, in a log with a tag.
LEMMA CutTagged ==
  ASSUME Tagged
  PROVE  Cut = PullIncomplete(LogDeps, FirstIncomplete(Scan, LogDeps, LastTag(log).epoch))
BY DEF Cut, Recover, Tagged, Scan, Act, LogDeps, Ids, From

\* The dependencies in the log are among those of the account.
LEMMA LogDepsAre ==
  ASSUME TypeOK, Tagged
  PROVE  /\ Restricts(LogDeps, Deps, Ids) /\ Ids \subseteq DOMAIN Deps
         /\ \A d \in DOMAIN LogDeps : LogDeps[d] \in DepEnt
<1>1. Ids \subseteq XIds
  BY DEF XIds
<1>2. \A d \in Ids : Deps[d] = log[d[1]].ents[d[2]] /\ log[d[1]].ents[d[2]] \in DepEnt
  BY <1>1, IdsIn DEF Deps
<1>3. LogDeps = [d \in Ids |-> Deps[d]]
  BY <1>2 DEF LogDeps
<1>4. \A d \in Ids : LogDeps[d] \in DepEnt
  BY <1>2 DEF LogDeps
<1>5. DOMAIN Deps = XIds /\ DOMAIN LogDeps = Ids
  BY DEF Deps, LogDeps
<1> QED
  BY <1>1, <1>3, <1>4, <1>5 DEF Restricts

\* No write has the epoch that marks copies.
LEMMA IssuedSmall ==
  ASSUME TypeOK, EpochInv
  PROVE  /\ hist \in Seq(SUBSET Lpns) /\ Issued \in Nat /\ Issued < GcTag /\ GcTag \in Nat
         /\ Issued < EpochMod
BY FtlAssumption, RecoveryAssumption DEF TypeOK, EpochInv, GcTag, Issued

\* The cut is the largest safe prefix, once the tag covers a write.
LEMMA CutOne ==
  CutInv /\ Live /\ Tagged /\ Saved >= 1 =>
    SafeAt(Cut) /\ \A x : SafeAt(x) => x <= Cut
<1> SUFFICES ASSUME CutInv, Live, Tagged, Saved >= 1
             PROVE  SafeAt(Cut) /\ \A x : SafeAt(x) => x <= Cut
  OBVIOUS
<1> USE DEF CutInv
<1>1. /\ hist \in Seq(SUBSET Lpns) /\ Len(hist) < GcTag /\ NoneEmpty(hist)
  BY IssuedSmall DEF RunInv, NoneEmpty, Issued
<1>2. Saved \in Nat /\ Saved <= Len(hist)
  BY SavedIssued DEF Issued
<1>3. AcctOk(hist, Saved, Scan, cache, Deps, PendingPages)
  BY DEF AcctInv
<1>4. Restricts(LogDeps, Deps, Ids) /\ Ids \in SUBSET DOMAIN Deps
  BY LogDepsAre
<1>5. LastTag(log).epoch = Saved - 1
  BY <1>2, SavedType DEF EpochPred
<1>6. Cut = PullIncomplete(LogDeps, FirstIncomplete(Scan, LogDeps, Saved - 1))
  BY <1>5, CutTagged
<1>7. /\ Safe(hist, Saved, cache, Deps, Ids, PendingPages, Cut)
      /\ \A x : Safe(hist, Saved, cache, Deps, Ids, PendingPages, x) => x <= Cut
  <2> PICK cut : cut = Cut
    OBVIOUS
  <2>1. /\ Safe(hist, Saved, cache, Deps, Ids, PendingPages, cut)
        /\ \A x : Safe(hist, Saved, cache, Deps, Ids, PendingPages, x) => x <= cut
    BY <1>1, <1>2, <1>3, <1>4, <1>6, CutIs
  <2> QED
    BY <2>1
<1> QED
  BY <1>7 DEF SafeAt

\* Before that recovery finds nothing: with the tag of format it takes the
\* epochs to start anew.
LEMMA CutZero ==
  CutInv /\ Live /\ Tagged /\ Saved = 0 => Cut = 0
<1> SUFFICES ASSUME CutInv, Live, Tagged, Saved = 0
             PROVE  Cut = 0
  OBVIOUS
<1> USE DEF CutInv
<1>1. LastTag(log).epoch = EpochPred(0)
  BY SavedType
<1>2. \A x \in Scan : x.pg.epoch \in Epochs
  <2>1. Act \in [Banks -> Ppn] /\ Chains(Act)
    BY SavedType DEF ChainInv
  <2>2. \A x \in Scan : x.pg \in DataPage
    BY <2>1, ScanFacts DEF Scan, Live
  <2> QED
    BY <2>2 DEF DataPage
<1>3. \A d \in DOMAIN LogDeps : LogDeps[d].src \in Epochs /\ LogDeps[d].dst \in Epochs
  BY LogDepsAre DEF DepEnt
<1>4. FirstIncomplete(Scan, LogDeps, EpochPred(0)) = 0
  BY <1>2, <1>3, FirstZero
<1>5. Cut = PullIncomplete(LogDeps, 0)
  BY <1>1, <1>4, CutTagged
<1>6. \A d \in DOMAIN LogDeps : LogDeps[d].src \in Nat /\ LogDeps[d].dst \in Nat
  BY <1>3, RecoveryAssumption DEF Epochs
<1>7. PullIncomplete(LogDeps, 0) \in 0..0
  <2> PICK z : z = 0
    OBVIOUS
  <2>1. z \in Nat
    OBVIOUS
  <2>2. PullIncomplete(LogDeps, z) \in 0..z
    BY <1>6, <2>1, PullIs
  <2> QED
    BY <2>2
<1> QED
  BY <1>5, <1>7

\* Between the erase of the log and the next tag it returns the map table.
LEMMA CutNoTag ==
  TypeOK /\ EpochInv /\ LogInv /\ Live /\ ~Tagged =>
    /\ Cut = Issued /\ Recover(flash, log, maps).map = pgmap /\ pc = "tag" /\ ~InWrite
<1> SUFFICES ASSUME TypeOK, EpochInv, LogInv, Live, ~Tagged
             PROVE  /\ Cut = Issued /\ Recover(flash, log, maps).map = pgmap
                    /\ pc = "tag" /\ ~InWrite
  OBVIOUS
<1>1. pc = "tag" /\ Base = pgmap /\ RestoredMap(maps).epoch = EpochPred(g_epoch)
  BY DEF LogInv, TagShape
<1>2. /\ Cut = EpochSucc(RestoredMap(maps).epoch)
      /\ Recover(flash, log, maps).map = RestoredMap(maps).map
  BY DEF Cut, Recover, Tagged
<1>3. ~InWrite
  BY <1>1 DEF InWrite, Writing
<1>4. Issued = g_epoch /\ g_epoch \in Epochs
  BY <1>3, IssuedType DEF EpochInv, Issued, Live, TypeOK
<1>5. EpochSucc(EpochPred(g_epoch)) = g_epoch
  BY <1>4, EpochSteps
<1> QED
  BY <1>1, <1>2, <1>3, <1>4, <1>5 DEF Base

\* The cut is a number of writes, at least those the tag covers.
LEMMA CutRange ==
  CutInv /\ Live => Cut \in Nat /\ Cut <= Issued /\ (Tagged => Saved <= Cut)
<1> SUFFICES ASSUME CutInv, Live
             PROVE  Cut \in Nat /\ Cut <= Issued /\ (Tagged => Saved <= Cut)
  OBVIOUS
<1>1. Issued \in Nat
  BY IssuedType DEF CutInv
<1>2. CASE ~Tagged
  BY <1>1, <1>2, CutNoTag DEF CutInv
<1>3. CASE Tagged
  <2>1. Saved \in Nat /\ Saved <= Issued
    BY <1>3, SavedIssued DEF CutInv
  <2>2. CASE Saved = 0
    BY <1>1, <1>3, <2>2, CutZero
  <2>3. CASE Saved >= 1
    <3>1. Cut \in Saved..Len(hist)
      BY <1>3, <2>3, CutOne DEF SafeAt, Safe
    <3> QED
      BY <1>1, <2>1, <3>1 DEF Issued
  <2> QED
    BY <2>1, <2>2, <2>3
<1> QED
  BY <1>2, <1>3

-----------------------------------------------------------------------------
(* The cut never becomes smaller.                                          *)

\* No page of a write before x is in the buffer d or still to come (Q).
Whole(g, k, d, Q, x) ==
  \A e \in k..(x - 1) : BufsOf(d, e) = {} /\ ToCome(g, Q, e) = {}
\* The new dependencies have their sources from x on.
Beyond(D, L, E, M, x) ==
  /\ L \subseteq M /\ M \subseteq DOMAIN E
  /\ \A y \in DOMAIN E : (y \in DOMAIN D /\ E[y] = D[y]) \/ (E[y].src \in Nat /\ E[y].src >= x)

\* A prefix stays safe if none of its pieces goes back to DRAM and new
\* dependencies are those of later writes.
LEMMA SafeMoves ==
  ASSUME NEW h \in Seq(SUBSET Lpns), NEW k \in Nat, NEW c, NEW D, NEW L, NEW P, NEW x,
         Safe(h, k, c, D, L, P, x), DepOk(h, k, D),
         NEW g \in Seq(SUBSET Lpns), Len(h) <= Len(g), NEW d, NEW E, NEW M, NEW Q,
         Whole(g, k, d, Q, x), Beyond(D, L, E, M, x)
  PROVE  Safe(g, k, d, E, M, Q, x)
<1>1. x \in k..Len(h) /\ Len(h) \in Nat /\ Len(g) \in Nat /\ x \in Nat /\ x \in k..Len(g)
  BY DEF Safe
<1>2. \A y \in DOMAIN D : D[y].src \in Nat /\ D[y].src >= k
  BY <1>1 DEF DepOk
<1>3. \A y \in DOMAIN D \ L : D[y].src >= x
  <2> SUFFICES ASSUME NEW y \in DOMAIN D \ L, D[y].src < x
               PROVE  FALSE
    BY <1>1, <1>2
  <2>1. D[y].src \in k..(x - 1)
    BY <1>1, <1>2
  <2> QED
    BY <2>1 DEF Safe, Complete
<1>4. \A y \in DOMAIN E \ M : E[y].src \in Nat /\ E[y].src >= x
  BY <1>2, <1>3 DEF Beyond
<1>5. \A y \in M : ~(E[y].src < x /\ x <= E[y].dst)
  <2> SUFFICES ASSUME NEW y \in M
               PROVE  ~(E[y].src < x /\ x <= E[y].dst)
    OBVIOUS
  <2>1. y \in DOMAIN E
    BY DEF Beyond
  <2>2. CASE E[y].src \in Nat /\ E[y].src >= x
    BY <1>1, <2>2
  <2>3. CASE y \in DOMAIN D /\ E[y] = D[y]
    <3>1. CASE y \in L
      BY <2>3, <3>1 DEF Safe, Closed
    <3>2. CASE y \notin L
      BY <1>1, <1>2, <1>3, <2>3, <3>2
    <3> QED
      BY <3>1, <3>2
  <2> QED
    BY <2>1, <2>2, <2>3 DEF Beyond
<1>6. \A e \in k..(x - 1) : Complete(g, d, E, M, Q, e)
  <2> SUFFICES ASSUME NEW e \in k..(x - 1)
               PROVE  Complete(g, d, E, M, Q, e)
    OBVIOUS
  <2>1. BufsOf(d, e) = {} /\ ToCome(g, Q, e) = {}
    BY DEF Whole
  <2>2. \A y \in DOMAIN E \ M : E[y].src # e
    BY <1>1, <1>4
  <2> QED
    BY <2>1, <2>2 DEF Complete
<1> QED
  BY <1>1, <1>5, <1>6 DEF Safe, Closed

\* A safe prefix has no piece in DRAM.
LEMMA SafeWhole ==
  ASSUME NEW h, NEW k, NEW c, NEW D, NEW L, NEW P, NEW x, Safe(h, k, c, D, L, P, x)
  PROVE  Whole(h, k, c, P, x)
BY DEF Safe, Complete, Whole

\* A longer log has more dependencies.
LEMMA IdsMono ==
  ASSUME NEW lg \in Seq(LogPage), NEW lh \in Seq(LogPage), NEW last \in Nat,
         Len(lh) = Len(lg) + 1, \A j \in DOMAIN lg : lh[j] = lg[j]
  PROVE  DepIds(lg, last) \subseteq DepIds(lh, last)
<1>1. Len(lg) \in Nat /\ DOMAIN lg = 1..Len(lg) /\ DOMAIN lh = 1..(Len(lg) + 1)
  OBVIOUS
<1>2. \A j \in DepPages(lg, last) : j \in DepPages(lh, last) /\ lh[j].ents = lg[j].ents
  <2> SUFFICES ASSUME NEW j \in DepPages(lg, last)
               PROVE  j \in DepPages(lh, last) /\ lh[j].ents = lg[j].ents
    OBVIOUS
  <2>1. /\ j \in DOMAIN lg /\ j > last /\ j \in Nat
        /\ \A i \in (last + 1)..j : lg[i].type = "depent"
    BY <1>1 DEF DepPages
  <2>2. \A i \in (last + 1)..j : i \in DOMAIN lg
    BY <1>1, <2>1
  <2>3. \A i \in (last + 1)..j : lh[i].type = "depent"
    BY <2>1, <2>2
  <2>4. j \in DOMAIN lh
    BY <1>1, <2>1
  <2> QED
    BY <2>1, <2>3, <2>4 DEF DepPages
<1>3. DepIdsAre(lg, last) /\ DepIdsAre(lh, last)
  BY DepIdIs
<1>4. ASSUME NEW d \in DepIds(lg, last)
      PROVE  d \in DepIds(lh, last)
  <2>1. PICK j \in DepPages(lg, last) : \E i \in DOMAIN lg[j].ents : d = <<j, i>>
    BY <1>3 DEF DepIdsAre
  <2>2. PICK i \in DOMAIN lg[j].ents : d = <<j, i>>
    BY <2>1
  <2>3. j \in DepPages(lh, last) /\ i \in DOMAIN lh[j].ents
    BY <1>2
  <2> QED
    BY <1>3, <2>2, <2>3 DEF DepIdsAre
<1> QED
  BY <1>4

\* Between two tags no dependency is lost.
LEMMA IdsStay ==
  ASSUME TypeOK, TypeOK', [Next]_vars, pc # "recovered", pc' # "recovered", ~RecordTag, ~EraseLog,
         Tagged
  PROVE  Ids \subseteq Ids' /\ Ids' \subseteq DOMAIN Deps'
<1>1. log' = log \/ LogsDeps \/ LogsMap
  BY Growing
<1>2. Ids' \subseteq DOMAIN Deps'
  BY DEF XIds, Deps
<1>3. CASE log' = log
  BY <1>2, <1>3, SameIds
<1>4. CASE LogsDeps \/ LogsMap
  <2>1. From' = From /\ Len(log') = Len(log) + 1 /\ \A j \in DOMAIN log : log'[j] = log[j]
    BY <1>4, DepsKeep DEF LogKeeps, LogGrows
  <2>2. log \in Seq(LogPage) /\ log' \in Seq(LogPage)
    BY DEF TypeOK
  <2>3. From \in Nat
    <3>1. From \in DOMAIN log
      BY SavedType
    <3> QED
      BY <2>2, <3>1
  <2>4. DepIds(log, From) \subseteq DepIds(log', From)
    <3> PICK lh, f : lh = log' /\ f = From
      OBVIOUS
    <3>1. /\ lh \in Seq(LogPage) /\ f \in Nat /\ Len(lh) = Len(log) + 1
          /\ \A j \in DOMAIN log : lh[j] = log[j]
      BY <2>1, <2>2, <2>3
    <3>2. DepIds(log, f) \subseteq DepIds(lh, f)
      BY <2>2, <3>1, IdsMono
    <3> QED
      BY <3>2
  <2> QED
    BY <1>2, <2>1, <2>4 DEF Ids
<1> QED
  BY <1>1, <1>3, <1>4

\* A page of the running write touches no prefix that is safe ...
LEMMA WholePut ==
  ASSUME NEW h \in Seq(SUBSET Lpns), NEW k \in Nat, k <= Len(h) - 1, NEW c, NEW D, NEW L, NEW P,
         NEW x, Safe(h, k, c, D, L, P, x), P # {}, NEW d, NEW b \in Banks, NEW i \in Bufs,
         Dirtied(c, d, b, i), d[b][i].epoch = Len(h) - 1, NEW Q
  PROVE  x <= Len(h) - 1 /\ Whole(h, k, d, Q, x)
<1>1. x \in k..Len(h) /\ Len(h) \in Nat /\ Whole(h, k, c, P, x)
  BY SafeWhole DEF Safe
<1>2. x <= Len(h) - 1
  <2> SUFFICES ASSUME x = Len(h)
               PROVE  FALSE
    BY <1>1
  <2>1. (Len(h) - 1) \in k..(x - 1)
    BY <1>1
  <2> QED
    BY <1>1, <2>1 DEF Whole, ToCome
<1>3. ASSUME NEW e \in k..(x - 1)
      PROVE  BufsOf(d, e) = {} /\ ToCome(h, Q, e) = {}
  <2>1. e # Len(h) - 1 /\ BufsOf(c, e) = {}
    BY <1>1, <1>2 DEF Whole
  <2>2. BufsTook(c, d, b, i, e)
    BY BufsTake
  <2>3. BufsOf(d, e) = {}
    BY <2>1, <2>2 DEF BufsTook
  <2> QED
    BY <2>1, <2>3 DEF ToCome
<1> QED
  BY <1>2, <1>3 DEF Whole

\* ... nor does a new write.
LEMMA WholeIssue ==
  ASSUME NEW h \in Seq(SUBSET Lpns), NEW k \in Nat, NEW c, NEW D, NEW L, NEW P,
         NEW x, Safe(h, k, c, D, L, P, x), NEW T \in SUBSET Lpns, NEW g, g = Append(h, T)
  PROVE  Whole(g, k, c, T, x) /\ Len(g) = Len(h) + 1 /\ g \in Seq(SUBSET Lpns)
<1>1. x \in k..Len(h) /\ Len(h) \in Nat /\ Whole(h, k, c, P, x) /\ Len(g) = Len(h) + 1
  BY SafeWhole DEF Safe
<1>2. \A e \in k..(x - 1) : e # Len(g) - 1
  BY <1>1
<1> QED
  BY <1>1, <1>2 DEF Whole, ToCome

\* A dirty buffer is of a write beyond every safe prefix.
LEMMA DirtyFrom ==
  ASSUME NEW h \in Seq(SUBSET Lpns), NEW k \in Nat, NEW c, NEW D, NEW L, NEW P,
         NEW x, Safe(h, k, c, D, L, P, x), DirtyOk(h, k, c),
         NEW b \in Banks, NEW i \in Bufs, c[b][i].dirty
  PROVE  c[b][i].epoch \in Nat /\ c[b][i].epoch >= x
<1>1. c[b][i].epoch \in k..(Len(h) - 1) /\ Len(h) \in Nat /\ x \in k..Len(h)
  BY DEF DirtyOk, Safe
<1>2. ASSUME c[b][i].epoch < x
      PROVE  FALSE
  <2>1. c[b][i].epoch \in k..(x - 1)
    BY <1>1, <1>2
  <2>2. BufsOf(c, c[b][i].epoch) = {}
    BY <2>1 DEF Safe, Complete
  <2>3. <<b, i>> \in Banks \X Bufs /\ <<b, i>>[1] = b /\ <<b, i>>[2] = i
    OBVIOUS
  <2>4. <<b, i>> \in BufsOf(c, c[b][i].epoch)
    BY <2>3 DEF BufsOf
  <2> QED
    BY <2>2, <2>4
<1> QED
  BY <1>1, <1>2

\* A safe prefix stays safe.
LEMMA NextSafe ==
  ASSUME TypeOK, TypeOK', EpochInv, SInv, SInv', RoomLeft, RoomLeft', FlushInv, CacheInv,
         LogInv, ChainInv, DepFullInv, DepFullInv', RunInv, AcctInv, [Next]_vars,
         pc # "recovered", pc' # "recovered", ~RecordTag, Tagged', NEW x, SafeAt(x)
  PROVE  SafeAt(x)'
<1>1. Tagged /\ Saved' = Saved /\ Live
  BY SavedKept DEF Live
<1>2. ~EraseLog
  BY DEF EraseLog, Tagged, TagsOf
<1>3. Ids \subseteq Ids' /\ Ids' \subseteq DOMAIN Deps'
  BY <1>1, <1>2, IdsStay
<1>4. /\ hist \in Seq(SUBSET Lpns) /\ hist' \in Seq(SUBSET Lpns) /\ Len(hist) \in Nat
      /\ Saved \in Nat /\ (Writing => Saved <= Len(hist) - 1)
  BY <1>1, SavedIssued DEF TypeOK, Issued
<1>5. AcctOk(hist, Saved, Scan, cache, Deps, PendingPages)
  BY <1>1 DEF AcctInv
<1>6. DirtyOk(hist, Saved, cache) /\ DepOk(hist, Saved, Deps)
  BY <1>5 DEF AcctOk
<1>7. Safe(hist, Saved, cache, Deps, Ids, PendingPages, x)
  BY DEF SafeAt
<1> DEFINE Sound == /\ Len(hist) <= Len(hist')
                    /\ Whole(hist', Saved, cache', PendingPages', x)
                    /\ Beyond(Deps, Ids, Deps', Ids', x)
<1>8. Deps' = Deps => Beyond(Deps, Ids, Deps', Ids', x)
  BY <1>3 DEF Beyond
<1>9. Whole(hist, Saved, cache, PendingPages, x)
  BY <1>7, SafeWhole
<1>10. ASSUME AcctSame
       PROVE  Sound
  BY <1>4, <1>8, <1>9, <1>10 DEF AcctSame
<1>11. ASSUME NEW b, NEW i, NEW y, AcctStore(b, i, y)
       PROVE  Sound
  <2>1. \A e \in Saved..(x - 1) : BufsOf(cache', e) = {}
    <3> SUFFICES ASSUME NEW e \in Saved..(x - 1)
                 PROVE  BufsOf(cache', e) = {}
      OBVIOUS
    <3>1. BufsOf(cache, e) = {}
      BY <1>9 DEF Whole
    <3>2. PICK d : d = cache'
      OBVIOUS
    <3>3. b \in Banks /\ i \in Bufs /\ Cleaned(cache, d, b, i)
      BY <1>11, <3>2 DEF AcctStore
    <3>4. /\ cache[b][i].epoch # e => BufsOf(d, e) = BufsOf(cache, e)
          /\ cache[b][i].epoch = e => /\ BufsOf(d, e) = BufsOf(cache, e) \ {<<b, i>>}
                                 /\ <<b, i>> \in BufsOf(cache, e)
      BY <3>3, BufsDrop
    <3> QED
      BY <3>1, <3>2, <3>4
  <2>2. hist' = hist /\ PendingPages' = PendingPages /\ Deps' = Deps
    BY <1>11 DEF AcctStore
  <2> QED
    BY <1>4, <1>8, <1>9, <2>1, <2>2 DEF Whole
<1>12. ASSUME NEW y, AcctCopy(y)
       PROVE  Sound
  BY <1>4, <1>8, <1>9, <1>12 DEF AcctCopy
<1>13. ASSUME NEW i, PutIs(i), Writing,
              cache[Bank(w.lpn)][i].dirty => cache[Bank(w.lpn)][i].epoch # g_epoch
       PROVE  /\ x <= Len(hist) - 1 /\ Len(hist) <= Len(hist')
              /\ Whole(hist', Saved, cache', PendingPages', x)
  <2>1. Len(hist) = g_epoch + 1 /\ g_epoch \in Nat
    BY <1>13, WritingEpoch DEF Issued
  <2>2. PICK d, Q : d = cache' /\ Q = PendingPages'
    OBVIOUS
  <2>3. Dirtied(cache, d, Bank(w.lpn), i) /\ d[Bank(w.lpn)][i].epoch = Len(hist) - 1
    BY <1>13, <2>1, <2>2 DEF Dirtied, PutIs
  <2>4. Bank(w.lpn) \in Banks /\ i \in Bufs /\ PendingPages # {} /\ hist' = hist
    BY <1>13 DEF PutIs
  <2>5. x <= Len(hist) - 1 /\ Whole(hist, Saved, d, Q, x)
    BY <1>4, <1>7, <1>13, <2>3, <2>4, WholePut
  <2> QED
    BY <1>4, <2>2, <2>4, <2>5
<1>14. ASSUME NEW i, AcctPut(i)
       PROVE  Sound
  <2>1. PutIs(i) /\ Writing /\ ~cache[Bank(w.lpn)][i].dirty /\ Deps' = Deps
    BY <1>14 DEF AcctPut
  <2> QED
    BY <1>8, <1>13, <2>1
<1>15. ASSUME NEW i, NEW y, AcctOver(i, y)
       PROVE  Sound
  <2>1. /\ PutIs(i) /\ Writing /\ cache[Bank(w.lpn)][i].dirty /\ i \in Bufs
        /\ cache[Bank(w.lpn)][i].lpn = w.lpn /\ Bank(w.lpn) \in Banks
        /\ AddsDep(Deps, Deps', y, cache[Bank(w.lpn)][i].epoch, g_epoch, cache[Bank(w.lpn)][i].span)
    BY <1>15 DEF AcctOver, PutIs
  <2>2. cache[Bank(w.lpn)][i].epoch # g_epoch
    BY <1>1, <2>1, OverOld
  <2>3. cache[Bank(w.lpn)][i].epoch \in Nat /\ cache[Bank(w.lpn)][i].epoch >= x
    BY <1>4, <1>6, <1>7, <2>1, DirtyFrom
  <2>4. Beyond(Deps, Ids, Deps', Ids', x)
    <3>1. /\ DOMAIN Deps' = DOMAIN Deps \cup {y} /\ \A z \in DOMAIN Deps : Deps'[z] = Deps[z]
          /\ Deps'[y].src = cache[Bank(w.lpn)][i].epoch
      BY <2>1 DEF AddsDep
    <3> QED
      BY <1>3, <2>3, <3>1 DEF Beyond
  <2> QED
    BY <1>13, <2>1, <2>2, <2>4
<1>16. ASSUME NEW T, AcctIssue(T)
       PROVE  Sound
  <2>1. T \in SUBSET Lpns /\ hist' = Append(hist, T) /\ PendingPages' = T /\ Deps' = Deps
        /\ cache' = cache
    BY <1>16 DEF AcctIssue
  <2>2. Whole(hist', Saved, cache, T, x) /\ Len(hist') = Len(hist) + 1
    BY <1>4, <1>7, <2>1, WholeIssue
  <2> QED
    BY <1>4, <1>8, <2>1, <2>2
<1>17. Sound
  <2> HIDE DEF Sound
  <2> QED
    BY <1>1, <1>10, <1>11, <1>12, <1>14, <1>15, <1>16, AcctSteps
<1>18. Safe(hist', Saved, cache', Deps', Ids', PendingPages', x)
  <2> PICK g, d, E, M, Q : /\ g = hist' /\ d = cache' /\ E = Deps' /\ M = Ids'
                           /\ Q = PendingPages'
    OBVIOUS
  <2>1. /\ g \in Seq(SUBSET Lpns) /\ Len(hist) <= Len(g) /\ Whole(g, Saved, d, Q, x)
        /\ Beyond(Deps, Ids, E, M, x)
    BY <1>4, <1>17
  <2>2. Safe(g, Saved, d, E, M, Q, x)
    BY <1>4, <1>6, <1>7, <2>1, SafeMoves
  <2> QED
    BY <2>2
<1> QED
  BY <1>1, <1>18 DEF SafeAt

\* The cut is a number, after a power failure, too.
CutNat == Cut \in Nat

MostSafe == SafeAt(Cut) /\ \A x : SafeAt(x) => x <= Cut

\* CutOne under a name.
LEMMA CutMost == CutInv /\ Live /\ Tagged /\ Saved >= 1 => MostSafe
BY CutOne DEF MostSafe

\* No step of the firmware makes the cut smaller.
LEMMA NextCut ==
  ASSUME CutInv, CutInv', RoomLeft, RoomLeft', FlushInv, CacheInv,
         DepFullInv, DepFullInv', [Next]_vars, pc # "recovered", pc' # "recovered"
  PROVE  Cut' \in Nat /\ Cut' >= Cut
<1>1. /\ TypeOK /\ EpochInv /\ SInv /\ LogInv /\ ChainInv /\ RunInv /\ AcctInv
      /\ TypeOK' /\ SInv' /\ Live /\ Live'
  BY DEF CutInv, Live
<1>2. Cut \in Nat /\ Cut <= Issued /\ Issued \in Nat /\ Issued' \in Nat /\ Issued <= Issued'
  BY <1>1, CutRange, HistGrows DEF Issued
<1>3. (CutInv /\ Live => Cut \in Nat /\ Cut <= Issued /\ (Tagged => Saved <= Cut))'
  BY CutRange, PTL
<1>4. Cut' \in Nat /\ Cut' <= Issued' /\ (Tagged' => Saved' <= Cut')
  BY <1>1, <1>3
<1>5. CASE ~Tagged'
  <2>1. (TypeOK /\ EpochInv /\ LogInv /\ Live /\ ~Tagged =>
           /\ Cut = Issued /\ Recover(flash, log, maps).map = pgmap /\ pc = "tag" /\ ~InWrite)'
    BY CutNoTag, PTL
  <2>2. Cut' = Issued'
    BY <1>1, <1>5, <2>1 DEF CutInv
  <2> QED
    BY <1>2, <2>2
<1>6. CASE RecordTag
  <2>1. Tagged' /\ Saved' = Issued
    BY <1>1, <1>6, TagFacts DEF LogInv
  <2> QED
    BY <1>2, <1>4, <2>1
<1>7. CASE Tagged' /\ ~RecordTag
  <2>1. Tagged /\ Saved' = Saved /\ Saved \in Nat
    BY <1>1, <1>7, SavedKept, SavedIssued
  <2>2. CASE Saved = 0
    BY <1>1, <1>2, <1>4, <2>1, <2>2, CutZero
  <2>3. CASE Saved >= 1
    <3>1. PICK cut : cut = Cut
      OBVIOUS
    <3>2. SafeAt(cut)
      BY <1>1, <2>1, <2>3, <3>1, CutOne
    <3>3. SafeAt(cut)'
      BY <1>1, <1>7, <3>2, NextSafe
    <3>4. (CutInv /\ Live /\ Tagged /\ Saved >= 1 => MostSafe)'
      BY CutMost, PTL
    <3>5. \A x : SafeAt(x)' => x <= Cut'
      BY <1>1, <1>7, <2>1, <2>3, <3>4 DEF MostSafe
    <3>6. cut <= Cut'
      BY <3>3, <3>5
    <3> QED
      BY <1>2, <1>4, <3>1, <3>6
  <2> QED
    BY <2>1, <2>2, <2>3
<1> QED
  BY <1>5, <1>6, <1>7

\* Recovery depends on flash, log and map tables alone.
LEMMA SameCut ==
  ASSUME UNCHANGED <<flash, log, maps>>
  PROVE  Cut' = Cut
BY DEF Cut

-----------------------------------------------------------------------------
(* The last write to a page, and what the host reads.                      *)

\* v is the last of the first p writes of h that has page l, 0 if none has.
LastIs(h, p, l, v) ==
  /\ v \in 0..p /\ (v # 0 => l \in h[v])
  /\ \A j \in (v + 1)..p : l \notin h[j]

\* There is one last write to a page at most ...
LEMMA LastUnique ==
  ASSUME NEW h, NEW p \in Nat, NEW l, NEW u, NEW v, LastIs(h, p, l, u), LastIs(h, p, l, v)
  PROVE  u = v
<1>1. u \in 0..p /\ v \in 0..p /\ u \in Nat /\ v \in Nat
  BY DEF LastIs
<1>2. ~(u < v) /\ ~(v < u)
  BY <1>1 DEF LastIs
<1> QED
  BY <1>1, <1>2

\* ... and there is one.
LEMMA LastExists ==
  ASSUME NEW h, NEW p \in Nat, NEW l
  PROVE  \E v : LastIs(h, p, l, v)
<1>1. CASE \A k \in 1..p : l \notin h[k]
  <2>1. LastIs(h, p, l, 0)
    BY <1>1 DEF LastIs
  <2> QED
    BY <2>1
<1>2. CASE \E k \in 1..p : l \in h[k]
  <2>1. PICK W : W = {k \in 1..p : l \in h[k]}
    OBVIOUS
  <2>2. W \in SUBSET (0..p) /\ W # {}
    BY <1>2, <2>1
  <2>3. PICK v \in W : \A j \in W : j <= v
    BY <2>2, Greatest
  <2>4. LastIs(h, p, l, v)
    BY <2>1, <2>3 DEF LastIs
  <2> QED
    BY <2>4
<1> QED
  BY <1>1, <1>2

\* View is made of the last writes.
LEMMA ViewIs ==
  ASSUME hist \in Seq(SUBSET Lpns), NEW p \in Nat, NEW l \in Lpns
  PROVE  LastIs(hist, p, l, Disk!View(p)[l])
<1>1. PICK W : W = {k \in 1..p : l \in hist[k]}
  OBVIOUS
<1>2. Disk!View(p)[l] = IF W = {} THEN 0 ELSE CHOOSE k \in W : \A j \in W : j <= k
  BY <1>1 DEF Disk!View
<1>3. PICK v : LastIs(hist, p, l, v)
  BY LastExists
<1>4. CASE W = {}
  <2>1. v = 0
    BY <1>1, <1>3, <1>4 DEF LastIs
  <2> QED
    BY <1>2, <1>3, <1>4, <2>1
<1>5. CASE W # {}
  <2>1. PICK j \in W : TRUE
    BY <1>5
  <2>2. j \in 1..p /\ l \in hist[j] /\ j \in Nat /\ v \in 0..p /\ v \in Nat
    BY <1>1, <1>3, <2>1 DEF LastIs
  <2>3. v \in W
    <3>1. v # 0
      BY <1>3, <2>2 DEF LastIs
    <3> QED
      BY <1>1, <1>3, <2>2, <3>1 DEF LastIs
  <2>4. \A i \in W : i <= v
    BY <1>1, <1>3, <2>2 DEF LastIs
  <2>5. PICK u : u = CHOOSE k \in W : \A i \in W : i <= k
    OBVIOUS
  <2>6. u \in W /\ \A i \in W : i <= u
    BY <2>3, <2>4, <2>5
  <2>7. u = v
    <3>1. \A i \in W : i \in Nat
      BY <1>1
    <3>2. u \in Nat /\ u <= v /\ v <= u
      BY <2>3, <2>4, <2>6, <3>1
    <3> QED
      BY <2>2, <3>2
  <2> QED
    BY <1>2, <1>3, <1>5, <2>5, <2>7
<1> QED
  BY <1>4, <1>5

\* A new write is the last one to its own pages only.
LEMMA LastAppend ==
  ASSUME NEW h \in Seq(SUBSET Lpns), NEW T \in SUBSET Lpns, NEW g, g = Append(h, T),
         NEW l, NEW v, NEW p \in 0..Len(h), LastIs(h, p, l, v)
  PROVE  /\ LastIs(g, p, l, v)
         /\ p = Len(h) /\ l \notin T => LastIs(g, Len(g), l, v)
<1>1. /\ Len(h) \in Nat /\ Len(g) = Len(h) + 1 /\ g[Len(h) + 1] = T
      /\ \A i \in 1..Len(h) : g[i] = h[i]
  OBVIOUS
<1>2. v \in 0..p /\ p \in Nat /\ v \in Nat
  BY DEF LastIs
<1>3. \A i \in 1..p : i \in 1..Len(h)
  BY <1>1, <1>2
<1>4. LastIs(g, p, l, v)
  <2>1. v # 0 => l \in g[v]
    BY <1>1, <1>2, <1>3 DEF LastIs
  <2>2. ASSUME NEW j \in (v + 1)..p
        PROVE  l \notin g[j]
    <3>1. j \in 1..p
      BY <1>2
    <3> QED
      BY <1>1, <1>3, <3>1 DEF LastIs
  <2> QED
    BY <1>2, <2>1, <2>2 DEF LastIs
<1>5. ASSUME p = Len(h), l \notin T
      PROVE  LastIs(g, Len(g), l, v)
  <2>1. \A j \in (v + 1)..(Len(h) + 1) : j \in (v + 1)..p \/ j = Len(h) + 1
    BY <1>1, <1>2, <1>5
  <2>2. v \in 0..(Len(h) + 1)
    BY <1>1, <1>2, <1>5
  <2> QED
    BY <1>1, <1>4, <1>5, <2>1, <2>2 DEF LastIs
<1> QED
  BY <1>4, <1>5

\* A read returns the last write to the page; of the running write the pages
\* still to come do not count.
HistInv ==
  Live => \A l \in Lpns : LastIs(hist, IF l \in PendingPages THEN Issued - 1 ELSE Issued,
                                 l, ReadView(l))

\* Every step keeps HistInv.
LEMMA NextHist ==
  ASSUME TypeOK, EpochInv, SInv, BufInv, OneBuf', RunInv, HistInv, [Next]_vars
  PROVE  HistInv'
<1> SUFFICES ASSUME pc' # "recovered"
             PROVE  HistInv'
  BY DEF HistInv, Live
<1>0. pc # "recovered" /\ Live
  BY RecoveredStays DEF vars, Live
<1>t. hist \in Seq(SUBSET Lpns) /\ Issued \in Nat
  BY DEF TypeOK, Issued
<1>1. CASE Stays \/ Stores
  <2>1. \A l \in Lpns : ReadView(l)' = ReadView(l)
    BY <1>1, StaysView, StoresView DEF SInv, BufInv
  <2>2. CASE \E c \in WriteCmds : HostWrite(c[1], c[2])
    <3>1. PICK T \in SUBSET Lpns :
           /\ hist' = Append(hist, T) /\ T # {} /\ PendingPages' = T /\ PendingPages = {}
           /\ w'.span = Cardinality(T)
      BY <2>2, IssueIs
    <3>2. Issued' = Issued + 1
      BY <1>t, <3>1 DEF Issued
    <3>3. ASSUME NEW l \in Lpns
          PROVE  LastIs(hist', IF l \in PendingPages' THEN Issued' - 1 ELSE Issued', l, ReadView(l)')
      <4>1. LastIs(hist, Issued, l, ReadView(l))
        BY <1>0, <3>1 DEF HistInv
      <4>2. PICK v, g, p : v = ReadView(l) /\ g = hist' /\ p = Issued
        OBVIOUS
      <4>3. g = Append(hist, T) /\ p \in 0..Len(hist) /\ LastIs(hist, p, l, v)
        BY <1>t, <3>1, <4>1, <4>2 DEF Issued
      <4>4. /\ LastIs(g, p, l, v)
            /\ p = Len(hist) /\ l \notin T => LastIs(g, Len(g), l, v)
        BY <1>t, <4>3, LastAppend
      <4>5. Issued' - 1 = p /\ Issued' = Len(g) /\ p = Len(hist)
        BY <1>t, <3>2, <4>2 DEF Issued
      <4>6. ReadView(l)' = v
        BY <2>1, <4>2
      <4> QED
        BY <3>1, <4>2, <4>4, <4>5, <4>6
    <3> QED
      BY <3>3 DEF HistInv
  <2>3. CASE ~\E c \in WriteCmds : HostWrite(c[1], c[2])
    <3>1. UNCHANGED w \/ pc = "idle"
      BY <1>1 DEF Stays, Stores
    <3>2. hist' = hist /\ PendingPages' = PendingPages
      BY <1>0, <2>3, <3>1, SamePending
    <3>3. Issued' = Issued
      BY <3>2 DEF Issued
    <3>4. ASSUME NEW l \in Lpns
          PROVE  LastIs(hist', IF l \in PendingPages' THEN Issued' - 1 ELSE Issued', l, ReadView(l)')
      BY <1>0, <2>1, <3>2, <3>3 DEF HistInv
    <3> QED
      BY <3>4 DEF HistInv
  <2> QED
    BY <2>2, <2>3
<1>2. CASE Buffers
  <2>1. \A l \in Lpns : ReadView(l)' = IF l = w.lpn THEN g_epoch + 1 ELSE ReadView(l)
    BY <1>0, <1>2, BuffersView DEF SInv
  <2>2. Writing /\ w.lpn \in PendingPages /\ PendingPages' = PendingPages \ {w.lpn}
    BY <1>2, PutPending DEF Buffers
  <2>3. hist' = hist /\ Issued' = Issued
    <3>1. pc # "idle"
      BY <2>2 DEF Writing
    <3> QED
      BY <3>1, HistGrows DEF Issued
  <2>4. Issued = g_epoch + 1 /\ w.lpn \in hist[Issued]
    <3>1. PendingPages \subseteq hist[Issued]
      BY <1>0, <2>2 DEF RunInv
    <3> QED
      BY <2>2, <3>1, WritingEpoch
  <2>5. ASSUME NEW l \in Lpns
        PROVE  LastIs(hist', IF l \in PendingPages' THEN Issued' - 1 ELSE Issued', l, ReadView(l)')
    <3>1. CASE l = w.lpn
      <4>1. LastIs(hist, Issued, l, Issued)
        BY <1>t, <2>4, <3>1 DEF LastIs
      <4> QED
        BY <2>1, <2>2, <2>3, <2>4, <3>1, <4>1
    <3>2. CASE l # w.lpn
      <4>1. LastIs(hist, IF l \in PendingPages THEN Issued - 1 ELSE Issued, l, ReadView(l))
        BY <1>0 DEF HistInv
      <4>2. ReadView(l)' = ReadView(l) /\ (l \in PendingPages' <=> l \in PendingPages)
        BY <2>1, <2>2, <3>2
      <4> QED
        BY <2>3, <4>1, <4>2
    <3> QED
      BY <3>1, <3>2
  <2> QED
    BY <2>5 DEF HistInv
<1> QED
  BY <1>0, <1>1, <1>2, DataSteps DEF BufInv

\* After format every page reads as never written.
LEMMA InitHist ==
  ASSUME Init
  PROVE  HistInv /\ CutNat
<1>1. TypeOK /\ EpochInv /\ Live
  BY InitInv DEF IInv, Init, Live
<1>2. Issued = 0 /\ PendingPages = {}
  BY DEF Init, Issued, PendingPages, Writing
<1>3. \A l \in Lpns : ReadView(l) = 0
  <2> SUFFICES ASSUME NEW l \in Lpns
               PROVE  ReadView(l) = 0
    OBVIOUS
  <2>1. Hits(l) = {}
    <3>1. \A i \in Bufs : cache[Bank(l)][i] = NoEnt
      BY BankType DEF Init
    <3>2. l # NoEnt.lpn
      BY LpnNotNone DEF NoEnt
    <3> QED
      BY <3>1, <3>2 DEF Hits
  <2>2. pgmap[l] = NoPpn
    BY DEF Init
  <2> QED
    BY <2>1, <2>2 DEF ReadView
<1>4. HistInv
  <2>1. \A l \in Lpns : LastIs(hist, 0, l, 0)
    BY DEF LastIs
  <2> QED
    BY <1>2, <1>3, <2>1 DEF HistInv
<1>5. CutNat
  <2>1. CutInv
    BY <1>1, InitSpace, InitLogInv, InitScan, InitAcct DEF CutInv
  <2> QED
    BY <1>1, <2>1, CutRange DEF CutNat
<1> QED
  BY <1>4, <1>5

-----------------------------------------------------------------------------
(* The replay of the map entries.                                          *)

\* Of the entries of s for page l, i is the last; s has none.
LastEnt(s, l, i) ==
  i \in 1..Len(s) /\ s[i].lpn = l /\ \A j \in (i + 1)..Len(s) : s[j].lpn # l
Silent(s, l) == \A i \in 1..Len(s) : s[i].lpn # l

\* The same for the mapent pages of the log lg, up to page last.
LogEnt(lg, last, l, j, i) ==
  /\ j \in 1..last /\ lg[j].type = "mapent" /\ LastEnt(lg[j].ents, l, i)
  /\ \A k \in (j + 1)..last : lg[k].type = "mapent" => Silent(lg[k].ents, l)
LogSilent(lg, last, l) == \A k \in 1..last : lg[k].type = "mapent" => Silent(lg[k].ents, l)

\* A list of map entries has a last one for each page it names.
LEMMA EntExists ==
  ASSUME NEW s \in Seq(MapEnt), NEW l, ~Silent(s, l)
  PROVE  \E i : LastEnt(s, l, i)
<1>1. Len(s) \in Nat
  OBVIOUS
<1>2. PICK T : T = {i \in 1..Len(s) : s[i].lpn = l}
  OBVIOUS
<1>3. T \in SUBSET (0..Len(s)) /\ T # {}
  BY <1>1, <1>2 DEF Silent
<1>4. PICK i \in T : \A j \in T : j <= i
  BY <1>1, <1>3, Greatest
<1>5. LastEnt(s, l, i)
  BY <1>1, <1>2, <1>4 DEF LastEnt
<1> QED
  BY <1>5

\* The pages of the log with map entries.
LEMMA MapPages ==
  ASSUME NEW lg \in Seq(LogPage), NEW j \in 1..Len(lg), lg[j].type = "mapent"
  PROVE  /\ lg[j].ents \in Seq(MapEnt) /\ Len(lg[j].ents) \in Nat
         /\ DOMAIN lg[j].ents = 1..Len(lg[j].ents)
<1>1. lg[j] \in LogPage
  OBVIOUS
<1>2. lg[j].ents \in Seq(MapEnt)
  BY <1>1 DEF LogPage
<1> QED
  BY <1>2

\* So has the log.
LEMMA LogEntExists ==
  ASSUME NEW lg \in Seq(LogPage), NEW last \in 0..Len(lg), NEW l, ~LogSilent(lg, last, l)
  PROVE  \E j, i : LogEnt(lg, last, l, j, i)
<1>1. Len(lg) \in Nat /\ last \in Nat
  OBVIOUS
<1>2. PICK T : T = {k \in 1..last : lg[k].type = "mapent" /\ ~Silent(lg[k].ents, l)}
  OBVIOUS
<1>3. T \in SUBSET (0..last) /\ T # {}
  BY <1>1, <1>2 DEF LogSilent
<1>4. PICK j \in T : \A k \in T : k <= j
  BY <1>1, <1>3, Greatest
<1>5. j \in 1..last /\ j \in 1..Len(lg) /\ lg[j].type = "mapent" /\ ~Silent(lg[j].ents, l)
  BY <1>1, <1>2
<1>6. lg[j].ents \in Seq(MapEnt)
  BY <1>5, MapPages
<1>7. PICK i : LastEnt(lg[j].ents, l, i)
  BY <1>5, <1>6, EntExists
<1>8. \A k \in (j + 1)..last : lg[k].type = "mapent" => Silent(lg[k].ents, l)
  BY <1>1, <1>2, <1>4, <1>5
<1> QED
  BY <1>5, <1>7, <1>8 DEF LogEnt

\* The map entries of the log are known by page and place.
MapentIn(lg, last, x) ==
  \E j \in 1..last : \E i \in 1..Len(lg[j].ents) :
    lg[j].type = "mapent" /\ x = [at |-> <<j, i>>, ent |-> lg[j].ents[i]]

\* The definition of Mapents, as a fact about each of them.
LEMMA MapentsAre ==
  ASSUME NEW lg \in Seq(LogPage), NEW last \in 0..Len(lg), NEW x
  PROVE  x \in Mapents(lg, last) <=> MapentIn(lg, last, x)
<1>1. Len(lg) \in Nat /\ last \in Nat /\ DOMAIN lg = 1..Len(lg)
  OBVIOUS
<1>2. \A j : j \in {k \in DOMAIN lg : k <= last /\ lg[k].type = "mapent"}
               <=> j \in 1..last /\ lg[j].type = "mapent"
  BY <1>1
<1>3. \A j \in 1..last : lg[j].type = "mapent" => DOMAIN lg[j].ents = 1..Len(lg[j].ents)
  BY <1>1, MapPages
<1>4. x \in Mapents(lg, last) <=>
        \E j \in {k \in DOMAIN lg : k <= last /\ lg[k].type = "mapent"} :
           \E i \in DOMAIN lg[j].ents : x = [at |-> <<j, i>>, ent |-> lg[j].ents[i]]
  BY DEF Mapents
<1> QED
  BY <1>2, <1>3, <1>4 DEF MapentIn

\* The replay of the map entries takes the last one of each page, and what
\* the base has for a page without one.
LEMMA ReplayIs ==
  ASSUME NEW lg \in Seq(LogPage), NEW last \in 0..Len(lg), NEW base, NEW l \in Lpns
  PROVE  /\ LogSilent(lg, last, l) => ReplayMapents(lg, base, last)[l] = base[l]
         /\ \A j, i : LogEnt(lg, last, l, j, i) =>
                        ReplayMapents(lg, base, last)[l] = lg[j].ents[i].ppn
<1>1. PICK S : S = {x \in Mapents(lg, last) : x.ent.lpn = l}
  OBVIOUS
<1>2. ReplayMapents(lg, base, last)[l] = IF S = {} THEN base[l] ELSE LastOf(S).ent.ppn
  BY <1>1 DEF ReplayMapents
<1>3. \A x : x \in S <=> MapentIn(lg, last, x) /\ x.ent.lpn = l
  BY <1>1, MapentsAre
<1>4. Len(lg) \in Nat /\ last \in Nat
  OBVIOUS
<1>5. ASSUME LogSilent(lg, last, l)
      PROVE  S = {}
  <2> SUFFICES ASSUME NEW x \in S
               PROVE  FALSE
    OBVIOUS
  <2>1. PICK j \in 1..last : \E i \in 1..Len(lg[j].ents) :
           lg[j].type = "mapent" /\ x = [at |-> <<j, i>>, ent |-> lg[j].ents[i]]
    BY <1>3 DEF MapentIn
  <2>3. PICK i \in 1..Len(lg[j].ents) :
           lg[j].type = "mapent" /\ x = [at |-> <<j, i>>, ent |-> lg[j].ents[i]]
    BY <2>1
  <2>2. x.ent = lg[j].ents[i] /\ x.ent.lpn = l
    BY <1>3, <2>3
  <2> QED
    BY <1>5, <2>2, <2>3 DEF LogSilent, Silent
<1>6. ASSUME NEW j, NEW i, LogEnt(lg, last, l, j, i)
      PROVE  ReplayMapents(lg, base, last)[l] = lg[j].ents[i].ppn
  <2>1. PICK x : x = [at |-> <<j, i>>, ent |-> lg[j].ents[i]]
    OBVIOUS
  <2>2. /\ j \in 1..last /\ lg[j].type = "mapent" /\ i \in 1..Len(lg[j].ents)
        /\ lg[j].ents[i].lpn = l /\ j \in 1..Len(lg)
    BY <1>4, <1>6 DEF LogEnt, LastEnt
  <2>3. x \in S /\ x.at = <<j, i>> /\ x.ent = lg[j].ents[i]
    BY <1>3, <2>1, <2>2 DEF MapentIn
  <2>4. j \in Int /\ i \in Int /\ Len(lg[j].ents) \in Nat
    BY <1>4, <2>2, MapPages
  <2>5. ASSUME NEW y \in S
        PROVE  y = x \/ (Earlier(y.at, x.at) /\ ~Earlier(x.at, y.at))
    <3>0. PICK m \in 1..last : \E n \in 1..Len(lg[m].ents) :
             lg[m].type = "mapent" /\ y = [at |-> <<m, n>>, ent |-> lg[m].ents[n]]
      BY <1>3 DEF MapentIn
    <3>1. PICK n \in 1..Len(lg[m].ents) :
             lg[m].type = "mapent" /\ y = [at |-> <<m, n>>, ent |-> lg[m].ents[n]]
      BY <3>0
    <3>2. y.at = <<m, n>> /\ y.ent = lg[m].ents[n] /\ lg[m].ents[n].lpn = l
      BY <1>3, <3>1
    <3>3. m \in Int /\ n \in Int
      <4>1. m \in 1..Len(lg)
        BY <1>4
      <4>2. Len(lg[m].ents) \in Nat
        BY <3>1, <4>1, MapPages
      <4> QED
        BY <4>1, <4>2
    <3>4. ~(m > j)
      BY <1>4, <1>6, <2>2, <2>4, <3>1, <3>2, <3>3 DEF LogEnt, Silent
    <3>5. m = j => n <= i
      BY <1>6, <2>4, <3>1, <3>2, <3>3 DEF LogEnt, LastEnt
    <3>6. Earlier(<<m, n>>, <<j, i>>) <=> m < j \/ (m = j /\ n < i)
      BY <2>4, <3>3, Earlier2
    <3>7. Earlier(<<j, i>>, <<m, n>>) <=> j < m \/ (j = m /\ i < n)
      BY <2>4, <3>3, Earlier2
    <3>8. m = j /\ n = i => y = x
      BY <2>1, <3>1
    <3> QED
      BY <2>3, <2>4, <3>2, <3>3, <3>4, <3>5, <3>6, <3>7, <3>8
  <2>6. LastOf(S) = x
    BY <2>3, <2>5, LastOfIs
  <2> QED
    BY <1>2, <2>3, <2>6
<1> QED
  BY <1>2, <1>5, <1>6

-----------------------------------------------------------------------------
(* The current map, from map table, log and pending entries.               *)

\* The map m is what the entries of the log lg and the entries ms after them
\* make of the map base.
MapAt(lg, ms, base, m, l) ==
  /\ \A i : LastEnt(ms, l, i) => ms[i].ppn = m[l]
  /\ Silent(ms, l) => \A j, i : LogEnt(lg, Len(lg), l, j, i) => lg[j].ents[i].ppn = m[l]
  /\ Silent(ms, l) /\ LogSilent(lg, Len(lg), l) => base[l] = m[l]

\* A program changes the map and adds its entry.
LEMMA MapGrow ==
  ASSUME NEW lg, NEW ms \in Seq(MapEnt), NEW base, NEW m, NEW l, MapAt(lg, ms, base, m, l),
         NEW e \in MapEnt, NEW ns, ns = Append(ms, e), NEW n,
         e.lpn = l => n[l] = e.ppn, e.lpn # l => n[l] = m[l]
  PROVE  MapAt(lg, ns, base, n, l)
<1>1. /\ Len(ms) \in Nat /\ Len(ns) = Len(ms) + 1 /\ ns[Len(ms) + 1] = e
      /\ \A i \in 1..Len(ms) : ns[i] = ms[i]
  OBVIOUS
<1>2. CASE e.lpn = l
  <2>1. ~Silent(ns, l)
    BY <1>1, <1>2 DEF Silent
  <2>2. \A i : LastEnt(ns, l, i) => i = Len(ms) + 1
    BY <1>1, <1>2 DEF LastEnt
  <2> QED
    BY <1>1, <1>2, <2>1, <2>2 DEF MapAt
<1>3. CASE e.lpn # l
  <2>1. Silent(ns, l) <=> Silent(ms, l)
    BY <1>1, <1>3 DEF Silent
  <2>2. \A i : LastEnt(ns, l, i) => LastEnt(ms, l, i) /\ ns[i] = ms[i]
    BY <1>1, <1>3 DEF LastEnt
  <2> QED
    BY <1>3, <2>1, <2>2 DEF MapAt
<1> QED
  BY <1>2, <1>3

\* A page of another type adds no entry.
LEMMA MapOtherPage ==
  ASSUME NEW lg \in Seq(LogPage), NEW ms, NEW base, NEW m, NEW l, MapAt(lg, ms, base, m, l),
         NEW pg \in LogPage, pg.type # "mapent", NEW lh, lh = Append(lg, pg)
  PROVE  MapAt(lh, ms, base, m, l)
<1>1. /\ Len(lg) \in Nat /\ Len(lh) = Len(lg) + 1 /\ lh[Len(lg) + 1] = pg
      /\ \A i \in 1..Len(lg) : lh[i] = lg[i]
  OBVIOUS
<1>2. LogSilent(lh, Len(lh), l) => LogSilent(lg, Len(lg), l)
  BY <1>1 DEF LogSilent
<1>3. ASSUME NEW j, NEW i, LogEnt(lh, Len(lh), l, j, i)
      PROVE  LogEnt(lg, Len(lg), l, j, i) /\ lh[j] = lg[j]
  <2>1. j \in 1..Len(lg)
    BY <1>1, <1>3 DEF LogEnt
  <2>2. lh[j] = lg[j]
    BY <1>1, <2>1
  <2>3. \A k \in (j + 1)..Len(lg) : k \in (j + 1)..Len(lh) /\ lh[k] = lg[k]
    BY <1>1, <2>1
  <2> QED
    BY <1>3, <2>1, <2>2, <2>3 DEF LogEnt
<1>4. \A j, i : LogEnt(lh, Len(lh), l, j, i) => LogEnt(lg, Len(lg), l, j, i) /\ lh[j] = lg[j]
  BY <1>3
<1> HIDE DEF MapAt
<1>5. ASSUME Silent(ms, l), NEW j, NEW i, LogEnt(lh, Len(lh), l, j, i)
      PROVE  lh[j].ents[i].ppn = m[l]
  <2>1. LogEnt(lg, Len(lg), l, j, i) /\ lh[j] = lg[j]
    BY <1>4, <1>5
  <2>2. lg[j].ents[i].ppn = m[l]
    BY <1>5, <2>1 DEF MapAt
  <2> QED
    BY <2>1, <2>2
<1>6. Silent(ms, l) => \A j, i : LogEnt(lh, Len(lh), l, j, i) => lh[j].ents[i].ppn = m[l]
  BY <1>5
<1>7. \A i : LastEnt(ms, l, i) => ms[i].ppn = m[l]
  BY DEF MapAt
<1>8. Silent(ms, l) /\ LogSilent(lh, Len(lh), l) => base[l] = m[l]
  BY <1>2 DEF MapAt
<1> QED
  BY ONLY <1>6, <1>7, <1>8 DEF MapAt

\* Entries that go to the log stay the last ones.
LEMMA MapLogged ==
  ASSUME NEW lg \in Seq(LogPage), NEW ms \in Seq(MapEnt), NEW base, NEW m, NEW l,
         MapAt(lg, ms, base, m, l), NEW n \in 0..Len(ms),
         NEW pg \in LogPage, pg.type = "mapent", pg.ents = SubSeq(ms, 1, n),
         NEW lh, lh = Append(lg, pg), NEW ns, ns = SubSeq(ms, n + 1, Len(ms))
  PROVE  MapAt(lh, ns, base, m, l)
<1>1. /\ Len(lg) \in Nat /\ Len(lh) = Len(lg) + 1 /\ lh[Len(lg) + 1] = pg
      /\ \A i \in 1..Len(lg) : lh[i] = lg[i]
  OBVIOUS
<1>2. /\ Len(ms) \in Nat /\ n \in Nat /\ Len(ns) = Len(ms) - n
      /\ \A i \in 1..(Len(ms) - n) : ns[i] = ms[n + i]
  OBVIOUS
<1>3. Len(pg.ents) = n /\ \A i \in 1..n : pg.ents[i] = ms[i]
  OBVIOUS
<1>4. \A i \in (n + 1)..Len(ms) : ms[i] = ns[i - n] /\ i - n \in 1..Len(ns)
  <2> SUFFICES ASSUME NEW i \in (n + 1)..Len(ms)
               PROVE  ms[i] = ns[i - n] /\ i - n \in 1..Len(ns)
    OBVIOUS
  <2>1. i - n \in 1..(Len(ms) - n) /\ n + (i - n) = i
    BY <1>2
  <2>2. ns[i - n] = ms[n + (i - n)]
    BY <1>2, <2>1
  <2> QED
    BY <1>2, <2>1, <2>2
<1>5. ASSUME NEW i, LastEnt(ns, l, i)
      PROVE  ns[i].ppn = m[l]
  <2>0. i \in 1..Len(ns) /\ ns[i].lpn = l
    BY <1>5 DEF LastEnt
  <2>1. i \in 1..(Len(ms) - n) /\ ns[i] = ms[n + i] /\ n + i \in 1..Len(ms) /\ ms[n + i].lpn = l
    BY <1>2, <2>0
  <2>2. ASSUME NEW j \in (n + i + 1)..Len(ms)
        PROVE  ms[j].lpn # l
    <3>1. j \in (n + 1)..Len(ms) /\ j - n \in (i + 1)..Len(ns)
      BY <1>2, <2>1
    <3> QED
      BY <1>4, <1>5, <3>1 DEF LastEnt
  <2>3. LastEnt(ms, l, n + i)
    BY <2>1, <2>2 DEF LastEnt
  <2> QED
    BY <2>1, <2>3 DEF MapAt
<1>6. ASSUME Silent(ns, l)
      PROVE  \A j \in (n + 1)..Len(ms) : ms[j].lpn # l
  BY <1>4, <1>6 DEF Silent
<1>7. ASSUME Silent(ns, l), Silent(pg.ents, l)
      PROVE  Silent(ms, l)
  <2>1. \A j \in 1..Len(ms) : j \in 1..n \/ j \in (n + 1)..Len(ms)
    BY <1>2
  <2> QED
    BY <1>3, <1>6, <1>7, <2>1 DEF Silent
<1>8. ASSUME Silent(ns, l), NEW j, NEW i, LogEnt(lh, Len(lh), l, j, i)
      PROVE  lh[j].ents[i].ppn = m[l]
  <2>1. CASE j = Len(lg) + 1
    <3>1. LastEnt(pg.ents, l, i)
      BY <1>1, <1>8, <2>1 DEF LogEnt
    <3>2. i \in 1..n /\ ms[i].lpn = l /\ pg.ents[i] = ms[i]
      BY <1>3, <3>1 DEF LastEnt
    <3>3. ASSUME NEW k \in (i + 1)..Len(ms)
          PROVE  ms[k].lpn # l
      <4>1. k \in (i + 1)..n \/ k \in (n + 1)..Len(ms)
        BY <1>2, <3>2
      <4>2. CASE k \in (i + 1)..n
        <5>1. k \in 1..n
          BY <1>2, <3>2, <4>2
        <5> QED
          BY <1>3, <3>1, <4>2, <5>1 DEF LastEnt
      <4> QED
        BY <1>6, <1>8, <4>1, <4>2
    <3>4. LastEnt(ms, l, i)
      BY <1>2, <3>2, <3>3 DEF LastEnt
    <3> QED
      BY <1>1, <2>1, <3>2, <3>4 DEF MapAt
  <2>2. CASE j # Len(lg) + 1
    <3>1. j \in 1..Len(lg) /\ lh[j] = lg[j]
      BY <1>1, <1>8, <2>2 DEF LogEnt
    <3>2. Len(lg) + 1 \in (j + 1)..Len(lh)
      BY <1>1, <3>1
    <3>3. Silent(pg.ents, l)
      BY <1>1, <1>8, <3>2 DEF LogEnt
    <3>4. \A k \in (j + 1)..Len(lg) : k \in (j + 1)..Len(lh) /\ lh[k] = lg[k]
      BY <1>1, <3>1
    <3>5. LogEnt(lg, Len(lg), l, j, i)
      BY <1>8, <3>1, <3>4 DEF LogEnt
    <3> QED
      BY <1>7, <1>8, <3>1, <3>3, <3>5 DEF MapAt
  <2> QED
    BY <2>1, <2>2
<1>9. ASSUME Silent(ns, l), LogSilent(lh, Len(lh), l)
      PROVE  base[l] = m[l]
  <2>0. Len(lg) + 1 \in 1..Len(lh)
    BY <1>1
  <2>1. Silent(pg.ents, l)
    BY <1>1, <1>9, <2>0 DEF LogSilent
  <2>3. \A k \in 1..Len(lg) : k \in 1..Len(lh) /\ lh[k] = lg[k]
    BY <1>1
  <2>2. LogSilent(lg, Len(lg), l)
    BY <1>9, <2>3 DEF LogSilent
  <2> QED
    BY <1>7, <1>9, <2>1, <2>2 DEF MapAt
<1> QED
  BY <1>5, <1>8, <1>9 DEF MapAt

\* A new base is as good where it is the current map.
LEMMA MapBase ==
  ASSUME NEW lg, NEW ms, NEW base, NEW m, NEW l, MapAt(lg, ms, base, m, l),
         NEW new, new[l] = base[l] \/ new[l] = m[l]
  PROVE  MapAt(lg, ms, new, m, l)
BY DEF MapAt

\* Without entries the base is all there is.
LEMMA MapEmpty ==
  ASSUME NEW base, NEW m, NEW l, base[l] = m[l]
  PROVE  MapAt(<<>>, <<>>, base, m, l)
<1>1. Len(<<>>) = 0
  OBVIOUS
<1>2. \A i : ~LastEnt(<<>>, l, i)
  BY <1>1 DEF LastEnt
<1>3. \A j, i : ~LogEnt(<<>>, 0, l, j, i)
  BY DEF LogEnt
<1> QED
  BY <1>1, <1>2, <1>3 DEF MapAt

\* Map table, log and pending entries give the current map.
MapNow == Live => \A l \in Lpns : MapAt(log, mapents, Base, pgmap, l)

\* The steps by what they do to the map and its entries.
LEMMA MapSteps ==
  ASSUME TypeOK, SInv, [Next]_vars, pc # "recovered", pc' # "recovered"
  PROVE  \/ UNCHANGED <<mapents, pgmap, log, maps>>
         \/ \E b \in Banks, pg \in DataPage : \E released : Program(b, pg, released)
         \/ LogsDeps /\ UNCHANGED <<mapents, pgmap, maps>>
         \/ LogsMap
         \/ RecordTag \/ PersistMap \/ EraseMap \/ EraseLog
<1> USE DEF nand, wbuf, tables, chkpt, loops, gcvars, ghosts
<1>0. CacheHome
  BY DEF SInv
<1>1. ASSUME NEW b \in Banks, Dequeue(b)
      PROVE  \E c \in Banks, pg \in DataPage : \E released : Program(c, pg, released)
  <2>1. PICK i, e, pg : Dequeued(b, i, e, pg)
    BY <1>0, <1>1, DequeueIs
  <2> QED
    BY <2>1 DEF Dequeued
<1>2. ASSUME PoolWriteBuf
      PROVE  \/ UNCHANGED <<mapents, pgmap, log, maps>>
             \/ \E c \in Banks, pg \in DataPage : \E released : Program(c, pg, released)
  <2>1. pool \in Banks
    BY DEF TypeOK
  <2>2. CASE Dequeue(pool)
    BY <1>1, <2>1, <2>2
  <2>3. CASE EraseVt(pool)
    BY <2>3 DEF EraseVt
  <2> QED
    BY <1>2, <2>2, <2>3 DEF PoolWriteBuf
<1>3. CASE WriteStep
  <2>1. CASE WritePool \/ CleanPool
    BY <1>2, <2>1 DEF WritePool, CleanPool
  <2>2. CASE LookupMiss \/ LookupHit \/ CleanFound \/ Written
    BY <2>2 DEF LookupMiss, LookupHit, CleanFound, Written
  <2>3. CASE DepFull
    BY <2>3 DEF DepFull, RecordDepent, LogsDeps
  <2> QED
    BY <1>3, <2>1, <2>2, <2>3 DEF WriteStep
<1>4. CASE FlushStep
  <2>1. CASE FlushDeps
    BY <2>1 DEF FlushDeps, RecordDepent, LogsDeps
  <2>2. CASE FlushAgain \/ FlushDone
    BY <2>2 DEF FlushAgain, FlushDone
  <2>3. CASE FlushBank
    <3>1. CASE Dequeue(bank)
      <4>1. bank \in Banks
        <5>1. bank \in 0..NumBanks /\ bank < NumBanks /\ NumBanks \in Nat
          BY <2>3, RecoveryAssumption DEF FlushBank, TypeOK
        <5> QED
          BY <5>1 DEF Banks
      <4> QED
        BY <1>1, <3>1, <4>1
    <3>2. CASE ~Dequeue(bank)
      BY <2>3, <3>2 DEF FlushBank
    <3> QED
      BY <3>1, <3>2
  <2> QED
    BY <1>4, <2>1, <2>2, <2>3 DEF FlushStep
<1>5. CASE GcStep
  <2>1. CASE GcCopy
    <3>1. PICK p, pg : Copied(bank, p, pg)
      BY <2>1, GcCopyIs
    <3> QED
      BY <3>1 DEF Copied
  <2>2. CASE GcSkip \/ GcBegin \/ GcEnd \/ GcRound
    BY <2>2 DEF GcSkip, GcBegin, GcEnd, GcRound
  <2> QED
    BY <1>5, <2>1, <2>2 DEF GcStep
<1>6. CASE ChkptStep
  BY <1>6 DEF ChkptStep, RecordMapent, LogsMap
<1>7. CASE SummaryPage
  BY <1>7 DEF SummaryPage
<1>8. CASE PoolStep
  BY <1>2, <1>8 DEF PoolStep
<1>9. CASE \/ HostFlush \/ IdlePool \/ Timer
           \/ \E c \in WriteCmds : HostWrite(c[1], c[2])
  BY <1>9 DEF HostFlush, IdlePool, Timer, HostWrite
<1>10. CASE UNCHANGED vars
  BY <1>10 DEF vars
<1>11. CASE CrashAndRecover
  BY <1>11 DEF CrashAndRecover
<1> QED
  BY <1>3, <1>4, <1>5, <1>6, <1>7, <1>8, <1>9, <1>10, <1>11 DEF Next, FtlStep

\* record_mapent moves a page of entries.
LEMMA LogsMapIs ==
  ASSUME TypeOK, LogsMap
  PROVE  \E n \in 0..Len(mapents), pg \in LogPage :
           /\ pg.type = "mapent" /\ pg.ents = SubSeq(mapents, 1, n)
           /\ log' = Append(log, pg) /\ mapents' = SubSeq(mapents, n + 1, Len(mapents))
           /\ UNCHANGED <<pgmap, maps>>
<1>1. PICK n : n = IF Len(mapents) < MapentsPerPage THEN Len(mapents) ELSE MapentsPerPage
  OBVIOUS
<1>2. mapents \in Seq(MapEnt) /\ Len(mapents) \in Nat
  BY DEF TypeOK
<1>3. n \in 0..Len(mapents)
  BY <1>1, <1>2, FtlAssumption
<1>4. PICK s : s = SubSeq(mapents, 1, n)
  OBVIOUS
<1>5. s \in Seq(MapEnt)
  BY <1>2, <1>3, <1>4
<1>6. [type |-> "mapent", ents |-> s] \in LogPage
  BY <1>5 DEF LogPage
<1>7. /\ log' = Append(log, [type |-> "mapent", ents |-> s])
      /\ mapents' = SubSeq(mapents, n + 1, Len(mapents))
  BY <1>1, <1>4 DEF LogsMap, RecordMapent, MapentRest
<1>8. UNCHANGED <<pgmap, maps>>
  BY DEF LogsMap, RecordMapent, tables
<1> QED
  BY <1>3, <1>4, <1>6, <1>7, <1>8

\* A new map table holds the map, or replaces one that did, or none.
LEMMA PersistBase ==
  ASSUME TypeOK, EpochInv, LogInv, FlushInv, PersistMap, NEW l \in Lpns
  PROVE  Base'[l] = Base[l] \/ Base'[l] = pgmap[l]
<1>1. /\ mapIdx \in {0, 1} /\ maps \in [{0, 1} -> MapTable] /\ pgmap \in [Lpns -> PpnOpt]
      /\ g_epoch \in Epochs
  BY DEF TypeOK, PersistMap
<1>2. maps[mapIdx].epoch = 0
  BY DEF LogInv, Live, MapsInv, PersistMap
<1>3. /\ maps' = [maps EXCEPT ![mapIdx] = [epoch |-> EpochPred(g_epoch), map |-> pgmap]]
      /\ pgmap' = pgmap
  BY DEF PersistMap, tables
<1>4. maps'[mapIdx].map = pgmap /\ maps'[1 - mapIdx] = maps[1 - mapIdx]
  BY <1>1, <1>3
<1>5. \A i \in {0, 1} : maps[i].epoch \in Nat
  BY <1>1 DEF MapTable, Epochs
<1>6. maps'[mapIdx].epoch = EpochPred(g_epoch)
  BY <1>1, <1>3
<1>7. EpochPred(g_epoch) \in Nat
  BY <1>1, EpochSteps DEF Epochs
<1>8. CASE RestoredMap(maps') = maps'[mapIdx]
  BY <1>4, <1>8 DEF Base
<1>9. CASE RestoredMap(maps') # maps'[mapIdx]
  <2>1. PICK new : new = maps'
    OBVIOUS
  <2>2. /\ new[mapIdx].epoch \in Nat /\ new[1 - mapIdx] = maps[1 - mapIdx]
        /\ RestoredMap(new) # new[mapIdx]
    BY <1>4, <1>6, <1>7, <1>9, <2>1
  <2>3. ASSUME mapIdx = 0
        PROVE  RestoredMap(new) = RestoredMap(maps)
    <3>1. 1 - mapIdx = 1
      BY <2>3
    <3>2. new[1] = maps[1] /\ maps[0].epoch = 0 /\ maps[1].epoch \in Nat
      BY <1>2, <1>5, <2>2, <2>3, <3>1
    <3>3. RestoredMap(new) = RestoredMap(maps)
      BY <2>2, <2>3, <3>2 DEF RestoredMap
    <3> QED
      BY <3>3
  <2>5. ASSUME mapIdx = 1
        PROVE  RestoredMap(new) = RestoredMap(maps)
    <3>1. 1 - mapIdx = 0
      BY <2>5
    <3>2. new[0] = maps[0] /\ maps[1].epoch = 0 /\ maps[0].epoch \in Nat
      BY <1>2, <1>5, <2>2, <2>5, <3>1
    <3>3. RestoredMap(new) = RestoredMap(maps)
      BY <2>2, <2>5, <3>2 DEF RestoredMap
    <3> QED
      BY <3>3
  <2>4. RestoredMap(maps') = RestoredMap(maps)
    BY <1>1, <2>1, <2>3, <2>5
  <2> QED
    BY <2>4 DEF Base
<1> QED
  BY <1>8, <1>9

\* The map table that is left is one that has the current map.
LEMMA EraseMapBase ==
  ASSUME TypeOK, EpochInv, LogInv, TagInv, EraseMap, NEW l \in Lpns
  PROVE  Base'[l] = Base[l] \/ Base'[l] = pgmap[l]
<1>1. /\ mapIdx \in {0, 1} /\ maps \in [{0, 1} -> MapTable] /\ pgmap \in [Lpns -> PpnOpt]
      /\ g_epoch \in Epochs
  BY DEF TypeOK, EraseMap
<1>2. maps[1 - mapIdx].map = pgmap
  BY DEF LogInv, Live, MapsInv, EraseMap
<1>3. maps[1 - mapIdx].epoch = EpochPred(g_epoch)
  BY DEF TagInv, EraseMap
<1>4. maps' = [maps EXCEPT ![mapIdx] = NoMap]
  BY DEF EraseMap
<1>5. maps'[mapIdx] = NoMap /\ maps'[1 - mapIdx] = maps[1 - mapIdx] /\ NoMap.epoch = 0
  BY <1>1, <1>4 DEF NoMap
<1>6. \A i \in {0, 1} : maps[i].epoch \in Nat
  BY <1>1 DEF MapTable, Epochs
<1>7. CASE maps[1 - mapIdx].epoch = 0
  <2>1. g_epoch = 1
    <3>1. EpochMod \in Nat /\ EpochMod > 3 /\ g_epoch \in Nat
      BY <1>1, RecoveryAssumption DEF Epochs
    <3> QED
      BY <1>3, <1>7, <3>1 DEF EpochPred
  <2>2. \A i \in {0, 1} : maps[i].epoch = 0
    BY <2>1 DEF LogInv, Live, MapAge, EraseMap
  <2>3. RestoredMap(maps) = NoMap
    BY <2>2 DEF RestoredMap
  <2>4. RestoredMap(maps') = NoMap
    BY <1>1, <1>5, <1>7 DEF RestoredMap
  <2> QED
    BY <2>3, <2>4 DEF Base
<1>8. CASE maps[1 - mapIdx].epoch # 0
  <2>1. RestoredMap(maps') = maps'[1 - mapIdx]
    BY <1>1, <1>5, <1>6, <1>8 DEF RestoredMap
  <2> QED
    BY <1>2, <1>5, <2>1 DEF Base
<1> QED
  BY <1>7, <1>8

\* Every step keeps MapNow.
LEMMA NextMap ==
  ASSUME TypeOK, TypeOK', EpochInv, SInv, FlushInv, TagInv, LogInv, RoomLeft, MapNow, [Next]_vars
  PROVE  MapNow'
<1> SUFFICES ASSUME Live', NEW l \in Lpns
             PROVE  MapAt(log', mapents', Base', pgmap', l)
  BY DEF MapNow
<1>1. pc # "recovered" /\ pc' # "recovered"
  BY RecoveredStays DEF Live, vars
<1>2. /\ log \in Seq(LogPage) /\ mapents \in Seq(MapEnt) /\ MapAt(log, mapents, Base, pgmap, l)
      /\ pgmap \in [Lpns -> PpnOpt]
  BY <1>1 DEF TypeOK, MapNow, Live
<1>3. CASE UNCHANGED <<mapents, pgmap, log, maps>>
  BY <1>2, <1>3 DEF Base
<1>4. ASSUME NEW b \in Banks, NEW pg \in DataPage, NEW released, Program(b, pg, released)
      PROVE  MapAt(log', mapents', Base', pgmap', l)
  <2>1. PICK e : e = [lpn |-> pg.lpn, ppn |-> active[b]]
    OBVIOUS
  <2>2. pg.lpn \in Lpns /\ active[b] \in Ppn
    BY FullType DEF DataPage
  <2>3. e \in MapEnt /\ e.lpn = pg.lpn /\ e.ppn = active[b]
    BY <2>1, <2>2 DEF MapEnt
  <2>4. /\ mapents' = Append(mapents, e) /\ log' = log /\ maps' = maps
        /\ pgmap' = [pgmap EXCEPT ![pg.lpn] = active[b]]
    BY <1>4, <2>1 DEF Program
  <2>5. pg.lpn = l => pgmap'[l] = active[b]
    BY <1>2, <2>4
  <2>6. pg.lpn # l => pgmap'[l] = pgmap[l]
    BY <1>2, <2>4
  <2>7. Base' = Base
    BY <2>4 DEF Base
  <2>8. PICK m, ms : m = pgmap' /\ ms = mapents'
    OBVIOUS
  <2>9. MapAt(log, ms, Base, m, l)
    <3>1. ms = Append(mapents, e)
      BY <2>4, <2>8
    <3>2. e.lpn = l => m[l] = e.ppn
      BY <2>3, <2>5, <2>8
    <3>3. e.lpn # l => m[l] = pgmap[l]
      BY <2>3, <2>6, <2>8
    <3> HIDE <2>8
    <3> QED
      BY <1>2, <2>3, <3>1, <3>2, <3>3, MapGrow
  <2> QED
    BY <2>4, <2>7, <2>8, <2>9
<1>5. ASSUME NEW pg \in LogPage, pg.type # "mapent", log' = Append(log, pg),
             UNCHANGED <<mapents, pgmap, maps>>
      PROVE  MapAt(log', mapents', Base', pgmap', l)
  <2>1. PICK lh : lh = Append(log, pg)
    OBVIOUS
  <2>2. MapAt(lh, mapents, Base, pgmap, l)
    BY <1>2, <1>5, <2>1, MapOtherPage
  <2> QED
    BY <1>5, <2>1, <2>2 DEF Base
<1>6. CASE LogsDeps /\ UNCHANGED <<mapents, pgmap, maps>>
  <2>1. PICK pg : pg = [type |-> "depent", ents |-> deps]
    OBVIOUS
  <2>2. pg \in LogPage /\ pg.type # "mapent"
    BY <2>1 DEF LogPage, TypeOK
  <2>3. log' = Append(log, pg)
    BY <1>6, <2>1 DEF LogsDeps
  <2> QED
    BY <1>5, <1>6, <2>2, <2>3
<1>7. CASE RecordTag
  <2>1. PICK pg \in LogPage : log' = Append(log, pg) /\ pg.type = "tag"
    BY <1>7, RecordTagLog
  <2>2. UNCHANGED <<mapents, pgmap, maps>>
    BY <1>7 DEF RecordTag, chkpt
  <2> QED
    BY <1>5, <2>1, <2>2
<1>8. CASE LogsMap
  <2>1. PICK n \in 0..Len(mapents) : \E pg \in LogPage :
           /\ pg.type = "mapent" /\ pg.ents = SubSeq(mapents, 1, n)
           /\ log' = Append(log, pg) /\ mapents' = SubSeq(mapents, n + 1, Len(mapents))
           /\ UNCHANGED <<pgmap, maps>>
    BY <1>8, LogsMapIs
  <2>2. PICK pg \in LogPage :
           /\ pg.type = "mapent" /\ pg.ents = SubSeq(mapents, 1, n)
           /\ log' = Append(log, pg) /\ mapents' = SubSeq(mapents, n + 1, Len(mapents))
           /\ UNCHANGED <<pgmap, maps>>
    BY <2>1
  <2>3. PICK lh, ns : lh = Append(log, pg) /\ ns = SubSeq(mapents, n + 1, Len(mapents))
    OBVIOUS
  <2>4. MapAt(lh, ns, Base, pgmap, l)
    BY <1>2, <2>2, <2>3, MapLogged
  <2> QED
    BY <2>2, <2>3, <2>4 DEF Base
<1>9. ASSUME Base'[l] = Base[l] \/ Base'[l] = pgmap[l], UNCHANGED <<log, mapents, pgmap>>
      PROVE  MapAt(log', mapents', Base', pgmap', l)
  <2>1. PICK new : new = Base'
    OBVIOUS
  <2>2. MapAt(log, mapents, new, pgmap, l)
    BY <1>2, <1>9, <2>1, MapBase
  <2> QED
    BY <1>9, <2>1, <2>2
<1>10. CASE PersistMap
  <2>1. UNCHANGED <<log, mapents, pgmap>>
    BY <1>10 DEF PersistMap, tables, chkpt
  <2>2. Base'[l] = Base[l] \/ Base'[l] = pgmap[l]
    BY <1>10, PersistBase
  <2> QED
    BY <1>9, <2>1, <2>2
<1>11. CASE EraseMap
  <2>1. UNCHANGED <<log, mapents, pgmap>>
    BY <1>11 DEF EraseMap, tables, chkpt
  <2>2. Base'[l] = Base[l] \/ Base'[l] = pgmap[l]
    BY <1>11, EraseMapBase
  <2> QED
    BY <1>9, <2>1, <2>2
<1>12. CASE EraseLog
  <2>1. MapsInv
    BY <1>1 DEF LogInv, Live
  <2>2. /\ log' = <<>> /\ Base = pgmap /\ UNCHANGED <<maps, pgmap, mapents>>
    BY <1>12, <2>1, EraseLogFacts
  <2>3. mapents = <<>>
    BY <1>12 DEF FlushInv, EraseLog
  <2>4. MapAt(<<>>, <<>>, Base, pgmap, l)
    BY <2>2, MapEmpty
  <2> QED
    BY <2>2, <2>3, <2>4 DEF Base
<1> QED
  BY <1>1, <1>3, <1>4, <1>6, <1>7, <1>8, <1>10, <1>11, <1>12, MapSteps

\* After format no page is mapped.
LEMMA InitMap ==
  ASSUME Init
  PROVE  MapNow
<1> SUFFICES ASSUME NEW l \in Lpns
             PROVE  MapAt(log, mapents, Base, pgmap, l)
  BY DEF MapNow
<1>1. mapents = <<>> /\ pgmap[l] = NoPpn /\ log = <<Tag(0, active)>>
  BY DEF Init
<1>2. Base[l] = NoPpn
  BY DEF Base, RestoredMap, NoMap, Init
<1>3. Len(log) = 1 /\ log[1].type = "tag" /\ Len(mapents) = 0
  BY <1>1 DEF Tag
<1>4. \A i : ~LastEnt(mapents, l, i)
  BY <1>3 DEF LastEnt
<1>5. \A j, i : ~LogEnt(log, Len(log), l, j, i)
  BY <1>3 DEF LogEnt
<1> QED
  BY <1>1, <1>2, <1>4, <1>5 DEF MapAt

\* The map as of the last tag, and with the copies made since.
Replayed == ReplayMapents(log, Base, From)
Redone   == RemapCopies(Replayed, Scan)

\* The log with a page pg more.
OnePageMore(lg, pg, lh) ==
  /\ lh \in Seq(LogPage) /\ Len(lh) = Len(lg) + 1 /\ lh[Len(lg) + 1] = pg
  /\ \A i \in 1..Len(lg) : lh[i] = lg[i]

\* The replay of a log to which the pending entries are added.
LEMMA MapAtEnd ==
  ASSUME NEW lg \in Seq(LogPage), NEW ms \in Seq(MapEnt), NEW base, NEW m, NEW l \in Lpns,
         MapAt(lg, ms, base, m, l), NEW pg \in LogPage, pg.type = "mapent", pg.ents = ms,
         NEW lh, OnePageMore(lg, pg, lh)
  PROVE  ReplayMapents(lh, base, Len(lg) + 1)[l] = m[l]
<1>1. /\ Len(lg) \in Nat /\ Len(lh) = Len(lg) + 1 /\ lh[Len(lg) + 1] = pg
      /\ \A i \in 1..Len(lg) : lh[i] = lg[i]
      /\ lh \in Seq(LogPage)
  BY DEF OnePageMore
<1>2. PICK last : last = Len(lg) + 1
  OBVIOUS
<1>3. /\ LogSilent(lh, last, l) => ReplayMapents(lh, base, last)[l] = base[l]
      /\ \A j, i : LogEnt(lh, last, l, j, i) => ReplayMapents(lh, base, last)[l] = lh[j].ents[i].ppn
  <2>1. last \in 0..Len(lh)
    BY <1>1, <1>2
  <2> HIDE <1>2
  <2> QED
    BY <1>1, <2>1, ReplayIs
<1>4. CASE ~Silent(ms, l)
  <2>1. PICK i : LastEnt(ms, l, i)
    BY <1>4, EntExists
  <2>2. LogEnt(lh, last, l, last, i)
    BY <1>1, <1>2, <2>1 DEF LogEnt
  <2>3. ms[i].ppn = m[l]
    BY <2>1 DEF MapAt
  <2> QED
    BY <1>1, <1>2, <1>3, <2>2, <2>3
<1>5. CASE Silent(ms, l) /\ ~LogSilent(lg, Len(lg), l)
  <2>1. PICK j, i : LogEnt(lg, Len(lg), l, j, i)
    <3>1. Len(lg) \in 0..Len(lg)
      BY <1>1
    <3> QED
      BY <1>5, <3>1, LogEntExists
  <2>2. j \in 1..Len(lg) /\ lh[j] = lg[j]
    BY <1>1, <2>1 DEF LogEnt
  <2>3. \A k \in (j + 1)..last : (k \in (j + 1)..Len(lg) /\ lh[k] = lg[k]) \/ lh[k] = pg
    BY <1>1, <1>2, <2>2
  <2>4. LogEnt(lh, last, l, j, i)
    <3>1. j \in 1..last
      BY <1>1, <1>2, <2>2
    <3>2. \A k \in (j + 1)..last : lh[k].type = "mapent" => Silent(lh[k].ents, l)
      BY <1>5, <2>1, <2>3 DEF LogEnt
    <3>3. lh[j].type = "mapent" /\ LastEnt(lh[j].ents, l, i)
      BY <2>1, <2>2 DEF LogEnt
    <3> QED
      BY ONLY <3>1, <3>2, <3>3 DEF LogEnt
  <2>5. lg[j].ents[i].ppn = m[l]
    BY <1>5, <2>1 DEF MapAt
  <2> QED
    BY <1>2, <1>3, <2>2, <2>4, <2>5
<1>6. CASE Silent(ms, l) /\ LogSilent(lg, Len(lg), l)
  <2>1. \A k \in 1..last : (k \in 1..Len(lg) /\ lh[k] = lg[k]) \/ lh[k] = pg
    BY <1>1, <1>2
  <2>2. LogSilent(lh, last, l)
    BY <1>6, <2>1 DEF LogSilent
  <2>3. base[l] = m[l]
    BY <1>6 DEF MapAt
  <2> QED
    BY <1>2, <1>3, <2>2, <2>3
<1> QED
  BY <1>4, <1>5, <1>6

\* Hence nothing is missing.
LEMMA NowComplete == TypeOK /\ MapNow => MapentsComplete
<1> SUFFICES ASSUME TypeOK, MapNow, pc # "recovered"
             PROVE  ReplayMapents(Append(log, [type |-> "mapent", ents |-> mapents]), Base,
                                  Len(log) + 1) = pgmap
  BY DEF MapentsComplete, Base
<1>1. PICK pg : pg = [type |-> "mapent", ents |-> mapents]
  OBVIOUS
<1>2. /\ log \in Seq(LogPage) /\ mapents \in Seq(MapEnt) /\ pgmap \in [Lpns -> PpnOpt]
  BY DEF TypeOK
<1>3. pg \in LogPage /\ pg.type = "mapent" /\ pg.ents = mapents
  BY <1>1, <1>2 DEF LogPage
<1>4. PICK lh : lh = Append(log, pg)
  OBVIOUS
<1>5. \A l \in Lpns : ReplayMapents(lh, Base, Len(log) + 1)[l] = pgmap[l]
  <2> SUFFICES ASSUME NEW l \in Lpns
               PROVE  ReplayMapents(lh, Base, Len(log) + 1)[l] = pgmap[l]
    OBVIOUS
  <2>1. MapAt(log, mapents, Base, pgmap, l)
    BY DEF MapNow, Live
  <2>2. OnePageMore(log, pg, lh)
    BY <1>2, <1>3, <1>4 DEF OnePageMore
  <2> HIDE <1>1, <1>4
  <2> QED
    BY <1>2, <1>3, <2>1, <2>2, MapAtEnd
<1>6. PICK r : r = ReplayMapents(lh, Base, Len(log) + 1)
  OBVIOUS
<1>7. r = [l \in Lpns |-> r[l]]
  BY <1>6 DEF ReplayMapents
<1>8. \A l \in Lpns : r[l] = pgmap[l]
  BY <1>5, <1>6
<1>9. r = pgmap
  BY <1>2, <1>7, <1>8
<1> QED
  BY <1>1, <1>4, <1>6, <1>9

\* The replay depends on the log up to the tag only.
LEMMA ReplayPrefix ==
  ASSUME NEW lg \in Seq(LogPage), NEW lh \in Seq(LogPage), NEW last \in 0..Len(lg),
         Len(lg) <= Len(lh), \A j \in 1..last : lh[j] = lg[j], NEW base
  PROVE  ReplayMapents(lh, base, last) = ReplayMapents(lg, base, last)
<1>1. Len(lg) \in Nat /\ Len(lh) \in Nat /\ last \in 0..Len(lh)
  OBVIOUS
<1>2. ASSUME NEW x
      PROVE  x \in Mapents(lh, last) <=> x \in Mapents(lg, last)
  <2>1. x \in Mapents(lh, last) <=> MapentIn(lh, last, x)
    BY <1>1, MapentsAre
  <2>2. x \in Mapents(lg, last) <=> MapentIn(lg, last, x)
    BY MapentsAre
  <2>3. MapentIn(lh, last, x) <=> MapentIn(lg, last, x)
    BY DEF MapentIn
  <2> QED
    BY <2>1, <2>2, <2>3
<1>3. Mapents(lh, last) = Mapents(lg, last)
  BY <1>2
<1> QED
  BY <1>3 DEF ReplayMapents

\* After a tag and nothing else, the replay of the log gives the map.
LEMMA FreshRedone ==
  ASSUME TypeOK, LogInv, FreshScan, MapNow, Live, Tagged, Saved = Issued, NEW l \in Lpns
  PROVE  Redone[l] = pgmap[l]
<1>1. /\ log \in Seq(LogPage) /\ From \in 1..Len(log) /\ Len(log) \in Nat
  BY SavedType DEF TypeOK
<1>2. /\ mapents = <<>> /\ Scan = {}
      /\ \A j \in DOMAIN log : j > From => log[j].type = "tag"
  BY DEF LogInv, FreshTail, FreshScan
<1>3. MapAt(log, mapents, Base, pgmap, l)
  BY DEF MapNow
<1>4. Silent(mapents, l)
  BY <1>2 DEF Silent
<1>5. \A k \in (From + 1)..Len(log) : log[k].type # "mapent"
  BY <1>1, <1>2
<1>6. From \in 0..Len(log)
  BY <1>1
<1>7. PICK last : last = From
  OBVIOUS
<1>8. /\ LogSilent(log, last, l) => ReplayMapents(log, Base, last)[l] = Base[l]
      /\ \A j, i : LogEnt(log, last, l, j, i) => ReplayMapents(log, Base, last)[l] = log[j].ents[i].ppn
  <2>1. last \in 0..Len(log)
    BY <1>6, <1>7
  <2> HIDE <1>7
  <2> QED
    BY <1>1, <2>1, ReplayIs
<1>9. Replayed[l] = pgmap[l]
  <2>1. CASE LogSilent(log, last, l)
    <3>1. \A k \in 1..Len(log) : k \in 1..last \/ k \in (From + 1)..Len(log)
      BY <1>1, <1>7
    <3>2. LogSilent(log, Len(log), l)
      BY <1>5, <2>1, <3>1 DEF LogSilent
    <3>3. Base[l] = pgmap[l]
      BY <1>3, <1>4, <3>2 DEF MapAt
    <3> QED
      BY <1>7, <1>8, <2>1, <3>3 DEF Replayed
  <2>2. CASE ~LogSilent(log, last, l)
    <3>1. PICK j, i : LogEnt(log, last, l, j, i)
      BY <1>1, <1>6, <1>7, <2>2, LogEntExists
    <3>2. j \in 1..Len(log) /\ j <= From
      BY <1>1, <1>7, <3>1 DEF LogEnt
    <3>3. \A k \in (j + 1)..Len(log) : k \in (j + 1)..last \/ k \in (From + 1)..Len(log)
      BY <1>1, <1>7, <3>2
    <3>4. LogEnt(log, Len(log), l, j, i)
      <4>1. \A k \in (j + 1)..Len(log) : log[k].type = "mapent" => Silent(log[k].ents, l)
        BY <1>5, <3>1, <3>3 DEF LogEnt
      <4> QED
        BY <3>1, <3>2, <4>1 DEF LogEnt
    <3>5. log[j].ents[i].ppn = pgmap[l]
      BY <1>3, <1>4, <3>4 DEF MapAt
    <3> QED
      BY <1>7, <1>8, <3>1, <3>5 DEF Replayed
  <2> QED
    BY <2>1, <2>2
<1> QED
  BY <1>2, <1>9 DEF Redone, RemapCopies

-----------------------------------------------------------------------------
(* Where recovery finds what the tag covers.                               *)

\* What the page at m says of the logical page l, and that it is there.
Holds(fl, l, m) ==
  IF m = NoPpn THEN 0
  ELSE LET p == fl[Bank(l)][m.blk].pages
       IN  IF m.page < Len(p) THEN p[m.page + 1].ver ELSE Garbage

\* An entry of a map leads to a page that is there.
InPlace(fl, r, l, m) ==
  m # NoPpn => /\ m.blk \in Blks /\ m.page \in Nat /\ m.blk # r[Bank(l)].vt
               /\ m.page < Len(fl[Bank(l)][m.blk].pages)

\* It leads to what the first k writes left of page l.
Intact(fl, r, h, k, l, m) == InPlace(fl, r, l, m) /\ LastIs(h, k, l, Holds(fl, l, m))

\* A page that was written since the tag; and by a write recovery keeps.
Rewritten(S, l) == \E x \in S : x.pg.lpn = l /\ x.pg.epoch # GcTag
Overtaken(S, l, c) == \E x \in S : x.pg.lpn = l /\ x.pg.epoch # GcTag /\ x.pg.epoch < c

\* A page not written since the tag is where the replay finds it; one that
\* was is at a place the scan comes to; and the old place is intact or not
\* needed, as recovery keeps a later write to the page.
OldOk(l) ==
  /\ ~Rewritten(Scan, l) => pgmap[l] = Redone[l]
  /\ Rewritten(Scan, l) => \E x \in Scan : x.pg.lpn = l /\ x.ppn = pgmap[l]
  /\ Intact(flash, ring, hist, Saved, l, Redone[l]) \/ Overtaken(Scan, l, Cut)

\* That holds for every page.
OldInv == Live /\ Tagged => \A l \in Lpns : OldOk(l)

\* Stored, of the current map.
LEMMA StoredIs ==
  ASSUME NEW l
  PROVE  Stored(l) = Holds(flash, l, pgmap[l])
BY DEF Stored, Holds

\* A copy moves the page copied.
LEMMA CopyMoves ==
  ASSUME NEW S, NEW map, NEW x, Latest(S, x), NEW T, T = S \cup {x}, NEW l \in Lpns
  PROVE  /\ x.pg.lpn = l /\ x.pg.epoch = GcTag => RemapCopies(map, T)[l] = x.ppn
         /\ ~(x.pg.lpn = l /\ x.pg.epoch = GcTag) => RemapCopies(map, T)[l] = RemapCopies(map, S)[l]
<1>1. PICK A, B : /\ A = {y \in S : y.pg.lpn = l /\ y.pg.epoch = GcTag}
                  /\ B = {y \in T : y.pg.lpn = l /\ y.pg.epoch = GcTag}
  OBVIOUS
<1>2. /\ RemapCopies(map, T)[l] = IF B = {} THEN map[l] ELSE LastOf(B).ppn
      /\ RemapCopies(map, S)[l] = IF A = {} THEN map[l] ELSE LastOf(A).ppn
  BY <1>1 DEF RemapCopies
<1>3. ASSUME x.pg.lpn = l, x.pg.epoch = GcTag
      PROVE  RemapCopies(map, T)[l] = x.ppn
  <2>1. x \in B /\ B # {}
    BY <1>1, <1>3
  <2>2. \A y \in B : y = x \/ (Earlier(y.at, x.at) /\ ~Earlier(x.at, y.at))
    BY <1>1, <1>3 DEF Latest
  <2>3. LastOf(B) = x
    BY <2>1, <2>2, LastOfIs
  <2> QED
    BY <1>2, <2>1, <2>3
<1>4. ASSUME ~(x.pg.lpn = l /\ x.pg.epoch = GcTag)
      PROVE  RemapCopies(map, T)[l] = RemapCopies(map, S)[l]
  <2>1. A = B
    BY <1>1, <1>4
  <2> QED
    BY <1>2, <2>1
<1> QED
  BY <1>3, <1>4

\* Pages that are not in the block to be erased stay where they are.
PagesGrow(fl, fm, r) ==
  \A b \in Banks, k \in Blks : k # r[b].vt =>
    /\ Len(fl[b][k].pages) \in Nat /\ Len(fm[b][k].pages) \in Nat
    /\ Len(fl[b][k].pages) <= Len(fm[b][k].pages)
    /\ \A i \in 1..Len(fl[b][k].pages) : fm[b][k].pages[i] = fl[b][k].pages[i]

\* The history stays or grows by a write.
HistStays(h, g) == h \in Seq(SUBSET Lpns) /\ (g = h \/ \E T \in SUBSET Lpns : g = Append(h, T))

\* An intact page stays intact, unless its block is to be erased.
LEMMA IntactKept ==
  ASSUME NEW fl, NEW fm, NEW r, NEW s, NEW h, NEW g, NEW k \in Nat, k <= Len(h), NEW l \in Lpns,
         NEW m, Intact(fl, r, h, k, l, m), PagesGrow(fl, fm, r), HistStays(h, g),
         m # NoPpn => m.blk # s[Bank(l)].vt
  PROVE  Intact(fm, s, g, k, l, m)
<1>1. Bank(l) \in Banks
  BY BankType
<1>2. Len(h) \in Nat /\ k \in 0..Len(h)
  BY DEF HistStays
<1>3. PICK v : v = Holds(fl, l, m)
  OBVIOUS
<1>4. LastIs(g, k, l, v)
  <2>1. LastIs(h, k, l, v)
    BY <1>3 DEF Intact
  <2>2. CASE g = h
    BY <2>1, <2>2
  <2>3. CASE g # h
    <3>1. PICK T \in SUBSET Lpns : g = Append(h, T)
      BY <2>3 DEF HistStays
    <3>2. h \in Seq(SUBSET Lpns)
      BY DEF HistStays
    <3> QED
      BY <1>2, <2>1, <3>1, <3>2, LastAppend
  <2> QED
    BY <2>2, <2>3
<1>5. CASE m = NoPpn
  BY <1>3, <1>4, <1>5 DEF Intact, InPlace, Holds
<1>6. CASE m # NoPpn
  <2>1. /\ m.blk \in Blks /\ m.page \in Nat /\ m.blk # r[Bank(l)].vt
        /\ m.page < Len(fl[Bank(l)][m.blk].pages)
    BY <1>6 DEF Intact, InPlace
  <2>2. PICK p, q : p = fl[Bank(l)][m.blk].pages /\ q = fm[Bank(l)][m.blk].pages
    OBVIOUS
  <2>3. /\ Len(p) \in Nat /\ Len(q) \in Nat /\ Len(p) <= Len(q)
        /\ \A i \in 1..Len(p) : q[i] = p[i]
    BY <1>1, <2>1, <2>2 DEF PagesGrow
  <2>4. m.page + 1 \in 1..Len(p) /\ m.page < Len(q)
    <3>1. m.page < Len(p) /\ m.page \in Nat
      BY <2>1, <2>2
    <3> HIDE <2>2
    <3> QED
      BY <2>3, <3>1
  <2>5. q[m.page + 1] = p[m.page + 1]
    BY <2>3, <2>4
  <2>6. Holds(fm, l, m) = v
    BY <1>3, <1>6, <2>1, <2>2, <2>4, <2>5 DEF Holds
  <2>7. InPlace(fm, s, l, m)
    BY <1>6, <2>1, <2>2, <2>4 DEF InPlace
  <2> QED
    BY <1>4, <2>6, <2>7 DEF Intact
<1> QED
  BY <1>5, <1>6

\* With the buffer clean a read returns what flash holds.
LEMMA CleanRead ==
  ASSUME TypeOK, BufInv, Live, AllClean, NEW l \in Lpns
  PROVE  ReadView(l) = Stored(l)
<1>1. OneBuf /\ CleanStored
  BY DEF BufInv
<1>2. CASE Hits(l) = {}
  BY <1>1, <1>2, ReadCases
<1>3. CASE Hits(l) # {}
  <2>1. PICK i \in Bufs : cache[Bank(l)][i].lpn = l
    BY <1>3 DEF Hits
  <2>2. Bank(l) \in Banks /\ l # NoLpn
    BY BankType, LpnNotNone
  <2>3. ~cache[Bank(l)][i].dirty
    BY <2>2 DEF AllClean, Clean, DirtyBufs
  <2>4. Stored(l) = cache[Bank(l)][i].epoch + 1
    BY <1>1, <2>1, <2>2, <2>3 DEF CleanStored, Live
  <2>5. ReadView(l) = cache[Bank(l)][i].epoch + 1
    BY <1>1, <2>1, ReadCases
  <2> QED
    BY <2>4, <2>5
<1> QED
  BY <1>2, <1>3

\* The current map leads to pages that are there.
LEMMA MapInPlace ==
  ASSUME TypeOK, SInv, Live, NEW l \in Lpns
  PROVE  InPlace(flash, ring, l, pgmap[l])
<1>1. Bank(l) \in Banks /\ pgmap[l] \in PpnOpt
  BY BankType DEF TypeOK, Live
<1>2. MapOk(Bank(l), flash[Bank(l)], ring[Bank(l)].vt, pgmap)
  BY <1>1 DEF SInv, SpaceInv, Live
<1>3. pgmap[l] # NoPpn => pgmap[l].blk \in Blks /\ pgmap[l].page \in Nat
  BY <1>1 DEF PpnOpt, Ppn, Pages
<1> QED
  BY <1>1, <1>2, <1>3 DEF MapOk, InPlace

\* Right after a tag every page is where the map of the tag has it.
LEMMA FreshOld ==
  TypeOK /\ EpochInv /\ LogInv /\ SInv /\ BufInv /\ HistInv /\ FreshScan /\ MapNow
    /\ Live /\ Tagged /\ Saved = Issued
    => \A l \in Lpns : OldOk(l)
<1> SUFFICES ASSUME TypeOK, EpochInv, LogInv, SInv, BufInv, HistInv, FreshScan, MapNow,
                    Live, Tagged, Saved = Issued, NEW l \in Lpns
             PROVE  OldOk(l)
  OBVIOUS
<1>1. Scan = {} /\ AllClean /\ ~InWrite
  <2>1. TagShape
    BY DEF LogInv
  <2> QED
    BY <2>1, SavedAllIdle DEF FreshScan, LogInv, FreshTail
<1>2. Redone[l] = pgmap[l]
  BY FreshRedone
<1>3. ~Rewritten(Scan, l)
  BY <1>1 DEF Rewritten
<1>4. l \notin PendingPages
  BY <1>1 DEF PendingPages, InWrite
<1>5. LastIs(hist, Issued, l, ReadView(l))
  BY <1>4 DEF HistInv
<1>6. ReadView(l) = Holds(flash, l, pgmap[l])
  BY <1>1, CleanRead, StoredIs
<1>7. Intact(flash, ring, hist, Saved, l, Redone[l])
  BY <1>2, <1>5, <1>6, MapInPlace DEF Intact
<1> QED
  BY <1>2, <1>3, <1>7 DEF OldOk

-----------------------------------------------------------------------------
(* What steps do to pages already in flash.                                *)

\* Pages outside the blocks that are to be erased stay.
SamePages(fl, fm, r) ==
  \A b \in Banks, k \in Blks : k # r[b].vt => fm[b][k].pages = fl[b][k].pages

\* Pages that stay have grown by nothing.
LEMMA SameGrow ==
  ASSUME TypeOK, SamePages(flash, flash', ring)
  PROVE  PagesGrow(flash, flash', ring)
<1>1. \A b \in Banks, k \in Blks : Len(flash[b][k].pages) \in Nat
  <2> SUFFICES ASSUME NEW b \in Banks, NEW k \in Blks
               PROVE  Len(flash[b][k].pages) \in Nat
    OBVIOUS
  <2>1. flash[b][k] \in Block
    BY DEF TypeOK
  <2>2. flash[b][k].pages \in Seq(DataPage)
    BY <2>1 DEF Block
  <2> QED
    BY <2>2
<1> QED
  BY <1>1 DEF SamePages, PagesGrow

\* A late erase takes a block that is to be erased ...
LEMMA EraseSame ==
  ASSUME TypeOK, NEW b \in Banks,
         flash' = flash \/ flash' = [flash EXCEPT ![b][ring[b].vt] = Erased]
  PROVE  SamePages(flash, flash', ring)
<1> SUFFICES ASSUME NEW c \in Banks, NEW k \in Blks, k # ring[c].vt
             PROVE  flash'[c][k].pages = flash[c][k].pages
  BY DEF SamePages
<1>1. CASE flash' = [flash EXCEPT ![b][ring[b].vt] = Erased]
  <2>1. flash'[b] = [flash[b] EXCEPT ![ring[b].vt] = Erased] /\ (c # b => flash'[c] = flash[c])
    BY <1>1 DEF TypeOK
  <2>2. flash[b] \in [Blks -> Block]
    BY DEF TypeOK
  <2>3. c = b => flash'[b][k] = flash[b][k]
    BY <2>1, <2>2
  <2> QED
    BY <2>1, <2>3
<1> QED
  BY <1>1

\* ... a summary page adds a link.
LEMMA CloseSame ==
  ASSUME TypeOK, NEW b \in Banks, CloseBlock(b)
  PROVE  /\ SamePages(flash, flash', ring)
         /\ \A c \in Banks : ring'[c].vt = ring[c].vt
<1>1. PICK a, h : /\ a = active[b].blk
                  /\ flash' = [flash EXCEPT ![b][a].next = h]
  BY DEF CloseBlock
<1>2. ASSUME NEW c \in Banks, NEW k \in Blks
      PROVE  flash'[c][k].pages = flash[c][k].pages
  <2>1. flash[c][k] \in Block
    BY DEF TypeOK
  <2> QED
    BY <1>1, <2>1 DEF TypeOK, Block
<1>3. ring' = [ring EXCEPT ![b] = TakeBlk(ring[b])]
  BY DEF CloseBlock
<1>4. ring \in [Banks -> RingType]
  BY DEF TypeOK
<1>5. ring[b] \in RingType
  BY <1>4
<1>6. TakeBlk(ring[b]).vt = ring[b].vt
  BY <1>5 DEF TakeBlk, RingType
<1> QED
  BY <1>2, <1>3, <1>4, <1>6 DEF SamePages

\* A step that programs no data page and writes no tag leaves the map alone,
\* and only the end of a collection puts a block up for erasure.
QuietMove ==
  /\ pgmap' = pgmap /\ SamePages(flash, flash', ring)
  /\ GcEnd \/ \A c \in Banks : ring'[c].vt = ring[c].vt \/ ring'[c].vt = NoBlk

\* The steps that program no data.
LEMMA QuietMoves ==
  ASSUME TypeOK, [Next]_vars, pc # "recovered", pc' # "recovered", ~RecordTag, ~GcCopy,
         \A b \in Banks : ~Dequeue(b)
  PROVE  QuietMove
<1> USE DEF nand, wbuf, tables, chkpt, loops, gcvars, ghosts
<1>0. ring \in [Banks -> RingType]
  BY DEF TypeOK
<1>1. CASE Quiet
  BY <1>1 DEF Quiet, QuietMove, SamePages
<1>2. CASE Buffering
  <2>1. PICK b \in Banks : EraseVt(b)
    BY <1>2 DEF Buffering
  <2>2. /\ flash' = flash \/ flash' = [flash EXCEPT ![b][ring[b].vt] = Erased]
        /\ ring' = ring \/ ring' = [ring EXCEPT ![b] = VtErased(ring[b])]
        /\ pgmap' = pgmap
    BY <2>1 DEF EraseVt
  <2>3. ring[b] \in RingType
    BY <1>0
  <2>4. VtErased(ring[b]).vt = NoBlk
    BY <2>3 DEF VtErased, RingType
  <2>5. \A c \in Banks : ring'[c].vt = ring[c].vt \/ ring'[c].vt = NoBlk
    BY <1>0, <2>2, <2>4
  <2> QED
    BY <2>2, <2>5, EraseSame DEF QuietMove
<1>3. CASE Closing
  BY <1>3, CloseSame DEF Closing, QuietMove
<1>4. CASE GcBegin
  <2>1. bank \in Banks
    <3>1. bank \in 0..NumBanks /\ bank < NumBanks /\ NumBanks \in Nat
      BY <1>4, RecoveryAssumption DEF GcBegin, TypeOK
    <3> QED
      BY <3>1 DEF Banks
  <2>2. PICK b : b = bank
    OBVIOUS
  <2>3. flash' = flash \/ flash' = [flash EXCEPT ![b][ring[b].vt] = Erased]
    BY <1>4, <2>2 DEF GcBegin
  <2>4. PICK i : ring' = [ring EXCEPT ![bank] = SwapVictim(VtErased(ring[bank]), i)]
    BY <1>4 DEF GcBegin
  <2>5. ring[bank] \in RingType
    BY <1>0, <2>1
  <2>6. SwapVictim(VtErased(ring[bank]), i).vt = NoBlk
    BY <2>5 DEF SwapVictim, VtErased, RingType
  <2>7. \A c \in Banks : ring'[c].vt = ring[c].vt \/ ring'[c].vt = NoBlk
    BY <1>0, <2>4, <2>6
  <2>8. pgmap' = pgmap
    BY <1>4 DEF GcBegin
  <2> QED
    BY <2>1, <2>2, <2>3, <2>7, <2>8, EraseSame DEF QuietMove
<1>5. CASE GcEnd
  BY <1>5 DEF GcEnd, QuietMove, SamePages
<1>6. CASE CrashAndRecover
  BY <1>6 DEF CrashAndRecover
<1> QED
  BY <1>1, <1>2, <1>3, <1>4, <1>5, <1>6, SpaceSteps

\* A program adds a page to one block.
LEMMA ProgramGrows ==
  ASSUME TypeOK, NEW b \in Banks, NEW pg \in DataPage, NEW released, Program(b, pg, released)
  PROVE  PagesGrow(flash, flash', ring) /\ ring' = ring
<1>1. active[b].blk \in Blks
  BY FullType
<1>2. PICK a : a = active[b].blk
  OBVIOUS
<1>3. flash' = [flash EXCEPT ![b][a].pages = Append(@, pg)] /\ ring' = ring
  BY <1>2 DEF Program
<1>4. flash \in [Banks -> [Blks -> Block]]
  BY DEF TypeOK
<1>5. ASSUME NEW c \in Banks, NEW k \in Blks
      PROVE  /\ Len(flash[c][k].pages) \in Nat /\ Len(flash'[c][k].pages) \in Nat
             /\ Len(flash[c][k].pages) <= Len(flash'[c][k].pages)
             /\ \A i \in 1..Len(flash[c][k].pages) : flash'[c][k].pages[i] = flash[c][k].pages[i]
  <2>1. flash[c][k] \in Block
    BY <1>4
  <2>2. PICK p : p = flash[c][k].pages
    OBVIOUS
  <2>3. p \in Seq(DataPage)
    BY <2>1, <2>2 DEF Block
  <2>4. flash'[c][k].pages = p \/ flash'[c][k].pages = Append(p, pg)
    BY <1>1, <1>2, <1>3, <1>4, <2>1, <2>2 DEF Block
  <2>5. \A q \in Seq(DataPage) : /\ Len(q) \in Nat /\ Len(Append(q, pg)) = Len(q) + 1
                                 /\ \A i \in 1..Len(q) : Append(q, pg)[i] = q[i]
    OBVIOUS
  <2>6. PICK q : q = flash'[c][k].pages
    OBVIOUS
  <2>7. /\ Len(p) \in Nat /\ Len(q) \in Nat /\ Len(p) <= Len(q)
        /\ \A i \in 1..Len(p) : q[i] = p[i]
    <3>1. q = p \/ q = Append(p, pg)
      BY <2>4, <2>6
    <3> HIDE <2>6
    <3>2. CASE q = p
      BY <2>3, <2>5, <3>2
    <3>3. CASE q = Append(p, pg)
      BY <2>3, <2>5, <3>3
    <3> QED
      BY <3>1, <3>2, <3>3
  <2> QED
    BY <2>2, <2>6, <2>7
<1> QED
  BY <1>3, <1>5 DEF PagesGrow

\* What a step does to the history.
LEMMA HistSteps ==
  ASSUME TypeOK, DepFullInv, [Next]_vars, pc # "recovered", pc' # "recovered"
  PROVE  HistStays(hist, hist')
<1>0. hist \in Seq(SUBSET Lpns)
  BY DEF TypeOK
<1>1. ASSUME NEW i, PutClean(i) \/ PutDirty(i)
      PROVE  hist' = hist
  BY <1>1 DEF PutClean, PutDirty
<1>2. ASSUME NEW c \in WriteCmds, HostWrite(c[1], c[2])
      PROVE  \E T \in SUBSET Lpns : hist' = Append(hist, T)
  <2>1. PICK T \in SUBSET Lpns :
           /\ hist' = Append(hist, T) /\ T # {} /\ PendingPages' = T /\ PendingPages = {}
           /\ w'.span = Cardinality(T)
    BY <1>2, IssueIs
  <2> QED
    BY <2>1
<1>3. CASE Rest
  BY <1>0, <1>3 DEF Rest, HistStays
<1> QED
  BY <1>0, <1>1, <1>2, <1>3, BufSteps DEF HistStays

\* The map of the last tag stays until the next tag.
LEMMA ReplayedStays ==
  ASSUME TypeOK, TypeOK', EpochInv, LogInv, [Next]_vars, pc # "recovered", pc' # "recovered",
         ~RecordTag, Tagged', Saved' # Issued'
  PROVE  /\ Tagged /\ Saved' = Saved /\ Act' = Act
         /\ Replayed' = Replayed
<1>1. Tagged /\ Saved' = Saved /\ From' = From /\ Act' = Act
  BY SavedKept
<1>2. /\ log \in Seq(LogPage) /\ log' \in Seq(LogPage) /\ From \in 1..Len(log) /\ Len(log) \in Nat
  <2>1. log \in Seq(LogPage) /\ log' \in Seq(LogPage)
    BY DEF TypeOK
  <2>2. From \in DOMAIN log
    BY <1>1, SavedType
  <2> QED
    BY <2>1, <2>2
<1>3. ~EraseLog
  <2>1. log' = <<>> => TagsOf(log') = {}
    BY DEF TagsOf
  <2> QED
    BY <2>1 DEF EraseLog, Tagged
<1>4. Base' = Base
  <2>1. CASE PersistMap \/ EraseMap
    <3>1. pc \in Fresh /\ hist' = hist
      BY <2>1 DEF PersistMap, EraseMap, Fresh, ghosts
    <3>2. Saved = Issued
      BY <3>1 DEF LogInv, Live, TagShape
    <3> QED
      BY <1>1, <3>1, <3>2 DEF Issued
  <2>2. CASE Steady \/ Ends \/ (RecordMapent /\ mapents = <<>>)
    BY <2>2 DEF Steady, Ends, RecordMapent, Base
  <2> QED
    BY <1>3, <2>1, <2>2, CtrlSteps
<1>5. /\ Len(log) <= Len(log') /\ \A j \in 1..From : log'[j] = log[j]
  <2>1. CASE log' = log
    BY <1>2, <2>1
  <2>2. CASE LogsDeps \/ LogsMap
    <3>1. LogGrows("depent") \/ LogGrows("mapent")
      BY <1>1, <2>2, DepsKeep
    <3> QED
      BY <1>2, <3>1 DEF LogGrows
  <2> QED
    BY <1>1, <1>3, <2>1, <2>2, Growing
<1>6. PICK lh, last, base : lh = log' /\ last = From /\ base = Base
  OBVIOUS
<1>7. ReplayMapents(lh, base, last) = ReplayMapents(log, base, last)
  <2>1. /\ lh \in Seq(LogPage) /\ last \in 0..Len(log) /\ Len(log) <= Len(lh)
        /\ \A j \in 1..last : lh[j] = log[j]
    BY <1>2, <1>5, <1>6
  <2> HIDE <1>6
  <2> QED
    BY <1>2, <2>1, ReplayPrefix
<1> QED
  BY <1>1, <1>4, <1>6, <1>7 DEF Replayed

\* With nothing buffered, nothing to come and every dependency in the log,
\* recovery would keep every write issued.
LEMMA FullCut ==
  ASSUME CutInv, Live, Tagged, Saved >= 1, AllClean, deps = <<>>, PendingPages = {}
  PROVE  Cut = Issued
<1>1. TypeOK /\ EpochInv /\ LogInv /\ AcctInv
  BY DEF CutInv
<1>2. Saved \in Nat /\ Issued \in Nat /\ Saved <= Issued
  BY <1>1, SavedIssued
<1>3. AcctOk(hist, Saved, Scan, cache, Deps, PendingPages)
  BY <1>1 DEF AcctInv
<1>4. DOMAIN Deps \ Ids = {}
  <2>1. NDeps \in {0, -1}
    BY DEF NDeps
  <2> QED
    BY <2>1 DEF Deps, XIds
<1>5. \A e : Complete(hist, cache, Deps, Ids, PendingPages, e)
  <2> SUFFICES ASSUME NEW e
               PROVE  Complete(hist, cache, Deps, Ids, PendingPages, e)
    OBVIOUS
  <2>1. BufsOf(cache, e) = {}
    BY DEF BufsOf, AllClean, Clean, DirtyBufs
  <2>2. ToCome(hist, PendingPages, e) = {}
    BY DEF ToCome
  <2> QED
    BY <1>4, <2>1, <2>2 DEF Complete
<1>6. Closed(Deps, Ids, Issued)
  <2>1. Ids \subseteq DOMAIN Deps
    BY <1>1, LogDepsAre
  <2>2. \A d \in DOMAIN Deps : Deps[d].dst \in Nat /\ Deps[d].dst <= Issued - 1
    BY <1>3 DEF AcctOk, DepOk, Issued
  <2> QED
    BY <1>2, <2>1, <2>2 DEF Closed
<1>7. SafeAt(Issued)
  <2>1. Issued \in Saved..Issued
    BY <1>2
  <2> QED
    BY <1>5, <1>6, <2>1 DEF SafeAt, Safe, Issued
<1>8. MostSafe
  BY CutMost
<1>9. Cut \in Nat /\ Cut <= Issued
  BY CutRange
<1> QED
  BY <1>2, <1>7, <1>8, <1>9 DEF MostSafe

-----------------------------------------------------------------------------
(* The old places are kept.                                                *)

\* FreshOld, for all pages.
LEMMA FreshOldInv ==
  TypeOK /\ EpochInv /\ LogInv /\ SInv /\ BufInv /\ HistInv /\ FreshScan /\ MapNow
    /\ Live /\ Tagged /\ Saved = Issued
    => OldInv
BY FreshOld DEF OldInv

\* What is scanned are copies and pages of writes since the tag.
LEMMA ScanEpochs ==
  ASSUME CutInv, Live, Tagged, NEW x \in Scan
  PROVE  /\ x.pg.epoch \in Nat /\ x.pg.lpn \in Lpns
         /\ x.pg.epoch # GcTag => x.pg.epoch \in Saved..(Issued - 1)
<1>1. TypeOK /\ SInv /\ Chains(Act) /\ PageOk(hist, Saved, Scan)
  BY DEF CutInv, ChainInv, AcctInv, AcctOk
<1>2. Act \in [Banks -> Ppn]
  BY <1>1, SavedType
<1>3. x.pg \in DataPage
  BY <1>1, <1>2, ScanFacts DEF Scan, Live
<1> QED
  BY <1>1, <1>3 DEF DataPage, Epochs, PageOk, Issued

\* Every write that rewrote a page is kept if all of them are.
LEMMA FullOvertakes ==
  ASSUME CutInv, Live, Tagged, NEW l, Rewritten(Scan, l), NEW c \in Nat, Issued <= c
  PROVE  Overtaken(Scan, l, c)
<1>1. PICK x \in Scan : x.pg.lpn = l /\ x.pg.epoch # GcTag
  BY DEF Rewritten
<1>2. Issued \in Nat /\ Saved \in Nat
  BY SavedIssued DEF CutInv
<1>3. x.pg.epoch \in Saved..(Issued - 1)
  BY <1>1, ScanEpochs
<1>4. x.pg.epoch < c
  BY <1>2, <1>3
<1> QED
  BY <1>1, <1>4 DEF Overtaken

\* A page that need not be kept need not be kept later.
LEMMA OvertakenMore ==
  ASSUME CutInv, Live, Tagged, NEW l, NEW c \in Nat, NEW d \in Nat, c <= d, NEW T, Scan \subseteq T,
         Overtaken(Scan, l, c)
  PROVE  Overtaken(T, l, d)
<1>1. PICK x \in Scan : x.pg.lpn = l /\ x.pg.epoch # GcTag /\ x.pg.epoch < c
  BY DEF Overtaken
<1>2. x.pg.epoch \in Nat
  BY <1>1, ScanEpochs
<1> QED
  BY <1>1, <1>2 DEF Overtaken

\* No block has the number that stands for none.
LEMMA BlksNoBlk == NoBlk \notin Blks
BY DEF NoBlk, Blks

\* The block a collection has emptied is not one the old map still needs.
LEMMA EndsClean ==
  ASSUME CutInv, RoomLeft, FlushInv, ZeroInv, OldInv, Live, Tagged, GcEnd, NEW l \in Lpns,
         Bank(l) = bank, NEW c \in Nat, Cut <= c
  PROVE  Redone[l].blk # victim \/ Overtaken(Scan, l, c)
<1>1. TypeOK /\ SInv /\ EpochInv /\ LogInv
  BY DEF CutInv
<1>2. pc = "gccopy" /\ ValidLeft = {} /\ bank \in Banks
  BY <1>1 DEF GcEnd, TypeOK
<1>3. OldOk(l)
  BY DEF OldInv
<1>4. CASE ~Rewritten(Scan, l)
  <2>1. pgmap[l] = Redone[l]
    BY <1>3, <1>4 DEF OldOk
  <2>2. flash[bank][victim].next # NoBlk
    BY <1>2 DEF RoomLeft
  <2>3. l \notin Mapped(bank, victim, pgmap)
    BY <1>1, <1>2, <2>2, LeftToCopy
  <2> QED
    BY <2>1, <2>3 DEF Mapped
<1>5. CASE Rewritten(Scan, l)
  <2>1. ring[bank].rsv # ring[bank].tail
    BY <1>2 DEF RoomLeft
  <2>2. Saved >= 1
    <3>1. Saved \in Nat
      BY <1>1, SavedType
    <3>2. Saved # 0
      BY <1>2, <2>1 DEF ZeroInv
    <3> QED
      BY <3>1, <3>2
  <2>3. AllClean /\ deps = <<>>
    BY <1>2 DEF FlushInv, AllClean
  <2>4. PendingPages = {}
    BY <1>2 DEF PendingPages, Writing
  <2>5. Cut = Issued
    BY <2>2, <2>3, <2>4, FullCut
  <2>6. Overtaken(Scan, l, c)
    BY <1>5, <2>5, FullOvertakes
  <2> QED
    BY <2>6
<1> QED
  BY <1>4, <1>5

\* Steps that program no data: the block that is to be erased was collected,
\* so that what was copied out of it has its copy in the scan.
LEMMA QuietOld ==
  ASSUME CutInv, RoomLeft, FlushInv, ZeroInv, OldInv, Live, Tagged, QuietMove, DepFullInv,
         [Next]_vars, pc' # "recovered", Scan' = Scan, Saved' = Saved, Replayed' = Replayed,
         Cut' \in Nat, Cut' >= Cut, NEW l \in Lpns
  PROVE  OldOk(l)'
<1>1. TypeOK /\ SInv /\ EpochInv /\ LogInv /\ hist \in Seq(SUBSET Lpns)
  BY DEF CutInv, TypeOK
<1>2. OldOk(l) /\ Bank(l) \in Banks
  BY BankType DEF OldInv
<1>3. Redone' = Redone /\ pgmap' = pgmap
  BY DEF Redone, QuietMove
<1>4. PICK m, r : m = Redone[l] /\ r = ring'
  OBVIOUS
<1>5. Saved \in Nat /\ Saved <= Len(hist)
  BY <1>1, SavedIssued DEF Issued
<1>6. PagesGrow(flash, flash', ring) /\ HistStays(hist, hist')
  BY <1>1, SameGrow, HistSteps DEF QuietMove, Live
<1>7. Intact(flash', r, hist', Saved, l, m) \/ Overtaken(Scan, l, Cut')
  <2>1. PICK cut : cut = Cut'
    OBVIOUS
  <2>2. Cut \in Nat /\ cut \in Nat /\ Cut <= cut
    BY <2>1, CutRange
  <2>3. CASE Overtaken(Scan, l, Cut)
    <3>1. Overtaken(Scan, l, cut)
      BY <2>2, <2>3, OvertakenMore
    <3> QED
      BY <2>1, <3>1
  <2>4. CASE ~Overtaken(Scan, l, Cut)
    <3>1. Intact(flash, ring, hist, Saved, l, m)
      BY <1>2, <1>4, <2>4 DEF OldOk
    <3>2. m # NoPpn => m.blk \in Blks /\ m.blk # ring[Bank(l)].vt
      BY <3>1 DEF Intact, InPlace
    <3>3. (m # NoPpn => m.blk # r[Bank(l)].vt) \/ Overtaken(Scan, l, cut)
      <4>1. CASE GcEnd /\ Bank(l) = bank
        <5>1. m.blk # victim \/ Overtaken(Scan, l, cut)
          BY <1>4, <2>2, <4>1, EndsClean
        <5>2. r[bank].vt = victim
          <6>1. ring[bank] \in RingType /\ ring \in [Banks -> RingType] /\ bank \in Banks
            BY <1>1, <1>2, <4>1 DEF TypeOK
          <6>2. r = [ring EXCEPT ![bank] = FreeVictim(ring[bank], victim)]
            BY <1>4, <4>1 DEF GcEnd
          <6> QED
            BY <6>1, <6>2 DEF FreeVictim, RingType
        <5> QED
          BY <4>1, <5>1, <5>2
      <4>2. CASE GcEnd /\ Bank(l) # bank
        <5>1. ring \in [Banks -> RingType]
          BY <1>1 DEF TypeOK
        <5>2. r[Bank(l)] = ring[Bank(l)]
          BY <1>2, <1>4, <4>2, <5>1 DEF GcEnd
        <5> QED
          BY <3>2, <5>2
      <4>3. CASE ~GcEnd
        <5>1. r[Bank(l)].vt = ring[Bank(l)].vt \/ r[Bank(l)].vt = NoBlk
          BY <1>2, <1>4, <4>3 DEF QuietMove
        <5> QED
          BY <3>2, <5>1, BlksNoBlk
      <4> QED
        BY <4>1, <4>2, <4>3
    <3>4. CASE m # NoPpn => m.blk # r[Bank(l)].vt
      <4>1. PICK fm, g : fm = flash' /\ g = hist'
        OBVIOUS
      <4>2. PagesGrow(flash, fm, ring) /\ HistStays(hist, g)
        BY <1>6, <4>1
      <4>3. Intact(fm, r, g, Saved, l, m)
        BY <1>5, <3>1, <3>4, <4>2, IntactKept
      <4> QED
        BY <4>1, <4>3
    <3> QED
      BY <2>1, <3>3, <3>4
  <2> QED
    BY <2>3, <2>4
<1> QED
  BY <1>2, <1>3, <1>4, <1>7 DEF OldOk

\* A page programmed where the scan ends.
LEMMA OtherOld ==
  ASSUME CutInv, OldInv, Live, Tagged, DepFullInv, [Next]_vars, pc' # "recovered",
         NEW b \in Banks, NEW pg \in DataPage, NEW released, Program(b, pg, released),
         NEW x, ScanAdds(b, pg, x), Saved' = Saved, Replayed' = Replayed,
         Cut' \in Nat, Cut' >= Cut, NEW l \in Lpns, l # pg.lpn
  PROVE  OldOk(l)'
<1>1. TypeOK /\ EpochInv /\ LogInv /\ hist \in Seq(SUBSET Lpns)
  BY DEF CutInv, TypeOK
<1>2. OldOk(l)
  BY DEF OldInv
<1>3. PICK T, cut, fm, g : T = Scan' /\ cut = Cut' /\ fm = flash' /\ g = hist'
  OBVIOUS
<1>4. T = Scan \cup {x} /\ x.pg = pg /\ Latest(Scan, x)
  BY <1>3 DEF ScanAdds
<1>5. Rewritten(T, l) <=> Rewritten(Scan, l)
  BY <1>4 DEF Rewritten
<1>6. Redone'[l] = Redone[l]
  <2>1. RemapCopies(Replayed, T)[l] = RemapCopies(Replayed, Scan)[l]
    <3>1. ~(x.pg.lpn = l /\ x.pg.epoch = GcTag)
      BY <1>4
    <3> HIDE <1>3
    <3> QED
      BY <1>4, <3>1, CopyMoves
  <2> QED
    BY <1>3, <2>1 DEF Redone
<1>7. pgmap'[l] = pgmap[l] /\ ring' = ring
  BY <1>1 DEF Program, TypeOK, Live
<1>8. PICK m : m = Redone[l]
  OBVIOUS
<1>9. Intact(fm, ring, g, Saved, l, m) \/ Overtaken(T, l, cut)
  <2>1. CASE Overtaken(Scan, l, Cut)
    <3>1. Cut \in Nat /\ cut \in Nat /\ Cut <= cut /\ Scan \subseteq T
      BY <1>3, <1>4, CutRange
    <3> HIDE <1>3, <1>4
    <3> QED
      BY <2>1, <3>1, OvertakenMore
  <2>2. CASE ~Overtaken(Scan, l, Cut)
    <3>1. Intact(flash, ring, hist, Saved, l, m)
      BY <1>2, <1>8, <2>2 DEF OldOk
    <3>2. PagesGrow(flash, fm, ring) /\ HistStays(hist, g)
      BY <1>1, <1>3, ProgramGrows, HistSteps DEF Live
    <3>3. Saved \in Nat /\ Saved <= Len(hist)
      BY <1>1, SavedIssued DEF Issued
    <3>4. m # NoPpn => m.blk # ring[Bank(l)].vt
      BY <3>1 DEF Intact, InPlace
    <3> HIDE <1>3, <1>8
    <3> QED
      BY <3>1, <3>2, <3>3, <3>4, IntactKept
  <2> QED
    BY <2>1, <2>2
<1>10. Rewritten(T, l) => \E y \in T : y.pg.lpn = l /\ y.ppn = pgmap[l]
  BY <1>2, <1>4, <1>5 DEF OldOk
<1>11. ~Rewritten(T, l) => pgmap[l] = m
  BY <1>2, <1>5, <1>8 DEF OldOk
<1> QED
  BY <1>3, <1>6, <1>7, <1>8, <1>9, <1>10, <1>11 DEF OldOk

\* A dequeue: the page is at a place the scan comes to.
LEMMA WriteOld ==
  ASSUME CutInv, OldInv, Live, Tagged, DepFullInv, [Next]_vars, pc' # "recovered",
         NEW b \in Banks, NEW pg \in DataPage, NEW released, Program(b, pg, released),
         pg.epoch # GcTag,
         NEW x, ScanAdds(b, pg, x), Saved' = Saved, Replayed' = Replayed,
         Cut' \in Nat, Cut' >= Cut
  PROVE  OldOk(pg.lpn)'
<1>0. PICK l : l = pg.lpn
  OBVIOUS
<1>1. TypeOK /\ EpochInv /\ LogInv /\ hist \in Seq(SUBSET Lpns) /\ l \in Lpns
  BY <1>0 DEF CutInv, TypeOK, DataPage
<1>2. OldOk(l)
  BY <1>1 DEF OldInv
<1>3. PICK T, cut, fm, g : T = Scan' /\ cut = Cut' /\ fm = flash' /\ g = hist'
  OBVIOUS
<1>4. T = Scan \cup {x} /\ x.pg = pg /\ x.ppn = active[b] /\ Latest(Scan, x)
  BY <1>3 DEF ScanAdds
<1>5. Rewritten(T, l)
  BY <1>0, <1>4 DEF Rewritten
<1>6. Redone'[l] = Redone[l]
  <2>1. RemapCopies(Replayed, T)[l] = RemapCopies(Replayed, Scan)[l]
    <3>1. ~(x.pg.lpn = l /\ x.pg.epoch = GcTag)
      BY <1>4
    <3> HIDE <1>3
    <3> QED
      BY <1>1, <1>4, <3>1, CopyMoves
  <2> QED
    BY <1>3, <2>1 DEF Redone
<1>7. pgmap'[l] = active[b] /\ ring' = ring
  BY <1>0, <1>1 DEF Program, TypeOK, Live
<1>8. PICK m : m = Redone[l]
  OBVIOUS
<1>9. Intact(fm, ring, g, Saved, l, m) \/ Overtaken(T, l, cut)
  <2>1. CASE Overtaken(Scan, l, Cut)
    <3>1. Cut \in Nat /\ cut \in Nat /\ Cut <= cut /\ Scan \subseteq T
      BY <1>3, <1>4, CutRange
    <3> HIDE <1>3, <1>4
    <3> QED
      BY <2>1, <3>1, OvertakenMore
  <2>2. CASE ~Overtaken(Scan, l, Cut)
    <3>1. Intact(flash, ring, hist, Saved, l, m)
      BY <1>2, <1>8, <2>2 DEF OldOk
    <3>2. PagesGrow(flash, fm, ring) /\ HistStays(hist, g)
      BY <1>1, <1>3, ProgramGrows, HistSteps DEF Live
    <3>3. Saved \in Nat /\ Saved <= Len(hist)
      BY <1>1, SavedIssued DEF Issued
    <3>4. m # NoPpn => m.blk # ring[Bank(l)].vt
      BY <3>1 DEF Intact, InPlace
    <3> HIDE <1>3, <1>8
    <3> QED
      BY <1>1, <3>1, <3>2, <3>3, <3>4, IntactKept
  <2> QED
    BY <2>1, <2>2
<1>10. \E y \in T : y.pg.lpn = l /\ y.ppn = active[b]
  BY <1>0, <1>4
<1>11. OldOk(l)'
  BY <1>3, <1>5, <1>6, <1>7, <1>8, <1>9, <1>10 DEF OldOk
<1> QED
  BY <1>0, <1>11

\* A copy is of a page not rewritten since the tag: the old map follows it.
LEMMA CopyOld ==
  ASSUME CutInv, SInv', TypeOK', RoomLeft, OldInv, Live, Tagged, DepFullInv, [Next]_vars,
         pc' # "recovered", GcCopy, NEW p, NEW pg, Copied(bank, p, pg),
         NEW x, ScanAdds(bank, pg, x), Saved' = Saved, Replayed' = Replayed
  PROVE  OldOk(pg.lpn)'
<1>0. PICK l : l = pg.lpn
  OBVIOUS
<1>1. TypeOK /\ EpochInv /\ LogInv /\ SInv /\ hist \in Seq(SUBSET Lpns) /\ l \in Lpns
  BY <1>0 DEF CutInv, TypeOK, Copied, DataPage
<1>2. OldOk(l) /\ pc = "gccopy" /\ bank \in Banks /\ Bank(l) = bank /\ pg.epoch = GcTag
      /\ pg \in DataPage
  BY <1>0, <1>1 DEF OldInv, GcCopy, Copied
<1>3. PICK T : T = Scan'
  OBVIOUS
<1>4. T = Scan \cup {x} /\ x.pg = pg /\ x.ppn = active[bank] /\ Latest(Scan, x)
  BY <1>3 DEF ScanAdds
<1>5. pgmap[l].blk = victim
  BY <1>0 DEF Copied
<1>6. ~Rewritten(Scan, l)
  <2> SUFFICES ASSUME Rewritten(Scan, l)
               PROVE  FALSE
    OBVIOUS
  <2>1. PICK y \in Scan : y.pg.lpn = l /\ y.ppn = pgmap[l]
    BY <1>2 DEF OldOk
  <2>2. Act \in [Banks -> Ppn] /\ Chains(Act)
    BY <1>1, SavedType DEF CutInv, ChainInv
  <2>3. y.ppn.blk # victim
    BY <1>1, <1>2, <2>1, <2>2, ScanFacts DEF Scan, Live
  <2> QED
    BY <1>5, <2>1, <2>3
<1>7. ~Rewritten(T, l)
  BY <1>2, <1>4, <1>6 DEF Rewritten
<1>8. Redone'[l] = active[bank]
  <2>1. RemapCopies(Replayed, T)[l] = x.ppn
    <3>1. x.pg.lpn = l /\ x.pg.epoch = GcTag
      BY <1>0, <1>2, <1>4
    <3>2. T = Scan \cup {x} /\ Latest(Scan, x) /\ l \in Lpns
      BY <1>1, <1>4
    <3> HIDE <1>0, <1>3
    <3>3. /\ x.pg.lpn = l /\ x.pg.epoch = GcTag => RemapCopies(Replayed, T)[l] = x.ppn
          /\ ~(x.pg.lpn = l /\ x.pg.epoch = GcTag) =>
                RemapCopies(Replayed, T)[l] = RemapCopies(Replayed, Scan)[l]
      BY <3>2, CopyMoves
    <3> QED
      BY <3>1, <3>3
  <2> QED
    BY <1>3, <1>4, <2>1 DEF Redone
<1>9. PICK released : Program(bank, pg, released)
  BY DEF Copied
<1>10. pgmap'[l] = active[bank]
  BY <1>0, <1>1, <1>9 DEF Program, TypeOK, Live
<1>11. Stored(l)' = Stored(l)
  <2>1. Stays
    BY <1>1, GcCopyStays
  <2> QED
    BY <1>1, <2>1 DEF Stays
<1>12. Intact(flash, ring, hist, Saved, l, pgmap[l])
  <2>1. ~Overtaken(Scan, l, Cut)
    BY <1>6 DEF Overtaken, Rewritten
  <2> QED
    BY <1>2, <1>6, <2>1 DEF OldOk
<1>13. LastIs(hist, Saved, l, Stored(l)')
  BY <1>11, <1>12, StoredIs DEF Intact
<1>14. hist' = hist
  BY DEF GcCopy, ghosts
<1>15. Stored(l)' = Holds(flash', l, pgmap'[l])
  BY DEF Stored, Holds
<1>16. InPlace(flash', ring', l, pgmap'[l])
  <2>1. Bank(l) \in Banks /\ pgmap'[l] \in PpnOpt
    BY <1>1, BankType DEF TypeOK
  <2>2. MapOk(Bank(l), flash'[Bank(l)], ring'[Bank(l)].vt, pgmap')
    BY <2>1 DEF SInv, SpaceInv
  <2>3. pgmap'[l] # NoPpn => pgmap'[l].blk \in Blks /\ pgmap'[l].page \in Nat
    BY <2>1 DEF PpnOpt, Ppn, Pages
  <2> QED
    BY <1>1, <2>2, <2>3 DEF MapOk, InPlace
<1>17. Intact(flash', ring', hist', Saved, l, pgmap'[l])
  BY <1>13, <1>14, <1>15, <1>16 DEF Intact
<1>18. OldOk(l)'
  BY <1>3, <1>7, <1>8, <1>10, <1>17 DEF OldOk
<1> QED
  BY <1>0, <1>18

\* Every step keeps OldInv.
LEMMA NextOld ==
  ASSUME CutInv, CutInv', RoomLeft, RoomLeft', FlushInv, CacheInv, DepFullInv, DepFullInv',
         BufInv', HistInv', FreshScan', MapNow', ZeroInv, OldInv, [Next]_vars
  PROVE  OldInv'
<1> SUFFICES ASSUME Live', Tagged'
             PROVE  OldInv'
  BY DEF OldInv
<1>0. pc # "recovered" /\ pc' # "recovered" /\ Live
  BY RecoveredStays DEF vars, Live
<1>1. /\ TypeOK /\ EpochInv /\ LogInv /\ SInv /\ ChainInv /\ AcctInv
      /\ TypeOK' /\ EpochInv' /\ LogInv' /\ SInv'
  BY DEF CutInv
<1>2. CASE Saved' = Issued'
  <2>1. (TypeOK /\ EpochInv /\ LogInv /\ SInv /\ BufInv /\ HistInv /\ FreshScan /\ MapNow
           /\ Live /\ Tagged /\ Saved = Issued => OldInv)'
    BY FreshOldInv, PTL
  <2> QED
    BY <1>1, <1>2, <2>1
<1>3. CASE Saved' # Issued'
  <2>1. ~RecordTag
    <3> SUFFICES ASSUME RecordTag
                 PROVE  FALSE
      OBVIOUS
    <3>1. TagShape
      BY <1>0, <1>1 DEF LogInv
    <3> QED
      BY <1>1, <1>3, <3>1, TagFacts
  <2>2. Tagged /\ Saved' = Saved /\ Act' = Act /\ Replayed' = Replayed
    BY <1>0, <1>1, <1>3, <2>1, ReplayedStays
  <2>3. Cut' \in Nat /\ Cut' >= Cut
    BY <1>0, NextCut
  <2>4. ASSUME NEW b \in Banks, NEW i, NEW e, NEW pg, NEW x, NEW l \in Lpns,
               Dequeued(b, i, e, pg), ScanAdds(b, pg, x)
        PROVE  OldOk(l)'
    <3>1. PICK released : Program(b, pg, released)
      BY <2>4 DEF Dequeued
    <3>2. pg \in DataPage /\ pg.epoch # GcTag
      <4>1. DirtyOk(hist, Saved, cache) /\ e = cache[b][i] /\ e.dirty /\ i \in Bufs
            /\ pg.epoch = e.epoch /\ pg \in DataPage
        BY <1>0, <1>1, <2>2, <2>4 DEF AcctInv, AcctOk, Dequeued
      <4>2. e.epoch \in Saved..(Issued - 1)
        BY <4>1 DEF DirtyOk, Issued
      <4>3. Issued < GcTag /\ GcTag \in Nat /\ Issued \in Nat
        BY <1>1, IssuedSmall
      <4>4. Saved \in Nat
        BY <1>1, <2>2, SavedType
      <4> QED
        BY <4>1, <4>2, <4>3, <4>4
    <3>3. CASE l = pg.lpn
      BY <1>0, <2>2, <2>3, <2>4, <3>1, <3>2, <3>3, WriteOld
    <3>4. CASE l # pg.lpn
      BY <1>0, <2>2, <2>3, <2>4, <3>1, <3>2, <3>4, OtherOld
    <3> QED
      BY <3>3, <3>4
  <2>5. ASSUME GcCopy, NEW p, NEW pg, NEW x, NEW l \in Lpns,
               Copied(bank, p, pg), ScanAdds(bank, pg, x)
        PROVE  OldOk(l)'
    <3>1. PICK released : Program(bank, pg, released)
      BY <2>5 DEF Copied
    <3>2. pg \in DataPage /\ bank \in Banks
      BY <2>5 DEF Copied
    <3>3. CASE l = pg.lpn
      BY <1>0, <1>1, <2>2, <2>5, <3>3, CopyOld
    <3>4. CASE l # pg.lpn
      BY <1>0, <2>2, <2>3, <2>5, <3>1, <3>2, <3>4, OtherOld
    <3> QED
      BY <3>3, <3>4
  <2>6. ASSUME Scan' = Scan, ~GcCopy, \A b \in Banks : ~Dequeue(b), NEW l \in Lpns
        PROVE  OldOk(l)'
    <3>1. QuietMove
      BY <1>0, <1>1, <2>1, <2>6, QuietMoves
    <3> QED
      BY <1>0, <2>2, <2>3, <2>6, <3>1, QuietOld
  <2>7. \/ Scan' = Scan /\ ~GcCopy /\ \A b \in Banks : ~Dequeue(b)
        \/ \E b \in Banks : \E i, e, pg, x : Dequeued(b, i, e, pg) /\ ScanAdds(b, pg, x)
        \/ GcCopy /\ \E p, pg, x : Copied(bank, p, pg) /\ ScanAdds(bank, pg, x)
    BY <1>0, <1>1, <2>1, NextScan
  <2>8. \A l \in Lpns : OldOk(l)'
    BY <2>4, <2>5, <2>6, <2>7
  <2> QED
    BY <2>8 DEF OldInv
<1> QED
  BY <1>2, <1>3

\* After format nothing has been written.
LEMMA InitOld ==
  ASSUME Init
  PROVE  OldInv
<1>1. /\ TypeOK /\ EpochInv
  BY InitInv DEF IInv
<1>2. LogInv /\ SInv /\ HistInv /\ FreshScan /\ MapNow
  BY InitLogInv, InitSpace, InitHist, InitScan, InitMap
<1>3. BufInv
  BY DEF Init, BufInv, OneBuf, CleanStored, MissInv, NoEnt
<1>4. Tagged /\ Saved = Issued /\ Live
  BY InitTag DEF Init, Live
<1> QED
  BY <1>1, <1>2, <1>3, <1>4, FreshOldInv

-----------------------------------------------------------------------------
(* The page recovery chooses.                                              *)

\* No two pages of S have the same place in the scan of bank b.
Placed(S, b) ==
  /\ \A x \in S : \E n, p \in Nat : x.at = <<b, n, p>>
  /\ \A x, y \in S : x.at = y.at => x = y

\* A scan of one bank has a first page.
LEMMA EarliestExists ==
  ASSUME NEW S, S # {}, NEW b \in Nat, Placed(S, b)
  PROVE  \E x \in S : \A y \in S : y = x \/ Earlier(x.at, y.at)
<1>1. \A x \in S : \E n, p \in Nat : x.at = <<b, n, p>>
  BY DEF Placed
<1>2. PICK N : N = {n \in Nat : \E p \in Nat : \E x \in S : x.at = <<b, n, p>>}
  OBVIOUS
<1>3. N \in SUBSET Nat /\ N # {}
  BY <1>1, <1>2
<1>4. PICK n \in N : \A j \in N : n <= j
  BY <1>3, Least
<1>5. PICK P : P = {p \in Nat : \E x \in S : x.at = <<b, n, p>>}
  OBVIOUS
<1>6. P \in SUBSET Nat /\ P # {}
  BY <1>2, <1>4, <1>5
<1>7. PICK p \in P : \A j \in P : p <= j
  BY <1>6, Least
<1>8. PICK x \in S : x.at = <<b, n, p>>
  BY <1>5, <1>7
<1>9. ASSUME NEW y \in S, y # x
      PROVE  Earlier(x.at, y.at)
  <2>1. PICK i, q \in Nat : y.at = <<b, i, q>>
    BY <1>1
  <2>2. i \in N
    BY <1>2, <2>1
  <2>3. n <= i /\ n \in Nat
    BY <1>2, <1>4, <2>2
  <2>4. i = n => q \in P
    BY <1>5, <2>1
  <2>5. i = n => p <= q
    BY <1>7, <2>4
  <2>6. p \in Nat
    BY <1>5, <1>7
  <2>7. x.at # y.at
    BY <1>9 DEF Placed
  <2>8. n < i \/ (n = i /\ p < q)
    BY <1>8, <2>1, <2>3, <2>5, <2>6, <2>7
  <2>9. Earlier(<<b, n, p>>, <<b, i, q>>) <=> b < b \/ (b = b /\ n < i) \/ (b = b /\ n = i /\ p < q)
    BY <2>1, <2>3, <2>6, Earlier3
  <2> QED
    BY <1>8, <2>1, <2>8, <2>9
<1> QED
  BY <1>9

\* No page is of a later write than e.
UpTo(S, e) == \A x \in S : x.pg.epoch \in Nat /\ x.pg.epoch <= e

\* The newest of the pages to choose from, and the first of those.
LEMMA NewestIs ==
  ASSUME NEW S, NEW e \in Nat, UpTo(S, e), NEW z \in S, z.pg.epoch = e,
         NEW b \in Nat, Placed(S, b)
  PROVE  NewestOf(S) \in S /\ NewestOf(S).pg.epoch = e
<1>1. PICK E : E = {x \in S : x.pg.epoch = e}
  OBVIOUS
<1>2. E # {} /\ Placed(E, b)
  BY <1>1 DEF Placed
<1>3. PICK x \in E : \A y \in E : y = x \/ Earlier(x.at, y.at)
  BY <1>2, EarliestExists
<1>4. x \in S /\ x.pg.epoch = e
  BY <1>1, <1>3
<1>5. \A y \in S : \/ y = x \/ y.pg.epoch < x.pg.epoch
                   \/ y.pg.epoch = x.pg.epoch /\ Earlier(x.at, y.at)
  <2> SUFFICES ASSUME NEW y \in S, y # x
               PROVE  \/ y.pg.epoch < x.pg.epoch
                      \/ y.pg.epoch = x.pg.epoch /\ Earlier(x.at, y.at)
    OBVIOUS
  <2>1. y.pg.epoch \in Nat /\ y.pg.epoch <= e
    BY DEF UpTo
  <2>2. y.pg.epoch = e => y \in E
    BY <1>1
  <2> QED
    BY <1>3, <1>4, <2>1, <2>2
<1>6. PICK v : v = NewestOf(S)
  OBVIOUS
<1>7. v \in S /\ \A y \in S : \/ y = v \/ y.pg.epoch < v.pg.epoch
                              \/ y.pg.epoch = v.pg.epoch /\ Earlier(v.at, y.at)
  BY <1>4, <1>5, <1>6 DEF NewestOf
<1>8. v.pg.epoch \in Nat /\ v.pg.epoch <= e
  BY <1>7 DEF UpTo
<1>9. v.pg.epoch = e
  BY <1>7, <1>8
<1> QED
  BY <1>6, <1>7, <1>9

\* Of the writes before a closed cut, the last one to a page left it in flash.
LEMMA LastWritten ==
  ASSUME NEW h \in Seq(SUBSET Lpns), NEW k \in Nat, NEW S, NEW c, NEW D, NEW P,
         AcctOk(h, k, S, c, D, P), NEW L, NEW x \in Nat, Safe(h, k, c, D, L, P, x),
         NEW l, NEW e \in k..(x - 1), l \in h[e + 1]
  PROVE  \E f \in k..(x - 1) : /\ l \in h[f + 1] /\ InScan(S, f, l)
                               /\ \A j \in (f + 2)..x : l \notin h[j]
<1>1. Len(h) \in Nat /\ x <= Len(h)
  BY DEF Safe
<1>2. PICK T : T = {f \in k..(x - 1) : l \in h[f + 1]}
  OBVIOUS
<1>3. T \in SUBSET (0..x) /\ T # {}
  <2>1. e \in T
    BY <1>2
  <2>2. \A f \in T : f \in 0..x
    BY <1>2
  <2> QED
    BY <2>1, <2>2
<1>4. PICK f \in T : \A j \in T : j <= f
  BY <1>3, Greatest
<1>5. f \in k..(x - 1) /\ l \in h[f + 1] /\ f \in Nat
  BY <1>2, <1>4
<1>6. \A j \in (f + 2)..x : l \notin h[j]
  <2> SUFFICES ASSUME NEW j \in (f + 2)..x, l \in h[j]
               PROVE  FALSE
    OBVIOUS
  <2>1. PICK g : g = j - 1
    OBVIOUS
  <2>2. g \in k..(x - 1) /\ g + 1 = j /\ g > f
    BY <1>5, <2>1
  <2>3. g \in T
    BY <1>2, <2>2
  <2> QED
    BY <1>4, <1>5, <2>2, <2>3
<1>7. InScan(S, f, l)
  <2>1. f \in k..(Len(h) - 1)
    BY <1>1, <1>5
  <2>2. \/ l \in ToCome(h, P, f) \/ InBuf(c, f, l) \/ InScan(S, f, l) \/ Covered(h, D, f, l)
    BY <1>5, <2>1 DEF AcctOk, Located
  <2>3. Complete(h, c, D, L, P, f) /\ Closed(D, L, x)
    BY <1>5 DEF Safe
  <2>4. l \notin ToCome(h, P, f)
    BY <2>3 DEF Complete
  <2>5. ~InBuf(c, f, l)
    <3> SUFFICES ASSUME NEW b \in Banks, NEW i \in Bufs, c[b][i].dirty, c[b][i].epoch = f
                 PROVE  FALSE
      BY DEF InBuf
    <3>1. PICK u : u = <<b, i>>
      OBVIOUS
    <3>2. u \in Banks \X Bufs /\ u[1] = b /\ u[2] = i
      BY <3>1
    <3>3. u \in BufsOf(c, f)
      BY <3>2 DEF BufsOf
    <3> QED
      BY <2>3, <3>3 DEF Complete
  <2>6. ~Covered(h, D, f, l)
    <3> SUFFICES ASSUME NEW d \in DOMAIN D, D[d].src = f, l \in h[D[d].dst + 1]
                 PROVE  FALSE
      BY DEF Covered
    <3>1. D[d].dst \in Nat /\ D[d].src < D[d].dst
      BY DEF AcctOk, DepOk
    <3>2. d \in L
      BY <2>3 DEF Complete
    <3>3. D[d].dst < x
      BY <1>5, <2>3, <3>1, <3>2 DEF Closed
    <3>4. PICK g : g = D[d].dst
      OBVIOUS
    <3>5. g \in k..(x - 1) /\ l \in h[g + 1] /\ g > f
      BY <1>5, <3>1, <3>3, <3>4
    <3>6. g \in T
      BY <1>2, <3>5
    <3> QED
      BY <1>4, <1>5, <3>5, <3>6
  <2> QED
    BY <2>2, <2>4, <2>5, <2>6
<1> QED
  BY <1>5, <1>6, <1>7

-----------------------------------------------------------------------------
(* What recovery returns.                                                  *)

\* The map that recovery would return.
RecMap == Recover(flash, log, maps).map

\* With it every page reads as the last write to it among those kept.
RecoverOk == \A l \in Lpns : LastIs(hist, Cut, l, Holds(flash, l, RecMap[l]))

\* The pages recovery may take for page l.
Kept(S, l, c) == {x \in S : /\ x.pg.lpn = l
                            /\ 0 < x.pg.epoch /\ x.pg.epoch < c}

\* Recovery takes the newest page of a write it keeps, and the map of the
\* tag with its copies where there is none.
LEMMA RecTagged ==
  ASSUME Tagged, NEW l \in Lpns
  PROVE  RecMap[l] = IF Kept(Scan, l, Cut) = {} THEN Redone[l] ELSE NewestOf(Kept(Scan, l, Cut)).ppn
<1>1. TagsOf(log) # {}
  BY DEF Tagged
<1>2. RecMap = RemapWrites(Redone, Scan, Cut)
  BY <1>1 DEF RecMap, Recover, Cut, Scan, Act, Redone, Replayed, From, Base
<1> QED
  BY <1>2 DEF RemapWrites, Kept

\* A page is in flash as its last write since the tag left it, or as it was.
LEMMA KeptIs ==
  ASSUME CutInv, Live, Tagged, Saved >= 1, NEW l \in Lpns, Kept(Scan, l, Cut) # {}
  PROVE  LastIs(hist, Cut, l, Holds(flash, l, NewestOf(Kept(Scan, l, Cut)).ppn))
<1>1. /\ TypeOK /\ SInv /\ Chains(Act) /\ EpochInv
      /\ AcctOk(hist, Saved, Scan, cache, Deps, PendingPages)
      /\ hist \in Seq(SUBSET Lpns) /\ Saved \in Nat
  BY SavedType DEF CutInv, ChainInv, AcctInv, TypeOK
<1>2. Cut \in Nat /\ Cut <= Issued /\ Issued \in Nat
  BY <1>1, CutRange, IssuedSmall
<1>3. Safe(hist, Saved, cache, Deps, Ids, PendingPages, Cut)
  BY CutMost DEF MostSafe, SafeAt
<1>4. PICK K, c, S : K = Kept(Scan, l, Cut) /\ c = Cut /\ S = Scan
  OBVIOUS
<1>5. ASSUME NEW x \in K
      PROVE  /\ x \in Scan /\ x.pg.lpn = l /\ x.pg.epoch \in Saved..(c - 1) /\ x.pg.epoch # GcTag
             /\ l \in hist[x.pg.epoch + 1] /\ x.pg.ver = x.pg.epoch + 1
  <2>1. x \in Scan /\ x.pg.lpn = l /\ x.pg.epoch < c /\ x.pg.epoch \in Nat
    BY <1>4, <1>5, ScanEpochs DEF Kept
  <2>2. x.pg.epoch # GcTag
    BY <1>1, <1>2, <1>4, <2>1, IssuedSmall
  <2>3. x.pg.epoch \in Saved..(Issued - 1)
    BY <2>1, <2>2, ScanEpochs
  <2>4. PageOk(hist, Saved, Scan)
    BY <1>1 DEF AcctOk
  <2>5. l \in hist[x.pg.epoch + 1] /\ x.pg.ver = x.pg.epoch + 1
    BY <2>1, <2>2, <2>4 DEF PageOk
  <2> QED
    BY <1>1, <1>2, <1>4, <2>1, <2>2, <2>3, <2>5
<1>6. PICK x0 \in K : TRUE
  BY <1>4
<1>7. PICK f \in Saved..(c - 1) : /\ l \in hist[f + 1] /\ InScan(Scan, f, l)
                                  /\ \A j \in (f + 2)..c : l \notin hist[j]
  <2>1. PICK e : e = x0.pg.epoch
    OBVIOUS
  <2>2. e \in Saved..(c - 1) /\ l \in hist[e + 1]
    BY <1>5, <1>6, <2>1
  <2>3. Safe(hist, Saved, cache, Deps, Ids, PendingPages, c) /\ c \in Nat
    BY <1>2, <1>3, <1>4
  <2> HIDE <1>4, <2>1
  <2> QED
    BY <1>1, <2>2, <2>3, LastWritten
<1>8. PICK z \in Scan : z.pg.lpn = l /\ z.pg.epoch = f
  BY <1>7 DEF InScan
<1>9. z \in K /\ f \in Nat /\ f < c
  BY <1>1, <1>2, <1>4, <1>7, <1>8 DEF Kept
<1>10. UpTo(K, f)
  <2> SUFFICES ASSUME NEW x \in K
               PROVE  x.pg.epoch \in Nat /\ x.pg.epoch <= f
    BY DEF UpTo
  <2>1. x.pg.epoch \in Saved..(c - 1) /\ l \in hist[x.pg.epoch + 1]
    BY <1>5
  <2>2. PICK j : j = x.pg.epoch + 1
    OBVIOUS
  <2>3. x.pg.epoch \in Nat /\ j \in Nat /\ j <= c /\ l \in hist[j]
    BY <1>1, <1>2, <1>4, <2>1, <2>2
  <2>4. j \notin (f + 2)..c
    BY <1>7, <2>3
  <2> QED
    BY <1>2, <1>4, <1>9, <2>2, <2>3, <2>4
<1>11. PICK b : b = Bank(l)
  OBVIOUS
<1>12. b \in Nat /\ Placed(K, b)
  <2>1. b \in Banks
    BY <1>11, BankType
  <2>2. Act \in [Banks -> Ppn]
    BY <1>1, SavedType
  <2>3. ASSUME NEW x \in K
        PROVE  /\ \E n, p \in Nat : x.at = <<b, n, p>>
               /\ \A y \in Scan : x.at = y.at => x = y
    BY <1>1, <1>5, <1>11, <2>2, <2>3, ScanFacts DEF Scan, Live
  <2>4. \A y \in K : y \in Scan
    BY <1>5
  <2> QED
    BY <2>1, <2>3, <2>4 DEF Placed, Banks
<1>13. PICK v : v = NewestOf(K)
  OBVIOUS
<1>14. v \in K /\ v.pg.epoch = f
  <2> HIDE <1>4, <1>11
  <2> QED
    BY <1>8, <1>9, <1>10, <1>12, <1>13, NewestIs
<1>15. v \in Scan /\ v.pg.lpn = l /\ v.pg.ver = f + 1
  BY <1>5, <1>14
<1>16. Holds(flash, l, v.ppn) = f + 1
  <2>1. Act \in [Banks -> Ppn]
    BY <1>1, SavedType
  <2>2. /\ v.ppn \in [blk : Blks, page : Nat]
        /\ v.ppn.page < Len(flash[Bank(l)][v.ppn.blk].pages)
        /\ v.pg = flash[Bank(l)][v.ppn.blk].pages[v.ppn.page + 1]
    BY <1>1, <1>15, <2>1, ScanFacts DEF Scan, Live
  <2>3. v.ppn # NoPpn
    BY <2>2, BlksNoBlk DEF NoPpn
  <2> QED
    BY <1>15, <2>2, <2>3 DEF Holds
<1>17. LastIs(hist, c, l, f + 1)
  BY <1>2, <1>4, <1>7, <1>9 DEF LastIs
<1> QED
  BY <1>4, <1>13, <1>16, <1>17

\* A page that no write kept has written since the tag is intact.
LEMMA NotKept ==
  ASSUME CutInv, OldInv, Live, Tagged, NEW l \in Lpns, Kept(Scan, l, Cut) = {}
  PROVE  LastIs(hist, Cut, l, Holds(flash, l, Redone[l]))
<1>1. /\ TypeOK /\ SInv /\ Chains(Act) /\ EpochInv
      /\ AcctOk(hist, Saved, Scan, cache, Deps, PendingPages)
      /\ hist \in Seq(SUBSET Lpns) /\ Saved \in Nat
  BY SavedType DEF CutInv, ChainInv, AcctInv, TypeOK
<1>2. Cut \in Nat /\ Cut <= Issued /\ Issued \in Nat /\ Saved <= Cut
  BY <1>1, CutRange, IssuedSmall
<1>3. OldOk(l)
  BY DEF OldInv
<1>4. PICK v : v = Holds(flash, l, Redone[l])
  OBVIOUS
<1>5. CASE Saved = 0
  <2>1. Cut = 0
    BY <1>5, CutZero
  <2>2. ~Overtaken(Scan, l, Cut)
    BY <2>1, ScanEpochs DEF Overtaken
  <2>3. LastIs(hist, Saved, l, v)
    BY <1>3, <1>4, <2>2 DEF OldOk, Intact
  <2> QED
    BY <1>4, <1>5, <2>1, <2>3
<1>6. CASE Saved >= 1
  <2>1. ASSUME NEW x \in Scan, x.pg.lpn = l, x.pg.epoch # GcTag
        PROVE  x.pg.epoch >= Cut
    <3>1. x.pg.epoch \in Saved..(Issued - 1)
      BY <2>1, ScanEpochs
    <3> QED
      BY <1>1, <1>2, <1>6, <2>1, <3>1 DEF Kept
  <2>2. ~Overtaken(Scan, l, Cut)
    BY <1>2, <2>1, ScanEpochs DEF Overtaken
  <2>3. LastIs(hist, Saved, l, v)
    BY <1>3, <1>4, <2>2 DEF OldOk, Intact
  <2>4. PICK c : c = Cut
    OBVIOUS
  <2>5. Safe(hist, Saved, cache, Deps, Ids, PendingPages, c) /\ c \in Nat
    BY <1>2, <1>6, <2>4, CutMost DEF MostSafe, SafeAt
  <2>6. \A j \in (Saved + 1)..c : l \notin hist[j]
    <3> SUFFICES ASSUME NEW j \in (Saved + 1)..c, l \in hist[j]
                 PROVE  FALSE
      OBVIOUS
    <3>1. PICK e : e = j - 1
      OBVIOUS
    <3>2. e \in Saved..(c - 1) /\ l \in hist[e + 1]
      BY <1>1, <1>2, <2>5, <3>1
    <3>3. PICK f \in Saved..(c - 1) : /\ l \in hist[f + 1] /\ InScan(Scan, f, l)
                                      /\ \A i \in (f + 2)..c : l \notin hist[i]
      <4> HIDE <2>4, <3>1
      <4> QED
        BY <1>1, <2>5, <3>2, LastWritten
    <3>4. PICK z \in Scan : z.pg.lpn = l /\ z.pg.epoch = f
      BY <3>3 DEF InScan
    <3>5. f # GcTag /\ f < Cut
      BY <1>1, <1>2, <2>4, <3>3, IssuedSmall
    <3> QED
      BY <1>2, <2>1, <3>3, <3>4, <3>5
  <2>7. LastIs(hist, c, l, v)
    <3>1. v \in 0..c /\ (v # 0 => l \in hist[v])
      BY <1>1, <1>2, <2>3, <2>4 DEF LastIs
    <3>2. \A j \in (v + 1)..c : j \in (v + 1)..Saved \/ j \in (Saved + 1)..c
      BY <1>1, <1>2, <2>5, <3>1
    <3> QED
      BY <2>3, <2>6, <3>1, <3>2 DEF LastIs
  <2> QED
    BY <1>4, <2>4, <2>7
<1> QED
  BY <1>1, <1>5, <1>6

\* Recovery returns the first Cut writes.
LEMMA RecoverKeeps ==
  CutInv /\ FlushInv /\ BufInv /\ HistInv /\ OldInv /\ Live => RecoverOk
<1> SUFFICES ASSUME CutInv, FlushInv, BufInv, HistInv, OldInv, Live, NEW l \in Lpns
             PROVE  LastIs(hist, Cut, l, Holds(flash, l, RecMap[l]))
  BY DEF RecoverOk
<1>1. TypeOK /\ EpochInv /\ LogInv
  BY DEF CutInv
<1>2. CASE ~Tagged
  <2>1. Cut = Issued /\ RecMap = pgmap /\ pc = "tag" /\ ~InWrite
    BY <1>1, <1>2, CutNoTag DEF RecMap
  <2>2. AllClean /\ l \notin PendingPages
    BY <2>1 DEF FlushInv, AllClean, PendingPages, Writing
  <2>3. LastIs(hist, Issued, l, ReadView(l))
    BY <2>2 DEF HistInv
  <2>4. ReadView(l) = Holds(flash, l, pgmap[l])
    BY <1>1, <2>2, CleanRead, StoredIs
  <2> QED
    BY <2>1, <2>3, <2>4
<1>3. CASE Tagged /\ Kept(Scan, l, Cut) = {}
  BY <1>3, NotKept, RecTagged
<1>4. CASE Tagged /\ Kept(Scan, l, Cut) # {}
  <2>1. Saved >= 1
    <3>1. Saved \in Nat
      BY <1>1, <1>4, SavedType
    <3>2. CASE Saved = 0
      <4>1. Cut = 0
        BY <1>4, <3>2, CutZero
      <4> QED
        BY <1>4, <4>1, ScanEpochs DEF Kept
    <3> QED
      BY <3>1, <3>2
  <2> QED
    BY <1>4, <2>1, KeptIs, RecTagged
<1> QED
  BY <1>2, <1>3, <1>4

-----------------------------------------------------------------------------
(* What was flushed.                                                       *)

\* A flush answered after the last checkpoint is part of what recovery keeps.
FlushOk == Live /\ Tagged => Saved = 0 \/ flushed <= Cut

\* A flush command ends, or close does.
LEMMA FlushedSteps ==
  ASSUME TypeOK, [Next]_vars, pc # "recovered", pc' # "recovered"
  PROVE  flushed' = flushed \/ (pc = "flush" /\ RoundsOver) \/ pc = "erasemap"
<1> USE DEF nand, wbuf, tables, chkpt, loops, gcvars, ghosts
<1>1. CASE WriteStep
  BY <1>1 DEF WriteStep, WritePool, LookupMiss, LookupHit, CleanPool, CleanFound,
     DepFull, Written
<1>2. CASE FlushStep
  BY <1>2 DEF FlushStep, FlushDeps, FlushBank, FlushAgain, FlushDone
<1>3. CASE GcStep
  BY <1>3 DEF GcStep, GcSkip, GcBegin, GcCopy, GcEnd, GcRound
<1>4. CASE ChkptStep
  BY <1>4 DEF ChkptStep, RecordMapent, RecordTag, PersistMap, EraseMap, EraseLog
<1>5. CASE SummaryPage \/ PoolStep \/ HostFlush \/ IdlePool \/ Timer \/ UNCHANGED vars
  BY <1>5 DEF SummaryPage, PoolStep, HostFlush, IdlePool, Timer, vars
<1>6. CASE \E c \in WriteCmds : HostWrite(c[1], c[2])
  BY <1>6 DEF HostWrite
<1>7. ~CrashAndRecover
  BY DEF CrashAndRecover
<1> QED
  BY <1>1, <1>2, <1>3, <1>4, <1>5, <1>6, <1>7 DEF Next, FtlStep

\* At the end of the rounds everything is in flash.
LEMMA RoundsClean ==
  ASSUME TypeOK, FlushInv, pc = "flush", RoundsOver
  PROVE  AllClean /\ deps = <<>> /\ PendingPages = {}
<1>1. deps = <<>> /\ \A b \in Banks : b < bank => Clean(b)
  BY DEF FlushInv, RoundsOver
<1>2. \A b \in Banks : b < bank
  BY RecoveryAssumption DEF Banks, RoundsOver
<1>3. PendingPages = {}
  BY DEF PendingPages, Writing
<1> QED
  BY <1>1, <1>2, <1>3 DEF AllClean

\* Every step keeps FlushOk: at the end of a flush the cut is all that was
\* issued.
LEMMA NextFlushOk ==
  ASSUME CutInv, CutInv', RoomLeft, RoomLeft', FlushInv, CacheInv, DepFullInv, DepFullInv',
         FlushedInv, FlushOk, [Next]_vars
  PROVE  FlushOk'
<1> SUFFICES ASSUME Live', Tagged', Saved' # 0
             PROVE  flushed' <= Cut'
  BY DEF FlushOk
<1>1. /\ pc # "recovered" /\ pc' # "recovered" /\ Live
      /\ TypeOK /\ EpochInv /\ LogInv /\ TagShape
  BY RecoveredStays DEF Live, vars, CutInv, LogInv
<1>2. /\ Cut \in Nat /\ (Tagged => Saved <= Cut) /\ Cut' \in Nat /\ Cut' >= Cut
      /\ flushed \in Nat /\ flushed <= Issued /\ Issued \in Nat
  BY <1>1, CutRange, NextCut, IssuedType DEF TypeOK, FlushedInv, Issued
<1>3. /\ flushed' # flushed => flushed' = Issued
  BY <1>1, HistGrows DEF Issued
<1>4. CASE RecordTag
  <2>1. Saved' = Issued /\ flushed' = flushed
    BY <1>1, <1>4, TagFacts DEF RecordTag, ghosts
  <2>2. (CutInv /\ Live => Cut \in Nat /\ Cut <= Issued /\ (Tagged => Saved <= Cut))'
    BY CutRange, PTL
  <2> QED
    BY <1>2, <2>1, <2>2
<1>5. CASE ~RecordTag
  <2>1. Tagged /\ Saved' = Saved
    BY <1>1, <1>5, SavedKept
  <2>2. Saved \in Nat
    BY <1>1, <2>1, SavedType
  <2>3. CASE flushed' = flushed
    BY <1>1, <1>2, <2>1, <2>3 DEF FlushOk
  <2>4. CASE pc = "flush" /\ RoundsOver
    <3>1. AllClean /\ deps = <<>> /\ PendingPages = {} /\ Saved >= 1
      BY <1>1, <2>1, <2>2, <2>4, RoundsClean
    <3>2. Cut = Issued
      BY <1>1, <2>1, <3>1, FullCut
    <3> QED
      BY <1>2, <1>3, <3>2
  <2>5. CASE pc = "erasemap"
    <3>1. Saved = Issued
      BY <1>1, <2>5 DEF TagShape, Fresh
    <3> QED
      BY <1>2, <1>3, <2>1, <3>1
  <2> QED
    BY <1>1, <2>3, <2>4, <2>5, FlushedSteps
<1> QED
  BY <1>4, <1>5

\* After format nothing was flushed.
LEMMA InitFlushOk ==
  ASSUME Init
  PROVE  FlushOk
BY InitTag DEF FlushOk

\* From the first checkpoint on recovery keeps what was flushed.
LEMMA CutDurable ==
  ASSUME CutInv, FlushedInv, FlushOk, Live
  PROVE  Durable \in Nat /\ Durable <= Cut
<1>1. /\ TypeOK /\ EpochInv /\ LogInv /\ TagShape /\ MapAge
  BY DEF Live, CutInv, LogInv
<1>2. /\ Cut \in Nat /\ flushed \in Nat /\ flushed <= Issued /\ Issued \in Nat
      /\ Durable \in {0, flushed} /\ (~Checkpointed => Durable = 0)
  BY <1>1, CutRange, IssuedType DEF TypeOK, FlushedInv, Issued, Durable
<1>3. CASE ~Tagged
  BY <1>1, <1>2, <1>3, CutNoTag
<1>4. CASE Tagged /\ Saved # 0
  BY <1>2, <1>4 DEF FlushOk
<1>5. CASE Tagged /\ Saved = 0 /\ Checkpointed
  <2>1. ASSUME NEW i \in TagsOf(log), log[i].epoch # EpochPred(0)
        PROVE  FALSE
    <3>1. EpochSucc(log[i].epoch) <= 0
      BY <1>1, <1>5 DEF TagShape
    <3>2. log[i].epoch \in Epochs
      <4>1. log \in Seq(LogPage) /\ i \in DOMAIN log /\ log[i].type = "tag"
        BY <1>1 DEF TypeOK, TagsOf
      <4> QED
        BY <4>1, ElementOfSeq DEF LogPage
    <3> QED
      BY <2>1, <3>1, <3>2, RecoveryAssumption DEF Epochs, EpochSucc, EpochPred
  <2>2. PICK i \in {0, 1} : maps[i].epoch # 0
    BY <1>5, <2>1 DEF Checkpointed, RestoredMap, NoMap
  <2>3. g_epoch = 0 /\ pc \in Fresh \cup {"tag"}
    BY <1>1, <1>5, <2>2 DEF MapAge
  <2>4. Issued = 0
    BY <1>1, <2>3 DEF EpochInv, InWrite, Writing, Issued, Fresh, Live
  <2> QED
    BY <1>2, <2>4
<1> QED
  BY <1>2, <1>3, <1>4, <1>5

-----------------------------------------------------------------------------
(* A recovered drive.                                                      *)

\* It holds the first incomplete writes, and those cover what was durable.
RecInv ==
  pc = "recovered" =>
    /\ incomplete \in Durable..Len(hist)
    /\ \A l \in Lpns : ReadView(l) = Disk!View(incomplete)[l]

\* A power failure: the drive holds the first Cut writes.
LEMMA CrashFacts ==
  ASSUME CutInv, FlushInv, BufInv, HistInv, OldInv, FlushedInv, FlushOk, CrashAndRecover
  PROVE  /\ UNCHANGED <<flash, log, maps, hist, flushed>> /\ Durable' = Durable
         /\ pc # "recovered" /\ pc' = "recovered" /\ PendingPages' = {}
         /\ incomplete' = Cut /\ Cut \in Durable..Len(hist)
         /\ \A l \in Lpns : ReadView(l)' = Disk!View(Cut)[l]
<1>1. /\ UNCHANGED <<flash, log, maps, hist, flushed>>
      /\ pc # "recovered" /\ pc' = "recovered" /\ Live
      /\ cache' = [b \in Banks |-> [i \in Bufs |-> NoEnt]]
      /\ pgmap' = RecMap /\ incomplete' = Cut
  BY DEF CrashAndRecover, Cut, RecMap, Live
<1>2. Durable' = Durable
  BY <1>1, SameDurable
<1>3. PendingPages' = {}
  BY <1>1 DEF PendingPages, Writing
<1>4. /\ Cut \in Nat /\ Cut <= Len(hist) /\ Durable \in Nat /\ Durable <= Cut
      /\ Len(hist) \in Nat /\ hist \in Seq(SUBSET Lpns)
  <2>1. TypeOK
    BY DEF CutInv
  <2> QED
    BY <1>1, <2>1, CutRange, CutDurable, IssuedType DEF Issued, TypeOK
<1>5. ASSUME NEW l \in Lpns
      PROVE  ReadView(l)' = Disk!View(Cut)[l]
  <2>1. Hits(l)' = {}
    BY <1>1, BankType, LpnNotNone DEF Hits, NoEnt
  <2>2. ReadView(l)' = Holds(flash, l, RecMap[l])
    BY <1>1, <2>1 DEF ReadView, Holds
  <2>3. LastIs(hist, Cut, l, ReadView(l)')
    BY <1>1, <2>2, RecoverKeeps DEF RecoverOk
  <2>4. PICK c : c = Cut
    OBVIOUS
  <2>5. LastIs(hist, c, l, Disk!View(c)[l])
    BY <1>4, <2>4, ViewIs
  <2>6. LastIs(hist, c, l, ReadView(l)')
    BY <2>3, <2>4
  <2>7. ReadView(l)' = Disk!View(c)[l]
    BY <1>4, <2>4, <2>5, <2>6, LastUnique
  <2> QED
    BY <2>4, <2>7
<1> QED
  BY <1>1, <1>2, <1>3, <1>4, <1>5

\* It is a power failure of the ordered disk.
LEMMA CrashStep ==
  ASSUME CutInv, FlushInv, BufInv, HistInv, OldInv, FlushedInv, FlushOk, CrashAndRecover
  PROVE  Disk!DNext
<1>1. PICK c : c = Cut
  OBVIOUS
<1>2. /\ UNCHANGED <<hist, Durable>> /\ pc # "recovered" /\ pc' = "recovered"
      /\ PendingPages' = {} /\ c \in Durable..Len(hist)
      /\ \A l \in Lpns : ReadView(l)' = Disk!View(c)[l]
  BY <1>1, CrashFacts
<1>3. Contents' = Disk!View(c)
  BY <1>2 DEF Contents, Disk!View
<1>4. Disk!PowerFail
  BY <1>2, <1>3 DEF Disk!PowerFail, Contents, Durable
<1> QED
  BY <1>4 DEF Disk!DNext

\* Every step keeps RecInv.
LEMMA NextRec ==
  ASSUME CutInv, FlushInv, BufInv, HistInv, OldInv, FlushedInv, FlushOk, RecInv, [Next]_vars
  PROVE  RecInv'
<1> SUFFICES ASSUME pc' = "recovered"
             PROVE  /\ incomplete' \in Durable'..Len(hist')
                    /\ \A l \in Lpns : ReadView(l)' = (Disk!View(incomplete)[l])'
  BY DEF RecInv
<1>1. CASE pc # "recovered"
  <2>1. CrashAndRecover
    BY <1>1, OnlyCrash DEF CutInv
  <2>2. /\ hist' = hist /\ Durable' = Durable /\ incomplete' = Cut
        /\ Cut \in Durable..Len(hist)
        /\ \A l \in Lpns : ReadView(l)' = Disk!View(Cut)[l]
    BY <2>1, CrashFacts
  <2>3. Disk!View(incomplete)' = Disk!View(Cut)
    BY <2>2 DEF Disk!View
  <2> QED
    BY <2>2, <2>3
<1>2. CASE pc = "recovered"
  <2>1. UNCHANGED vars
    BY <1>2, RecoveredStays
  <2>2. UNCHANGED <<hist, incomplete, cache, pgmap, flash, log, maps, flushed>>
    BY <2>1 DEF vars, nand, wbuf, tables, chkpt, ghosts
  <2>3. Durable' = Durable /\ Disk!View(incomplete)' = Disk!View(incomplete)
    BY <2>2, SameDurable DEF Disk!View
  <2>4. \A l \in Lpns : ReadView(l)' = ReadView(l)
    BY <2>2 DEF ReadView, Hits
  <2> QED
    BY <1>2, <2>2, <2>3, <2>4 DEF RecInv
<1> QED
  BY <1>1, <1>2

\* Every step is a step of the ordered disk, or none.
LEMMA FullStep ==
  ASSUME CutInv, FlushInv, DInv, OneBuf', HistInv, OldInv, FlushOk, RoomLeft, [Next]_vars
  PROVE  [Disk!DNext]_(Disk!dvars)
<1>1. TypeOK /\ EpochInv /\ SInv /\ BufInv /\ FlushedInv
  BY DEF CutInv, DInv
<1>2. CASE pc # "recovered" /\ pc' # "recovered"
  BY <1>1, <1>2, DiskStep
<1>3. CASE pc # "recovered" /\ pc' = "recovered"
  <2>1. CrashAndRecover
    BY <1>1, <1>3, OnlyCrash
  <2> QED
    BY <1>1, <2>1, CrashStep
<1>4. CASE pc = "recovered"
  <2>1. UNCHANGED vars
    BY <1>4, RecoveredStays
  <2>2. UNCHANGED <<hist, cache, pgmap, flash, log, maps, flushed, w, pc>>
    BY <2>1 DEF vars, nand, wbuf, tables, chkpt, ghosts
  <2>3. \A l \in Lpns : ReadView(l)' = ReadView(l)
    BY <2>2 DEF ReadView, Hits
  <2>4. Contents' = Contents /\ PendingPages' = PendingPages /\ Durable' = Durable
    BY <2>2, <2>3, SameContents, SameDurable DEF PendingPages, Writing
  <2> QED
    BY <2>2, <2>4 DEF Disk!dvars, Contents, Durable
<1> QED
  BY <1>2, <1>3, <1>4

-----------------------------------------------------------------------------
(* The invariant is inductive.                                             *)

\* The log and the chains of blocks; the account of the writes that flash,
\* log and DRAM hold; what the host reads; what recovery makes of the map.
LayoutInv == LogInv /\ ChainInv /\ FreshScan /\ ZeroInv
WriteInv  == DepFullInv /\ RunInv /\ AcctInv
ReadInv   == HistInv /\ MapNow /\ OldInv /\ FlushOk /\ RecInv
BaseInv   == IInv /\ SInv /\ DInv
FullInv   == LayoutInv /\ WriteInv /\ ReadInv

\* The earlier invariants, part by part.
LEMMA BaseParts ==
  BaseInv => /\ TypeOK /\ EpochInv /\ FlushInv /\ CacheInv /\ SInv
             /\ DInv /\ BufInv /\ OneBuf /\ TagInv /\ FlushedInv
BY DEF BaseInv, IInv, DInv, BufInv

\* Every step keeps FullInv.
LEMMA NextFull ==
  ASSUME BaseInv, BaseInv', RoomLeft, RoomLeft', FullInv, [Next]_vars
  PROVE  FullInv'
<1>1. /\ TypeOK /\ EpochInv /\ FlushInv /\ CacheInv /\ SInv
      /\ BufInv /\ OneBuf /\ TagInv /\ FlushedInv
  BY BaseParts
<1>2. (BaseInv => /\ TypeOK /\ EpochInv /\ FlushInv /\ CacheInv /\ SInv
                  /\ DInv /\ BufInv /\ OneBuf /\ TagInv /\ FlushedInv)'
  BY BaseParts, PTL
<1>3. TypeOK' /\ EpochInv' /\ SInv' /\ BufInv' /\ OneBuf'
  BY <1>2
<1>4. /\ LogInv /\ ChainInv /\ FreshScan /\ ZeroInv /\ DepFullInv /\ RunInv
      /\ AcctInv /\ HistInv /\ MapNow /\ OldInv /\ FlushOk /\ RecInv
  BY DEF FullInv, LayoutInv, WriteInv, ReadInv
<1>5. LogInv'
  BY <1>1, <1>4, NextLogInv
<1>6. ChainInv'
  BY <1>1, <1>3, <1>4, NextChain
<1>7. FreshScan'
  BY <1>1, <1>3, <1>4, NextFreshScan
<1>8. ZeroInv'
  BY <1>1, <1>4, NextZero
<1>9. DepFullInv' /\ RunInv'
  BY <1>1, <1>3, <1>4, NextDepFull, NextRun
<1>10. AcctInv'
  BY <1>1, <1>3, <1>4, <1>5, <1>7, <1>9, NextAcct
<1>11. CutInv /\ CutInv'
  BY <1>1, <1>3, <1>4, <1>5, <1>6, <1>9, <1>10 DEF CutInv
<1>12. HistInv'
  BY <1>1, <1>3, <1>4, NextHist
<1>13. MapNow'
  BY <1>1, <1>3, <1>4, NextMap
<1>14. OldInv'
  BY <1>1, <1>3, <1>4, <1>7, <1>9, <1>11, <1>12, <1>13, NextOld
<1>15. FlushOk'
  BY <1>1, <1>4, <1>9, <1>11, NextFlushOk
<1>16. RecInv'
  BY <1>1, <1>4, <1>11, NextRec
<1> QED
  BY <1>5, <1>6, <1>7, <1>8, <1>9, <1>10, <1>12, <1>13, <1>14, <1>15, <1>16
     DEF FullInv, LayoutInv, WriteInv, ReadInv

\* It holds after format.
LEMMA InitFull ==
  Init => FullInv
<1> SUFFICES ASSUME Init
             PROVE  FullInv
  OBVIOUS
<1>1. LayoutInv
  BY InitLogInv, InitScan DEF LayoutInv
<1>2. WriteInv
  BY InitAcct DEF WriteInv
<1>3. ReadInv
  BY InitHist, InitMap, InitOld, InitFlushOk DEF ReadInv, RecInv, Init
<1> QED
  BY <1>1, <1>2, <1>3 DEF FullInv

\* It has what the lemmas about the cut need.
LEMMA FullCutInv ==
  BaseInv /\ FullInv => CutInv
BY BaseParts DEF FullInv, LayoutInv, WriteInv, CutInv

\* The earlier theorems together.
LEMMA BaseInvariant == Spec /\ []RoomLeft => []BaseInv
<1>1. IInv /\ SInv /\ DInv => BaseInv
  BY DEF BaseInv
<1> QED
  BY <1>1, InductiveInvariant, SpaceInvariant, DiskInvariant, PTL

-----------------------------------------------------------------------------
(* The chain and the reserved blocks.                                      *)

LEMMA RoundBetween ==
  ASSUME NEW N \in Nat \ {0}, NEW t \in 0..(N - 1), NEW u \in 1..N, NEW m \in 0..(u - 1),
         NEW k \in m..(u - 1), NEW i, NEW a, NEW h, a # h,
         i = IF t + k < N THEN t + k ELSE t + k - N,
         a = IF t + m < N THEN t + m ELSE t + m - N,
         h = IF t + u < N THEN t + u ELSE t + u - N
  PROVE  (i - a + N) % N < (h - a + N) % N
<1>1. \A x \in 0..(2 * N - 1) : x % N = IF x < N THEN x ELSE x - N
  BY Wrap
<1>2. PICK x, y : x = i - a + N /\ y = h - a + N
  OBVIOUS
<1>3. x = N + (k - m) \/ x = k - m
  BY <1>2
<1>4. u - m < N
  OBVIOUS
<1>5. y = N + (u - m) \/ y = u - m
  BY <1>2
<1>6. x \in 0..(2 * N - 1) /\ y \in 0..(2 * N - 1) /\ k - m \in 0..(N - 1) /\ u - m \in 0..(N - 1)
  BY <1>3, <1>4, <1>5
<1>7. x % N = k - m /\ y % N = u - m
  BY <1>1, <1>3, <1>5, <1>6
<1> QED
  BY <1>2, <1>6, <1>7

\* From the mark to the head the blocks are reserved, unless the mark has
\* been overtaken by the head.
LEMMA BetweenReserved ==
  ASSUME NEW r \in RingType, RingOk(r), r.rsv # r.head,
         NEW m \in 0..(Used(r) - 1), At(r, m) = r.rsv, NEW k \in m..(Used(r) - 1)
  PROVE  Nth(r, k) \in ReservedBlks(r)
<1>1. /\ NumBlks \in Nat \ {0} /\ Used(r) \in 1..NumBlks /\ r.tail \in 0..(NumBlks - 1)
      /\ r.rsv \in Idx
  BY NumBlksAssumption DEF RingOk, Used, RingType, Idx
<1>2. PICK N, t, u : N = NumBlks /\ t = r.tail /\ u = Used(r)
  OBVIOUS
<1>3. \A j \in 0..N : (t + j) % N = IF t + j < N THEN t + j ELSE t + j - N
  BY <1>1, <1>2, Round
<1>4. k \in 0..N /\ m \in 0..N /\ u \in 0..N
  BY <1>1, <1>2
<1>5. PICK i, a, h : i = At(r, k) /\ a = r.rsv /\ h = r.head
  OBVIOUS
<1>6. /\ i = IF t + k < N THEN t + k ELSE t + k - N
      /\ a = IF t + m < N THEN t + m ELSE t + m - N
      /\ h = IF t + u < N THEN t + u ELSE t + u - N
  BY <1>2, <1>3, <1>4, <1>5 DEF At, RingOk
<1>7. (i - a + N) % N < (h - a + N) % N
  BY <1>1, <1>2, <1>5, <1>6, RoundBetween
<1>8. i \in Idx
  BY <1>1, <1>2, <1>4, <1>6 DEF Idx
<1>9. i \in Segment(r.rsv, r.head)
  BY <1>2, <1>5, <1>7, <1>8 DEF Segment
<1> QED
  BY <1>5, <1>9 DEF ReservedBlks, Nth

\* The blocks recovery scans are those from the mark to the head.
LEMMA ChainIsReserved ==
  ASSUME TypeOK, SInv, ChainInv, RoomLeft
  PROVE  ChainReserved
<1> SUFFICES ASSUME pc # "recovered", Tagged, NEW b \in Banks
             PROVE  LET chain == ChainOf(flash[b], LastTag(log).active[b])
                    IN  /\ Last(chain) = active[b].blk
                        /\ \A n \in DOMAIN chain : chain[n] \in ReservedBlks(ring[b])
  BY DEF ChainReserved, Tagged
<1>1. PICK fl, r, ac, ta : fl = flash[b] /\ r = ring[b] /\ ac = active[b] /\ ta = Act[b]
  OBVIOUS
<1>2. /\ r \in RingType /\ ac \in Ppn /\ BankOk(fl, r, ac) /\ ChainOk(fl, r, ta)
      /\ r.rsv # r.head
  BY <1>1 DEF TypeOK, SInv, SpaceInv, ChainInv, Live, Chains, RoomLeft
<1>3. PICK m \in Nat : ChainAt(fl, r, ta, m)
  BY <1>2 DEF ChainOk
<1>4. PICK k, chain : k = Used(r) - m /\ chain = [n \in 1..k |-> Nth(r, m + n - 1)]
  OBVIOUS
<1>5. ChainOf(fl, ta) = chain
  <2>1. ChainOf(fl, ta) = [n \in 1..(Used(r) - m) |-> Nth(r, m + n - 1)]
    <3> HIDE <1>4
    <3> QED
      BY <1>2, <1>3, ChainBlocks
  <2> QED
    BY <1>4, <2>1
<1>6. /\ m \in 0..(Used(r) - 1) /\ At(r, m) = r.rsv /\ RingOk(r)
      /\ ac.blk = Nth(r, Used(r) - 1) /\ Used(r) \in 1..NumBlks
      /\ \A j \in Idx : Nth(r, j) \in Blks
  BY <1>2, <1>3, BankFacts DEF ChainAt, BankOk
<1>7. k \in Nat /\ k >= 1 /\ m + k - 1 = Used(r) - 1
  BY <1>4, <1>6, NumBlksAssumption
<1>8. chain \in Seq(Blks) /\ Len(chain) = k /\ chain[k] = ac.blk
  <2>1. \A n \in 1..k : m + n - 1 \in Idx
    BY <1>6, <1>7, NumBlksAssumption DEF Idx
  <2>2. chain \in [1..k -> Blks]
    BY <1>4, <1>6, <2>1
  <2>3. chain \in Seq(Blks) /\ Len(chain) = k
    BY <1>7, <2>2
  <2>4. chain[k] = Nth(r, m + k - 1)
    BY <1>4, <1>7
  <2> QED
    BY <1>6, <1>7, <2>3, <2>4
<1>9. Last(chain) = ac.blk
  BY <1>8 DEF Last
<1>10. ASSUME NEW n \in 1..k
       PROVE  chain[n] \in ReservedBlks(r)
  <2>1. PICK j : j = m + n - 1
    OBVIOUS
  <2>2. j \in m..(Used(r) - 1) /\ chain[n] = Nth(r, j)
    BY <1>4, <1>6, <1>7, <2>1
  <2> QED
    BY <1>2, <1>6, <2>2, BetweenReserved
<1>11. DOMAIN chain = 1..k
  BY <1>4
<1> QED
  BY <1>1, <1>5, <1>9, <1>10, <1>11 DEF Act

-----------------------------------------------------------------------------
(***************************************************************************)
(* The theorems                                                            *)
(***************************************************************************)

\* As long as nothing runs out, the log, the blocks to scan, the account of
\* the writes and the places of all pages are such that recovery works,
\* whenever power fails.
THEOREM RecoveryInvariant == Spec /\ []RoomLeft => []FullInv
<1>1. BaseInv /\ BaseInv' /\ RoomLeft /\ RoomLeft' /\ FullInv /\ [Next]_vars => FullInv'
  BY NextFull
<1> QED
  BY <1>1, InitFull, BaseInvariant, PTL DEF Spec

\* The image recovery leaves is exactly that of the first incomplete writes:
\* check_prefix of the simulator, for every value of the constants.
THEOREM RecoversPrefix == Spec /\ []RoomLeft => []PrefixSemantics
<1>1. BaseInv /\ FullInv => PrefixSemantics
  <2> SUFFICES ASSUME BaseInv, FullInv, pc = "recovered"
               PROVE  /\ incomplete <= Len(hist)
                      /\ \A l \in Lpns : ReadView(l) = Disk!View(incomplete)[l]
    BY DEF PrefixSemantics
  <2>1. /\ incomplete \in Durable..Len(hist)
        /\ \A l \in Lpns : ReadView(l) = Disk!View(incomplete)[l]
    BY DEF FullInv, ReadInv, RecInv
  <2> QED
    BY <2>1
<1> QED
  BY <1>1, RecoveryInvariant, BaseInvariant, PTL

\* From the first checkpoint on the writes recovery keeps cover the last
\* flush that was answered, and the last close.
THEOREM KeepsFlushed == Spec /\ []RoomLeft => []FlushSemantics
<1>1. BaseInv /\ FullInv => FlushSemantics
  <2> SUFFICES ASSUME BaseInv, FullInv, pc = "recovered", Checkpointed
               PROVE  incomplete >= flushed
    BY DEF FlushSemantics
  <2>1. incomplete \in Durable..Len(hist)
    BY DEF FullInv, ReadInv, RecInv
  <2>2. Durable = flushed /\ flushed \in Nat
    BY BaseParts DEF Durable, TypeOK
  <2> QED
    BY <2>1, <2>2
<1> QED
  BY <1>1, RecoveryInvariant, BaseInvariant, PTL

\* Map table, logged and pending map entries always give the current map: no
\* entry is lost, neither when the list goes to the log page by page nor
\* when the log is erased.
THEOREM MapRebuildable == Spec /\ []RoomLeft => []MapentsComplete
<1>1. BaseInv /\ FullInv => MapentsComplete
  BY BaseParts, NowComplete DEF FullInv, ReadInv
<1> QED
  BY <1>1, RecoveryInvariant, BaseInvariant, PTL

\* No step, power failures included, takes a write away that recovery would
\* have kept: not a dequeue, not a copy, not the erase of a block, of the
\* log or of a map table.
THEOREM RecoveryGrows == Spec /\ []RoomLeft => NeverForgets
<1>1. ASSUME BaseInv, BaseInv', FullInv, FullInv', RoomLeft, RoomLeft', [Next]_vars
      PROVE  [Cut' >= Cut]_vars
  <2>1. /\ FlushInv /\ CacheInv /\ DepFullInv /\ CutInv /\ FlushedInv /\ TypeOK
    BY <1>1, BaseParts, FullCutInv DEF FullInv, WriteInv
  <2>2. DepFullInv'
    BY <1>1 DEF FullInv, WriteInv
  <2>3. (BaseInv /\ FullInv => CutInv)'
    BY FullCutInv, PTL
  <2>4. CASE pc # "recovered" /\ pc' # "recovered"
    BY <1>1, <2>1, <2>2, <2>3, <2>4, NextCut
  <2>5. CASE pc # "recovered" /\ pc' = "recovered"
    <3>1. CrashAndRecover /\ Live
      BY <1>1, <2>1, <2>5, OnlyCrash DEF Live
    <3>2. UNCHANGED <<flash, log, maps>>
      BY <3>1 DEF CrashAndRecover
    <3>3. Cut' = Cut /\ Cut \in Nat
      BY <2>1, <3>1, <3>2, SameCut, CutRange
    <3> QED
      BY <3>3
  <2>6. CASE pc = "recovered"
    BY <1>1, <2>6, RecoveredStays
  <2> QED
    BY <2>4, <2>5, <2>6
<1>2. [Cut' >= Cut]_vars =>
        [Recover(flash', log', maps').incomplete
           >= Recover(flash, log, maps).incomplete]_vars
  BY DEF Cut
<1> QED
  BY <1>1, <1>2, RecoveryInvariant, BaseInvariant, PTL DEF Spec, NeverForgets

\* The firmware is an ordered disk, power failures included: a power failure
\* leaves a prefix of the writes that covers those which were to survive.
THEOREM ImplementsDisk == Spec /\ []RoomLeft => ImplementsOrderedDisk
<1>1. Spec /\ []RoomLeft => Disk!DInit
  BY ImplementsUntilPowerFails, PTL DEF OrderedUntilPowerFails
<1>2. ASSUME BaseInv, BaseInv', FullInv, RoomLeft, [Next]_vars
      PROVE  [Disk!DNext]_(Disk!dvars)
  <2>1. /\ FlushInv /\ DInv /\ HistInv /\ OldInv /\ FlushOk /\ CutInv
    BY <1>2, BaseParts, FullCutInv DEF FullInv, ReadInv
  <2>2. (BaseInv => /\ TypeOK /\ EpochInv /\ FlushInv /\ CacheInv /\ SInv
                    /\ DInv /\ BufInv /\ OneBuf /\ TagInv /\ FlushedInv)'
    BY BaseParts, PTL
  <2> QED
    BY <1>2, <2>1, <2>2, FullStep
<1> QED
  BY <1>1, <1>2, RecoveryInvariant, BaseInvariant, PTL
     DEF Spec, ImplementsOrderedDisk, Disk!DSpec

\* The blocks recovery scans are reserved, so that garbage collection does
\* not take them.
THEOREM ChainStaysReserved == Spec /\ []RoomLeft => []ChainReserved
<1>1. BaseInv /\ FullInv /\ RoomLeft => ChainReserved
  BY BaseParts, ChainIsReserved DEF FullInv, LayoutInv
<1> QED
  BY <1>1, RecoveryInvariant, BaseInvariant, PTL
=============================================================================
