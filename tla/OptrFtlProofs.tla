--------------------------- MODULE OptrFtlProofs ----------------------------
(***************************************************************************)
(* Theorems about OptrFtl, for every number of banks, blocks, buffers and  *)
(* pages, every threshold and every set of write commands. In four parts:  *)
(* the ring of blocks; types, tags and dependencies; where data go; and,   *)
(* until power fails, an ordered disk.                                     *)
(***************************************************************************)
EXTENDS OptrFtl, TLAPS, SequenceTheorems, FiniteSetTheorems

-----------------------------------------------------------------------------
(***************************************************************************)
(* The ring operators of BlkList keep the type of a ring: every pointer    *)
(* stays a position of the ring, every block a block. They also keep its   *)
(* shape (RingOk), which is stated by counting from the tail: the used     *)
(* blocks come first and the free ones follow, each block once, and a      *)
(* block whose erase is pending is the last free one.                      *)
(***************************************************************************)

LEMMA ModNat ==
  ASSUME NEW N \in Nat \ {0}, NEW x \in Nat
  PROVE  x % N \in 0..(N - 1)
OBVIOUS

\* Moving a pointer one place on, or one place back, stays in the ring.
LEMMA StepIdx ==
  ASSUME NEW i \in Idx
  PROVE  /\ 0 \in Idx
         /\ (i + 1) % NumBlks \in Idx
         /\ (i + NumBlks - 1) % NumBlks \in Idx
BY NumBlksAssumption, ModNat DEF Idx

LEMMA InitRingType == InitRing \in RingType
BY NumBlksAssumption DEF InitRing, RingType, Idx, Blks

LEMMA TakeBlkType ==
  ASSUME NEW r \in RingType
  PROVE  TakeBlk(r) \in RingType /\ HeadBlk(r) \in Blks
<1>1. r.head \in Idx /\ r.list \in [Idx -> Blks] /\ r.free \in Int
  BY DEF RingType
<1>2. (r.head + 1) % NumBlks \in Idx /\ r.free - 1 \in Int
  BY <1>1, StepIdx
<1> QED
  BY <1>1, <1>2 DEF TakeBlk, HeadBlk, RingType

LEMMA PushRsvType ==
  ASSUME NEW r \in RingType
  PROVE  PushRsv(r) \in RingType
<1>1. (r.head + NumBlks - 1) % NumBlks \in Idx
  BY StepIdx DEF RingType
<1> QED
  BY <1>1 DEF PushRsv, RingType

LEMMA SwapVictimType ==
  ASSUME NEW r \in RingType, NEW i \in Idx
  PROVE  SwapVictim(r, i) \in RingType /\ r.list[i] \in Blks
BY DEF SwapVictim, RingType

LEMMA FreeVictimType ==
  ASSUME NEW r \in RingType, NEW blk \in Blks
  PROVE  FreeVictim(r, blk) \in RingType
<1>1. r.tail \in Idx /\ r.free \in Int
  BY DEF RingType
<1>2. (r.tail + 1) % NumBlks \in Idx /\ r.free + 1 \in Int
  BY <1>1, StepIdx
<1> QED
  BY <1>2 DEF FreeVictim, RingType

LEMMA VtErasedType ==
  ASSUME NEW r \in RingType
  PROVE  VtErased(r) \in RingType
BY DEF VtErased, RingType

-----------------------------------------------------------------------------
(* The shape of a ring.                                                    *)

\* The block k steps after the tail; how many blocks are in use.
Nth(r, k) == r.list[At(r, k)]
Used(r)   == NumBlks - r.free

RingOk(r) ==
  /\ r.free \in 0..NumBlks
  /\ \A j, k \in Idx : Nth(r, j) = Nth(r, k) => j = k
  /\ r.head = At(r, Used(r))
  /\ r.vt # NoBlk => r.free > 0 /\ Nth(r, NumBlks - 1) = r.vt

\* A number below 2N wraps round once at most.
LEMMA Wrap ==
  ASSUME NEW N \in Nat \ {0}, NEW x \in 0..(2 * N - 1)
  PROVE  x % N = IF x < N THEN x ELSE x - N
<1>1. CASE x < N
  BY <1>1
<1>2. CASE x >= N
  <2>1. (x - N) % N = x - N
    BY <1>2
  <2>2. x % N = (x - N) % N
    BY <1>2
  <2> QED
    BY <1>2, <2>1, <2>2
<1> QED
  BY <1>1, <1>2

\* Going round a ring of N positions from t.
LEMMA Round ==
  ASSUME NEW N \in Nat \ {0}, NEW t \in 0..(N - 1)
  PROVE  /\ \A k \in 0..N : (t + k) % N = IF t + k < N THEN t + k ELSE t + k - N
         /\ \A k \in 0..(N - 1) : (t + (k + 1)) % N = (((t + k) % N) + 1) % N
         /\ \A k \in 0..(N - 1) : (((t + 1) % N) + k) % N = (t + (k + 1)) % N
<1>1. \A x \in 0..(2 * N - 1) : x % N = IF x < N THEN x ELSE x - N
  BY Wrap
<1>2. ASSUME NEW k \in 0..N
      PROVE  (t + k) % N = IF t + k < N THEN t + k ELSE t + k - N
  <2>1. t + k \in 0..(2 * N - 1)
    OBVIOUS
  <2> QED
    BY <1>1, <2>1
<1>3. ASSUME NEW k \in 0..(N - 1)
      PROVE  /\ (t + (k + 1)) % N = (((t + k) % N) + 1) % N
             /\ (((t + 1) % N) + k) % N = (t + (k + 1)) % N
  <2>1. PICK x : x = (t + k) % N
    OBVIOUS
  <2>2. x = (IF t + k < N THEN t + k ELSE t + k - N) /\ x \in 0..(N - 1)
    BY <1>2, <2>1
  <2>3. (x + 1) % N = IF x + 1 < N THEN x + 1 ELSE x + 1 - N
    BY <1>1, <2>2
  <2>4. PICK y : y = (t + 1) % N
    OBVIOUS
  <2>5. y = (IF t + 1 < N THEN t + 1 ELSE t + 1 - N) /\ y \in 0..(N - 1)
    BY <1>2, <2>4
  <2>6. (y + k) % N = IF y + k < N THEN y + k ELSE y + k - N
    BY <1>1, <2>5
  <2>7. (t + (k + 1)) % N = IF t + (k + 1) < N THEN t + (k + 1) ELSE t + (k + 1) - N
    BY <1>2
  <2>8. (x + 1) % N = (t + (k + 1)) % N
    BY <2>2, <2>3, <2>7
  <2>9. (y + k) % N = (t + (k + 1)) % N
    BY <2>5, <2>6, <2>7
  <2> QED
    BY <2>1, <2>4, <2>8, <2>9
<1> QED
  BY <1>2, <1>3

\* Positions counted from the tail: a step at a time, and round to the tail.
LEMMA AtSteps ==
  ASSUME NEW r \in RingType
  PROVE  /\ \A k \in 0..NumBlks : At(r, k) \in Idx
         /\ \A k \in Idx : At(r, k + 1) = (At(r, k) + 1) % NumBlks
         /\ At(r, 0) = r.tail /\ At(r, NumBlks) = r.tail
         /\ \A j, k \in Idx : At(r, j) = At(r, k) => j = k
<1>1. PICK N, t : N = NumBlks /\ t = r.tail
  OBVIOUS
<1>2. N \in Nat \ {0} /\ N > 1 /\ t \in 0..(N - 1)
  BY <1>1, NumBlksAssumption DEF RingType, Idx
<1>3. \A k : At(r, k) = (t + k) % N
  BY <1>1 DEF At
<1>4. \A k \in 0..N : At(r, k) = IF t + k < N THEN t + k ELSE t + k - N
  BY <1>2, <1>3, Round
<1>5. ASSUME NEW k \in 0..(N - 1)
      PROVE  At(r, k + 1) = (At(r, k) + 1) % N
  <2>1. At(r, k + 1) = (t + (k + 1)) % N /\ At(r, k) = (t + k) % N
    BY <1>3
  <2>2. (t + (k + 1)) % N = (((t + k) % N) + 1) % N
    BY <1>2, Round
  <2> QED
    BY <2>1, <2>2
<1>6. \A k \in 0..N : At(r, k) \in 0..(N - 1)
  BY <1>2, <1>4
<1>7. At(r, 0) = t /\ At(r, N) = t
  BY <1>2, <1>4
<1>8. \A j, k \in 0..(N - 1) : At(r, j) = At(r, k) => j = k
  BY <1>2, <1>4
<1> QED
  BY <1>1, <1>5, <1>6, <1>7, <1>8 DEF Idx

LEMMA InitRingOk == RingOk(InitRing) /\ Used(InitRing) = 0
<1> DEFINE r == InitRing
<1>1. r \in RingType /\ r.tail = 0 /\ r.head = 0 /\ r.free = NumBlks /\ r.vt = NoBlk
  BY InitRingType DEF InitRing
<1>2. \A i \in Idx : r.list[i] = i + 1
  BY DEF InitRing
<1> HIDE DEF r
<1>3. Used(r) = 0 /\ r.head = At(r, Used(r))
  BY <1>1, AtSteps, NumBlksAssumption DEF Used
<1>4. ASSUME NEW j \in Idx, NEW k \in Idx, Nth(r, j) = Nth(r, k)
      PROVE  j = k
  <2>1. At(r, j) \in Idx /\ At(r, k) \in Idx
    BY <1>1, AtSteps, NumBlksAssumption DEF Idx
  <2>2. At(r, j) = At(r, k)
    BY <1>2, <1>4, <2>1 DEF Nth, Idx
  <2> QED
    BY <1>1, <2>2, AtSteps
<1>5. RingOk(r)
  BY <1>1, <1>3, <1>4, NumBlksAssumption DEF RingOk
<1> QED
  BY <1>3, <1>5 DEF r

\* The block taken is the first free one; one more is in use.
LEMMA TakeOk ==
  ASSUME NEW r \in RingType, RingOk(r), r.free > 0, r.vt # NoBlk => r.free > 1
  PROVE  /\ RingOk(TakeBlk(r))
         /\ Used(r) \in Idx /\ HeadBlk(r) = Nth(r, Used(r))
         /\ Used(TakeBlk(r)) = Used(r) + 1 /\ TakeBlk(r).vt = r.vt
         /\ \A k : Nth(TakeBlk(r), k) = Nth(r, k)
<1>1. PICK s : s = TakeBlk(r)
  OBVIOUS
<1>2. /\ s.list = r.list /\ s.tail = r.tail /\ s.vt = r.vt /\ s.free = r.free - 1
      /\ s.head = (r.head + 1) % NumBlks
  BY <1>1 DEF TakeBlk, RingType
<1>3. \A k : At(s, k) = At(r, k) /\ Nth(s, k) = Nth(r, k)
  BY <1>2 DEF At, Nth
<1>4. Used(r) \in Idx /\ Used(s) = Used(r) + 1 /\ s.free \in 0..NumBlks
  BY <1>2, NumBlksAssumption DEF RingOk, Used, Idx
<1>5. s.head = At(s, Used(s))
  <2>1. At(r, Used(r) + 1) = (At(r, Used(r)) + 1) % NumBlks
    BY <1>4, AtSteps
  <2> QED
    BY <1>2, <1>3, <1>4, <2>1 DEF RingOk
<1>6. s.vt # NoBlk => s.free > 0 /\ Nth(s, NumBlks - 1) = s.vt
  BY <1>2, <1>3 DEF RingOk
<1>7. RingOk(s)
  BY <1>3, <1>4, <1>5, <1>6 DEF RingOk
<1>8. HeadBlk(r) = Nth(r, Used(r))
  BY DEF HeadBlk, Nth, RingOk
<1> QED
  BY <1>1, <1>2, <1>3, <1>4, <1>7, <1>8

\* The victim, m steps after the tail, changes places with the tail.
LEMMA SwapOk ==
  ASSUME NEW r \in RingType, RingOk(r), r.vt = NoBlk, NEW m \in Idx
  PROVE  LET s == SwapVictim(r, At(r, m))
         IN  /\ RingOk(s) /\ Used(s) = Used(r) /\ s.vt = NoBlk
             /\ Nth(s, 0) = Nth(r, m) /\ Nth(s, m) = Nth(r, 0)
             /\ \A k \in Idx \ {0, m} : Nth(s, k) = Nth(r, k)
<1>1. PICK s : s = SwapVictim(r, At(r, m))
  OBVIOUS
<1>2. /\ \A k \in Idx : At(r, k) \in Idx
      /\ \A j, k \in Idx : At(r, j) = At(r, k) => j = k
      /\ At(r, 0) = r.tail /\ 0 \in Idx
  BY AtSteps, NumBlksAssumption DEF Idx
<1>3. /\ s.tail = r.tail /\ s.vt = r.vt /\ s.free = r.free /\ s.head = r.head
      /\ s.list = [r.list EXCEPT ![r.tail] = r.list[At(r, m)], ![At(r, m)] = r.list[r.tail]]
      /\ r.list \in [Idx -> Blks] /\ r.tail \in Idx
  BY <1>1, <1>2 DEF SwapVictim, RingType
<1>4. \A k : At(s, k) = At(r, k)
  BY <1>3 DEF At
<1>5. \A i \in Idx : s.list[i] = IF i = At(r, m) THEN r.list[r.tail]
                               ELSE IF i = r.tail THEN r.list[At(r, m)] ELSE r.list[i]
  BY <1>2, <1>3
<1>6. \A k \in Idx : Nth(s, k) = IF k = m THEN Nth(r, 0)
                                ELSE IF k = 0 THEN Nth(r, m) ELSE Nth(r, k)
  BY <1>2, <1>4, <1>5 DEF Nth
<1>7. ASSUME NEW j \in Idx, NEW k \in Idx, Nth(s, j) = Nth(s, k)
      PROVE  j = k
  BY <1>2, <1>6, <1>7 DEF RingOk
<1>8. Used(s) = Used(r) /\ s.head = At(s, Used(s))
  BY <1>3, <1>4 DEF Used, RingOk
<1>9. RingOk(s)
  BY <1>3, <1>7, <1>8 DEF RingOk
<1> QED
  BY <1>1, <1>2, <1>3, <1>6, <1>8, <1>9

\* The tail passes the victim, which becomes the last of the free blocks.
LEMMA FreeOk ==
  ASSUME NEW r \in RingType, RingOk(r), r.free < NumBlks, r.vt = NoBlk
  PROVE  LET s == FreeVictim(r, Nth(r, 0))
         IN  /\ RingOk(s) /\ Used(s) = Used(r) - 1 /\ s.vt = Nth(r, 0)
             /\ \A k \in 0..(NumBlks - 2) : Nth(s, k) = Nth(r, k + 1)
             /\ Nth(s, NumBlks - 1) = Nth(r, 0)
<1>1. PICK s : s = FreeVictim(r, Nth(r, 0))
  OBVIOUS
<1>2. /\ s.list = r.list /\ s.vt = Nth(r, 0) /\ s.free = r.free + 1
      /\ s.head = r.head /\ s.tail = (r.tail + 1) % NumBlks
      /\ r.tail \in Idx /\ r.free \in 0..(NumBlks - 1)
  BY <1>1, NumBlksAssumption DEF FreeVictim, RingType, RingOk
<1>3. ASSUME NEW k \in Idx
      PROVE  At(s, k) = At(r, k + 1)
  <2>1. PICK N, t : N = NumBlks /\ t = r.tail
    OBVIOUS
  <2>2. N \in Nat \ {0} /\ t \in 0..(N - 1) /\ k \in 0..(N - 1)
    BY <1>2, <2>1, NumBlksAssumption DEF Idx
  <2>3. (((t + 1) % N) + k) % N = (t + (k + 1)) % N
    BY <2>2, Round
  <2> QED
    BY <1>2, <2>1, <2>3 DEF At
<1>4. \A k \in 0..(NumBlks - 2) : k \in Idx /\ k + 1 \in Idx /\ Nth(s, k) = Nth(r, k + 1)
  BY <1>2, <1>3, NumBlksAssumption DEF Nth, Idx
<1>5. NumBlks - 1 \in Idx /\ 0 \in Idx /\ Nth(s, NumBlks - 1) = Nth(r, 0)
  <2>1. NumBlks - 1 \in Idx /\ (NumBlks - 1) + 1 = NumBlks /\ 0 \in Idx
    BY NumBlksAssumption DEF Idx
  <2>2. At(s, NumBlks - 1) = At(r, NumBlks) /\ At(r, NumBlks) = At(r, 0)
    BY <1>3, <2>1, AtSteps
  <2> QED
    BY <1>2, <2>1, <2>2 DEF Nth
<1>6. ASSUME NEW j \in Idx, NEW k \in Idx, Nth(s, j) = Nth(s, k)
      PROVE  j = k
  <2>1. \A x \in Idx : x = NumBlks - 1 \/ x \in 0..(NumBlks - 2)
    BY NumBlksAssumption DEF Idx
  <2>2. \A x, y \in Idx : Nth(r, x) = Nth(r, y) => x = y
    BY DEF RingOk
  <2>3. CASE j = NumBlks - 1 /\ k = NumBlks - 1
    BY <2>3
  <2>4. CASE j = NumBlks - 1 /\ k \in 0..(NumBlks - 2)
    BY <1>4, <1>5, <1>6, <2>2, <2>4, NumBlksAssumption
  <2>5. CASE k = NumBlks - 1 /\ j \in 0..(NumBlks - 2)
    BY <1>4, <1>5, <1>6, <2>2, <2>5, NumBlksAssumption
  <2>6. CASE j \in 0..(NumBlks - 2) /\ k \in 0..(NumBlks - 2)
    BY <1>4, <1>6, <2>2, <2>6, NumBlksAssumption
  <2> QED
    BY <2>1, <2>3, <2>4, <2>5, <2>6
<1>7. Used(s) = Used(r) - 1 /\ Used(s) \in Idx /\ Used(r) = Used(s) + 1
  BY <1>2, NumBlksAssumption DEF Used, Idx
<1>8. s.head = At(s, Used(s))
  BY <1>2, <1>3, <1>7 DEF RingOk
<1>9. RingOk(s)
  BY <1>2, <1>5, <1>6, <1>8, NumBlksAssumption DEF RingOk
<1> QED
  BY <1>1, <1>2, <1>4, <1>5, <1>7, <1>9

\* push_rsv and the erase of the pending block leave the places alone.
LEMMA SameRingOk ==
  ASSUME NEW r \in RingType, RingOk(r), NEW s, s = PushRsv(r) \/ s = VtErased(r)
  PROVE  /\ RingOk(s) /\ Used(s) = Used(r) /\ \A k : Nth(s, k) = Nth(r, k)
         /\ s.vt = IF s = PushRsv(r) THEN r.vt ELSE NoBlk
<1>1. /\ s.list = r.list /\ s.tail = r.tail /\ s.free = r.free /\ s.head = r.head
      /\ s.vt = r.vt \/ s.vt = NoBlk
      /\ s = PushRsv(r) => s.vt = r.vt
      /\ s # PushRsv(r) => s.vt = NoBlk
  BY DEF PushRsv, VtErased, RingType
<1>2. \A k : At(s, k) = At(r, k) /\ Nth(s, k) = Nth(r, k)
  BY <1>1 DEF At, Nth
<1>3. Used(s) = Used(r)
  BY <1>1 DEF Used
<1> QED
  BY <1>1, <1>2, <1>3 DEF RingOk

-----------------------------------------------------------------------------
(***************************************************************************)
(* Types, tags and dependencies, power failures included:                  *)
(* InductiveInvariant.                                                     *)
(***************************************************************************)

LEMMA BankType ==
  ASSUME NEW l \in Lpns
  PROVE  Bank(l) \in Banks
BY RecoveryAssumption, ModNat DEF Bank, Banks

LEMMA EpochType ==
  /\ 0 \in Epochs
  /\ \A e \in Epochs : EpochPred(e) \in Epochs
BY RecoveryAssumption DEF Epochs, EpochPred

-----------------------------------------------------------------------------
\* Lemmas about the helpers shared by several actions.

LEMMA FullType ==
  ASSUME TypeOK, NEW b \in Banks
  PROVE  /\ active[b] \in Ppn
         /\ active[b].blk \in Blks
         /\ active[b].page \in Pages
         /\ ~Full(b) => active[b].page + 1 \in Pages
         /\ [blk |-> active[b].blk, page |-> active[b].page + 1] \in Ppn
              \/ Full(b)
<1>1. active[b] \in Ppn
  BY DEF TypeOK
<1>2. active[b].blk \in Blks /\ active[b].page \in Pages
  BY <1>1 DEF Ppn
<1>3. ~Full(b) => active[b].page + 1 \in Pages
  BY <1>2, RecoveryAssumption DEF Full, Pages
<1> QED
  BY <1>1, <1>2, <1>3 DEF Ppn

LEMMA ProgramType ==
  ASSUME TypeOK, pc # "recovered", NEW b \in Banks, NEW pg \in DataPage,
         NEW released, Program(b, pg, released)
  PROVE  /\ flash' \in [Banks -> [Blks -> Block]]
         /\ pgmap' \in [Lpns -> PpnOpt]
         /\ vcount' \in [Banks -> [Blks -> Int]]
         /\ active' \in [Banks -> Ppn]
         /\ mapents' \in Seq(MapEnt)
         /\ UNCHANGED <<ring, log, maps, mapIdx>>
<1>1. /\ active[b] \in Ppn /\ active[b].blk \in Blks
      /\ active[b].page + 1 \in Pages
  BY FullType DEF Program
<1>2. pg.lpn \in Lpns
  BY DEF DataPage
<1>3. active' \in [Banks -> Ppn]
  BY <1>1 DEF Program, TypeOK, Ppn
<1>4. pgmap' \in [Lpns -> PpnOpt]
  BY <1>1, <1>2 DEF Program, TypeOK, PpnOpt
<1>5. Counted(b, released) \in [Blks -> Int]
  BY DEF Counted, TypeOK
<1>6. vcount' \in [Banks -> [Blks -> Int]]
  BY <1>5 DEF Program, TypeOK
<1>7. mapents' \in Seq(MapEnt)
  <2>1. [lpn |-> pg.lpn, ppn |-> active[b]] \in MapEnt
    BY <1>1, <1>2 DEF MapEnt
  <2> QED
    BY <2>1, AppendProperties DEF Program, TypeOK
<1>8. flash' \in [Banks -> [Blks -> Block]]
  <2> DEFINE blk == flash[b][active[b].blk]
  <2>1. flash[b] \in [Blks -> Block] /\ blk \in Block
    BY <1>1 DEF TypeOK
  <2>2. Append(blk.pages, pg) \in Seq(DataPage)
    BY <2>1, AppendProperties DEF Block
  <2>3. [blk EXCEPT !.pages = Append(@, pg)] \in Block
    BY <2>1, <2>2 DEF Block
  <2> QED
    BY <2>1, <2>3, <1>1 DEF Program, TypeOK
<1> QED
  BY <1>3, <1>4, <1>6, <1>7, <1>8 DEF Program

LEMMA DequeueType ==
  ASSUME TypeOK, pc # "recovered", NEW b \in Banks, Dequeue(b)
  PROVE  /\ flash' \in [Banks -> [Blks -> Block]]
         /\ pgmap' \in [Lpns -> PpnOpt]
         /\ vcount' \in [Banks -> [Blks -> Int]]
         /\ active' \in [Banks -> Ppn]
         /\ mapents' \in Seq(MapEnt)
         /\ cache' \in [Banks -> [Bufs -> CacheEnt]]
         /\ UNCHANGED <<ring, log, maps, mapIdx, lru, deps, timer>>
<1>1. PICK i \in Bufs :
        /\ LruLast(b, DirtyBufs(b), i)
        /\ Program(b, [lpn |-> cache[b][i].lpn, span |-> cache[b][i].span,
                       epoch |-> cache[b][i].epoch,
                       ver |-> cache[b][i].epoch + 1],
                   pgmap[cache[b][i].lpn].blk)
        /\ cache' = [cache EXCEPT ![b][i].dirty = FALSE]
        /\ UNCHANGED <<lru, deps, timer>>
  BY DEF Dequeue
<1> DEFINE e == cache[b][i]
<1>2. e \in CacheEnt /\ e.dirty
  BY <1>1 DEF TypeOK, LruLast, DirtyBufs
<1>3. e.lpn \in Lpns /\ e.span \in Nat /\ e.epoch \in Epochs
  BY <1>2 DEF CacheEnt, NoEnt
<1>4. e.epoch + 1 \in Nat
  BY <1>3, RecoveryAssumption DEF Epochs
<1>5. [lpn |-> e.lpn, span |-> e.span, epoch |-> e.epoch,
       ver |-> e.epoch + 1] \in DataPage
  BY <1>3, <1>4 DEF DataPage
<1>6. [e EXCEPT !.dirty = FALSE] \in CacheEnt
  BY <1>2, <1>3 DEF CacheEnt, NoEnt
<1>7. cache' \in [Banks -> [Bufs -> CacheEnt]]
  BY <1>1, <1>6 DEF TypeOK
<1> HIDE DEF e
<1> QED
  BY <1>1, <1>5, <1>7, ProgramType DEF e

LEMMA EraseVtType ==
  ASSUME TypeOK, NEW b \in Banks, EraseVt(b)
  PROVE  /\ flash' \in [Banks -> [Blks -> Block]]
         /\ ring' \in [Banks -> RingType]
         /\ UNCHANGED <<log, maps, mapIdx, pgmap, vcount, active, cache, lru,
                        deps, mapents, timer>>
<1>1. Erased \in Block
  BY DEF Erased, Block
<1>2. ring[b] \in RingType /\ VtErased(ring[b]) \in RingType
  BY VtErasedType DEF TypeOK
<1>3. flash' \in [Banks -> [Blks -> Block]]
  <2>1. CASE ring[b].vt # NoBlk
    <3>1. flash' = [flash EXCEPT ![b][ring[b].vt] = Erased]
      BY <2>1 DEF EraseVt
    <3> HIDE DEF Erased
    <3> QED
      BY <1>1, <3>1 DEF TypeOK
  <2>2. CASE ring[b].vt = NoBlk
    BY <2>2 DEF EraseVt, TypeOK
  <2> QED
    BY <2>1, <2>2
<1>4. ring' \in [Banks -> RingType]
  BY <1>2 DEF EraseVt, TypeOK
<1> QED
  BY <1>3, <1>4 DEF EraseVt, wbuf, chkpt

LEMMA PoolWriteBufType ==
  ASSUME TypeOK, pc # "recovered", PoolWriteBuf
  PROVE  /\ flash' \in [Banks -> [Blks -> Block]]
         /\ pgmap' \in [Lpns -> PpnOpt]
         /\ vcount' \in [Banks -> [Blks -> Int]]
         /\ active' \in [Banks -> Ppn]
         /\ ring' \in [Banks -> RingType]
         /\ mapents' \in Seq(MapEnt)
         /\ cache' \in [Banks -> [Bufs -> CacheEnt]]
         /\ pool' \in Banks
         /\ UNCHANGED <<log, maps, mapIdx, lru, deps, timer>>
<1>1. pool \in Banks
  BY DEF TypeOK
<1>2. pool' \in Banks
  BY <1>1, RecoveryAssumption, ModNat DEF PoolWriteBuf, Banks
<1>3. CASE Dequeue(pool)
  BY <1>1, <1>2, <1>3, DequeueType DEF TypeOK
<1>4. CASE EraseVt(pool)
  BY <1>1, <1>2, <1>4, EraseVtType DEF TypeOK
<1> QED
  BY <1>3, <1>4 DEF PoolWriteBuf

LEMMA WritingBank ==
  ASSUME TypeOK, Writing
  PROVE  w.lpn \in Lpns /\ Bank(w.lpn) \in Banks
<1>1. /\ w.lpn \in Nat /\ w.remain \in Nat /\ w.remain > 0
      /\ w.lpn..(w.lpn + w.remain - 1) \subseteq Lpns
  BY DEF TypeOK
<1>2. w.lpn \in Lpns
  BY <1>1
<1> QED
  BY <1>2, BankType

LEMMA EnqueueType ==
  ASSUME TypeOK, Writing, NEW i \in Bufs, Enqueue(i)
  PROVE  /\ cache' \in [Banks -> [Bufs -> CacheEnt]]
         /\ lru' \in [Banks -> [1..NumBufs -> Bufs]]
         /\ w' \in [lpn: Nat, remain: Nat, span: Nat]
         /\ pc' \in {"written", "page"}
         /\ pc' = "page" => /\ w'.remain > 0
                           /\ w'.lpn..(w'.lpn + w'.remain - 1) \subseteq Lpns
<1>1. /\ w \in [lpn: Nat, remain: Nat, span: Nat] /\ w.remain > 0
      /\ w.lpn..(w.lpn + w.remain - 1) \subseteq Lpns
  BY DEF TypeOK
<1>2. w.lpn \in Lpns
  BY <1>1
<1> DEFINE b == Bank(w.lpn)
<1>3. b \in Banks
  BY <1>2, BankType
<1>4. [lpn |-> w.lpn, dirty |-> TRUE, span |-> w.span, epoch |-> g_epoch]
        \in CacheEnt
  BY <1>1, <1>2 DEF CacheEnt, TypeOK
<1>5. cache' \in [Banks -> [Bufs -> CacheEnt]]
  BY <1>3, <1>4 DEF Enqueue, TypeOK
<1>6. lru' \in [Banks -> [1..NumBufs -> Bufs]]
  <2> DEFINE pos == CHOOSE p \in 1..NumBufs : lru[b][p] = i
             order == [p \in 1..NumBufs |->
                         IF p = 1 THEN i
                         ELSE IF p <= pos THEN lru[b][p - 1] ELSE lru[b][p]]
  <2>1. lru[b] \in [1..NumBufs -> Bufs]
    BY <1>3 DEF TypeOK
  <2>2. order \in [1..NumBufs -> Bufs]
    <3> SUFFICES ASSUME NEW p \in 1..NumBufs
                 PROVE  order[p] \in Bufs
      OBVIOUS
    <3>1. p # 1 => p - 1 \in 1..NumBufs
      BY FtlAssumption
    <3> HIDE DEF pos
    <3> QED
      BY <2>1, <3>1
  <2>3. lru' = [lru EXCEPT ![b] = order]
    BY DEF Enqueue
  <2> HIDE DEF order
  <2> QED
    BY <2>2, <2>3 DEF TypeOK
<1>7. /\ w' = [w EXCEPT !.lpn = w.lpn + 1, !.remain = w.remain - 1]
      /\ pc' = IF w.remain = 1 THEN "written" ELSE "page"
  BY DEF Enqueue
<1>8. /\ w' \in [lpn: Nat, remain: Nat, span: Nat]
      /\ w'.lpn = w.lpn + 1 /\ w'.remain = w.remain - 1
  <2>1. w.lpn + 1 \in Nat /\ w.remain - 1 \in Nat
    BY <1>1
  <2> QED
    BY <1>1, <1>7, <2>1
<1>9. pc' = "page" => /\ w'.remain > 0
                      /\ w'.lpn..(w'.lpn + w'.remain - 1) \subseteq Lpns
  BY <1>1, <1>7, <1>8
<1> QED
  BY <1>5, <1>6, <1>7, <1>8, <1>9

LEMMA RecordDepentType ==
  ASSUME TypeOK, RecordDepent
  PROVE  log' \in Seq(LogPage) /\ deps' \in Seq(DepEnt) /\ timer' \in BOOLEAN
<1>1. [type |-> "depent", ents |-> deps] \in LogPage
  BY DEF LogPage, TypeOK
<1>2. Append(log, [type |-> "depent", ents |-> deps]) \in Seq(LogPage)
  BY <1>1, AppendProperties DEF TypeOK
<1>3. log \in Seq(LogPage) /\ <<>> \in Seq(DepEnt)
  BY DEF TypeOK
<1> QED
  BY <1>2, <1>3 DEF RecordDepent

LEMMA CloseBlockType ==
  ASSUME TypeOK, NEW b \in Banks, CloseBlock(b)
  PROVE  /\ flash' \in [Banks -> [Blks -> Block]]
         /\ active' \in [Banks -> Ppn]
         /\ ring' \in [Banks -> RingType]
<1>1. /\ ring[b] \in RingType /\ TakeBlk(ring[b]) \in RingType
      /\ HeadBlk(ring[b]) \in Blks
  BY TakeBlkType DEF TypeOK
<1>2. [blk |-> HeadBlk(ring[b]), page |-> 0] \in Ppn
  BY <1>1, RecoveryAssumption DEF Ppn, Pages
<1>3. active[b].blk \in Blks
  BY FullType
<1>4. flash' \in [Banks -> [Blks -> Block]]
  <2>1. flash[b][active[b].blk] \in Block
    BY <1>3 DEF TypeOK
  <2>2. [flash[b][active[b].blk] EXCEPT !.next = HeadBlk(ring[b])] \in Block
    BY <1>1, <2>1 DEF Block
  <2> QED
    BY <1>3, <2>2 DEF CloseBlock, TypeOK
<1> QED
  BY <1>1, <1>2, <1>4 DEF CloseBlock, TypeOK

-----------------------------------------------------------------------------
(***************************************************************************)
(* The inductive invariant.  The type of an epoch needs the epoch bounded  *)
(* by the writes issued (EpochInv); the tag needs what the flush leaves    *)
(* behind (FlushInv); the order of a dependency needs the epochs in the    *)
(* buffer to lie below the current one (CacheInv).                         *)
(***************************************************************************)

\* A write command runs, its epoch not yet counted.
InWrite == \/ Writing
           \/ pc \in {"written", "gc", "gccopy"}
           \/ pc \in {"dep", "flush"} /\ back = "gc"

EpochInv ==
  /\ Len(hist) <= MaxWrites
  /\ pc # "recovered" => Len(hist) = g_epoch + (IF InWrite THEN 1 ELSE 0)

Clean(b) == DirtyBufs(b) = {}

FlushInv ==
  /\ pc = "flush" =>
       deps = <<>> /\ (done => \A b \in Banks : b < bank => Clean(b))
  /\ pc \in {"gc", "gccopy", "mapent", "tag", "persist", "erasemap",
            "eraselog"} => deps = <<>> /\ \A b \in Banks : Clean(b)
  /\ pc \in {"tag", "persist", "erasemap", "eraselog"} => mapents = <<>>

\* An entry of the running write lies before the page to be buffered next.
Older(e) == /\ e.epoch <= g_epoch
            /\ e.epoch = g_epoch => InWrite /\ (Writing => e.lpn < w.lpn)

CacheInv ==
  pc # "recovered" => \A b \in Banks, i \in Bufs :
                        cache[b][i].lpn # NoLpn => Older(cache[b][i])

IInv == TypeOK /\ EpochInv /\ FlushInv /\ CacheInv /\ DepsForward

-----------------------------------------------------------------------------
\* The initial states.

THEOREM InitInv == Init => IInv
<1> SUFFICES ASSUME Init PROVE IInv
  OBVIOUS
<1>1. /\ InitRing \in RingType /\ TakeBlk(InitRing) \in RingType
      /\ PushRsv(TakeBlk(InitRing)) \in RingType /\ HeadBlk(InitRing) \in Blks
  BY InitRingType, TakeBlkType, PushRsvType
<1>2. FirstPpn \in Ppn
  BY <1>1, RecoveryAssumption DEF FirstPpn, Ppn, Pages
<1>3. 0 \in Banks /\ 0 \in Bufs /\ 0 \in Epochs /\ EpochPred(0) \in Epochs
  BY RecoveryAssumption, FtlAssumption DEF Banks, Bufs, Epochs, EpochPred
<1>4. /\ flash \in [Banks -> [Blks -> Block]]
      /\ maps \in [{0, 1} -> MapTable] /\ mapIdx \in {0, 1}
  <2>1. Erased \in Block
    BY DEF Erased, Block
  <2>2. NoMap \in MapTable
    BY <1>3 DEF NoMap, MapTable, PpnOpt
  <2> QED
    BY <2>1, <2>2 DEF Init
<1>5. log \in Seq(LogPage)
  <2>1. active \in [Banks -> Ppn]
    BY <1>2 DEF Init
  <2>2. Tag(0, active) \in LogPage
    BY <1>3, <2>1 DEF Tag, LogPage
  <2> QED
    BY <2>2 DEF Init
<1>6. /\ cache \in [Banks -> [Bufs -> CacheEnt]]
      /\ lru \in [Banks -> [1..NumBufs -> Bufs]]
  <2>1. \A p \in 1..NumBufs : p - 1 \in Bufs
    BY FtlAssumption DEF Bufs
  <2>2. [p \in 1..NumBufs |-> p - 1] \in [1..NumBufs -> Bufs]
    BY <2>1
  <2>3. NoEnt \in CacheEnt
    BY DEF CacheEnt
  <2>4. cache \in [Banks -> [Bufs -> CacheEnt]]
    BY <2>3 DEF Init
  <2>5. lru \in [Banks -> [1..NumBufs -> Bufs]]
    BY <2>2 DEF Init
  <2> QED
    BY <2>4, <2>5
<1>7. TypeOK
  <2>1. /\ pgmap \in [Lpns -> PpnOpt]
        /\ vcount \in [Banks -> [Blks -> Int]]
        /\ active \in [Banks -> Ppn]
        /\ ring \in [Banks -> RingType]
    BY <1>1, <1>2 DEF Init, PpnOpt
  <2>2. /\ deps \in Seq(DepEnt) /\ mapents \in Seq(MapEnt)
        /\ hist \in Seq(SUBSET Lpns) /\ flushed \in Nat
    BY DEF Init
  <2>3. w \in [lpn: Nat, remain: Nat, span: Nat]
    BY DEF Init
  <2>4. /\ timer \in BOOLEAN /\ done \in BOOLEAN
        /\ victim \in Blks \cup {NoBlk}
    BY DEF Init
  <2>5. /\ bank \in 0..NumBanks /\ idx \in Bufs /\ pool \in Banks
        /\ gcPage \in Nat /\ nvalid \in Nat /\ g_epoch \in Epochs
    BY <1>3, RecoveryAssumption DEF Init
  <2>6. pc = "idle" /\ back = "host" /\ pc \in Labels /\ back \in Returns
    BY DEF Init, Labels, Returns
  <2> QED
    BY <1>4, <1>5, <1>6, <2>1, <2>2, <2>3, <2>4, <2>5, <2>6
    DEF TypeOK, Writing
<1>8. EpochInv
  BY FtlAssumption DEF Init, EpochInv, InWrite, Writing
<1>9. FlushInv /\ CacheInv
  BY DEF Init, FlushInv, CacheInv, NoEnt
<1>10. DepsForward
  BY DEF Init, DepsForward, Forward, Tag
<1> QED
  BY <1>7, <1>8, <1>9, <1>10 DEF IInv

-----------------------------------------------------------------------------
\* Type correctness, action by action.

\* While a write command runs its epoch can still be incremented.
LEMMA EpochBound ==
  ASSUME TypeOK, EpochInv, pc # "recovered", InWrite
  PROVE  g_epoch + 1 \in Epochs
<1>1. g_epoch \in Nat /\ Len(hist) \in Nat
  BY RecoveryAssumption DEF TypeOK, Epochs
<1>2. g_epoch + 1 <= MaxWrites
  BY <1>1 DEF EpochInv
<1> QED
  BY <1>1, <1>2, FtlAssumption, RecoveryAssumption DEF Epochs, GcTag

LEMMA WriteStepType ==
  ASSUME TypeOK, EpochInv, WriteStep
  PROVE  TypeOK'
<1> USE DEF nand, wbuf, tables, chkpt, loops, gcvars, ghosts, Writing, Labels,
            Returns
<1>1. CASE WritePool
  <2>1. pc = "page" /\ PoolWriteBuf /\ pc' = "lookup"
    BY <1>1 DEF WritePool
  <2> QED
    BY <1>1, <2>1, PoolWriteBufType DEF WritePool, TypeOK
<1>2. CASE LookupMiss
  <2>1. 0 \in Bufs
    BY FtlAssumption DEF Bufs
  <2> QED
    BY <1>2, <2>1 DEF LookupMiss, TypeOK
<1>3. CASE LookupHit
  <2>1. PICK i \in Bufs :
          /\ FirstHit(w.lpn, i)
          /\ deps' = Overwrite(cache[Bank(w.lpn)][i])
          /\ \/ pc' = "depfull" /\ UNCHANGED <<wbuf, w>>
             \/ Enqueue(i)
    BY <1>3 DEF LookupHit
  <2>2. pc = "lookup"
    BY <1>3 DEF LookupHit
  <2>3. Bank(w.lpn) \in Banks
    BY <2>2, WritingBank
  <2>4. deps' \in Seq(DepEnt)
    <3> DEFINE e == cache[Bank(w.lpn)][i]
    <3>1. e \in CacheEnt
      BY <2>3 DEF TypeOK
    <3>2. e.dirty => DepEntry(e) \in DepEnt
      BY <3>1 DEF CacheEnt, NoEnt, DepEntry, DepEnt, TypeOK
    <3> QED
      BY <2>1, <3>2, AppendProperties DEF Overwrite, TypeOK
  <2>5. CASE Enqueue(i)
    BY <1>3, <2>2, <2>4, <2>5, EnqueueType DEF LookupHit, TypeOK
  <2>6. CASE pc' = "depfull" /\ UNCHANGED <<wbuf, w>>
    BY <1>3, <2>2, <2>4, <2>6 DEF LookupHit, TypeOK
  <2> QED
    BY <2>1, <2>5, <2>6
<1>4. CASE CleanPool
  <2>1. pc = "clean" /\ PoolWriteBuf /\ pc' = pc
    BY <1>4 DEF CleanPool
  <2>2. idx' \in Bufs
    BY <1>4, FtlAssumption, ModNat DEF CleanPool, TypeOK, Bufs
  <2> QED
    BY <1>4, <2>1, <2>2, PoolWriteBufType DEF CleanPool, TypeOK
<1>5. CASE CleanFound
  <2>1. pc = "clean" /\ \E i \in Bufs : Enqueue(i)
    BY <1>5 DEF CleanFound
  <2> QED
    BY <1>5, <2>1, EnqueueType DEF CleanFound, TypeOK
<1>6. CASE DepFull
  <2>1. pc = "depfull" /\ \E i \in Bufs : Enqueue(i)
    BY <1>6 DEF DepFull
  <2>2. /\ log' \in Seq(LogPage) /\ deps' \in Seq(DepEnt)
        /\ timer' \in BOOLEAN
    BY <1>6, RecordDepentType DEF DepFull
  <2> QED
    BY <1>6, <2>1, <2>2, EnqueueType DEF DepFull, TypeOK
<1>7. CASE Written
  <2>1. pc = "written" /\ g_epoch + 1 \in Epochs
    BY <1>7, EpochBound DEF Written, InWrite
  <2> QED
    BY <1>7, <2>1 DEF Written, EndWrite, TypeOK
<1> QED
  BY <1>1, <1>2, <1>3, <1>4, <1>5, <1>6, <1>7 DEF WriteStep

LEMMA FlushStepType ==
  ASSUME TypeOK, EpochInv, FlushStep
  PROVE  TypeOK'
<1> USE DEF nand, wbuf, tables, chkpt, loops, gcvars, ghosts, Writing, Labels,
            Returns
<1>1. CASE FlushDeps
  <2>1. RecordDepent /\ pc' = "flush" /\ bank' = 0 /\ done' = TRUE
    BY <1>1 DEF FlushDeps
  <2>2. /\ log' \in Seq(LogPage) /\ deps' \in Seq(DepEnt)
        /\ timer' \in BOOLEAN
    BY <2>1, RecordDepentType
  <2>3. bank' \in 0..NumBanks
    BY <2>1, RecoveryAssumption
  <2> QED
    BY <1>1, <2>1, <2>2, <2>3 DEF FlushDeps, TypeOK
<1>2. CASE FlushBank
  <2>1. pc = "flush" /\ bank \in Banks /\ bank' \in 0..NumBanks
    BY <1>2, RecoveryAssumption DEF FlushBank, Banks, TypeOK
  <2>2. CASE Dequeue(bank) /\ done' = FALSE
    BY <1>2, <2>1, <2>2, DequeueType DEF FlushBank, TypeOK
  <2>3. CASE UNCHANGED <<nand, wbuf, tables, chkpt, done>>
    BY <1>2, <2>1, <2>3 DEF FlushBank, TypeOK
  <2> QED
    BY <1>2, <2>2, <2>3 DEF FlushBank
<1>3. CASE FlushAgain
  <2>1. bank' \in 0..NumBanks
    BY <1>3, RecoveryAssumption DEF FlushAgain
  <2> QED
    BY <1>3, <2>1 DEF FlushAgain, TypeOK
<1>4. CASE FlushDone
  <2>1. bank' \in 0..NumBanks
    BY <1>4, RecoveryAssumption DEF FlushDone
  <2>2. pc' \in {"gc", "mapent", "idle"}
    BY <1>4 DEF FlushDone, TypeOK
  <2>3. flushed' \in Nat
    BY <1>4, LenProperties DEF FlushDone, TypeOK
  <2> QED
    BY <1>4, <2>1, <2>2, <2>3 DEF FlushDone, TypeOK
<1> QED
  BY <1>1, <1>2, <1>3, <1>4 DEF FlushStep

LEMMA GcStepType ==
  ASSUME TypeOK, EpochInv, GcStep
  PROVE  TypeOK'
<1> USE DEF nand, wbuf, tables, chkpt, loops, gcvars, ghosts, Writing, Labels,
            Returns
<1>1. CASE GcSkip
  <2>1. bank' \in 0..NumBanks
    BY <1>1, RecoveryAssumption DEF GcSkip, TypeOK
  <2> QED
    BY <1>1, <2>1 DEF GcSkip, TypeOK
<1>2. CASE GcBegin
  <2>1. pc = "gc" /\ bank \in Banks
    BY <1>2, RecoveryAssumption DEF GcBegin, TypeOK, Banks
  <2> DEFINE r == VtErased(ring[bank])
  <2>2. ring[bank] \in RingType /\ r \in RingType
    BY <2>1, VtErasedType DEF TypeOK
  <2>3. PICK i \in Idx : victim' = r.list[i]
                        /\ ring' = [ring EXCEPT ![bank] = SwapVictim(r, i)]
    BY <1>2 DEF GcBegin
  <2>4. victim' \in Blks /\ SwapVictim(r, i) \in RingType
    BY <2>2, <2>3, SwapVictimType
  <2>5. ring' \in [Banks -> RingType]
    BY <2>3, <2>4 DEF TypeOK
  <2>6. flash' \in [Banks -> [Blks -> Block]]
    <3>1. Erased \in Block
      BY DEF Erased, Block
    <3>2. CASE ring[bank].vt # NoBlk
      <4>1. flash' = [flash EXCEPT ![bank][ring[bank].vt] = Erased]
        BY <1>2, <3>2 DEF GcBegin
      <4> QED
        BY <3>1, <4>1 DEF TypeOK
    <3>3. CASE ring[bank].vt = NoBlk
      BY <1>2, <3>3 DEF GcBegin, TypeOK
    <3> QED
      BY <3>2, <3>3
  <2> QED
    BY <1>2, <2>1, <2>4, <2>5, <2>6 DEF GcBegin, TypeOK
<1>3. CASE GcCopy
  <2>1. pc = "gccopy" /\ bank \in Banks /\ victim \in Blks
    BY <1>3 DEF GcCopy, TypeOK
  <2>2. PICK p \in ValidLeft :
          /\ Program(bank, [flash[bank][victim].pages[p + 1]
                               EXCEPT !.span = 0, !.epoch = GcTag], NoBlk)
          /\ gcPage' = p + 1
    BY <1>3 DEF GcCopy
  <2> DEFINE pg == flash[bank][victim].pages[p + 1]
  <2>3. flash[bank][victim] \in Block
    BY <2>1 DEF TypeOK
  <2>4. p \in Nat /\ p < Len(flash[bank][victim].pages)
    BY <2>2, RecoveryAssumption DEF ValidLeft, Pages
  <2>5. pg \in DataPage
    BY <2>3, <2>4, ElementOfSeq DEF Block
  <2>6. GcTag \in Epochs
    BY RecoveryAssumption DEF GcTag, Epochs
  <2>7. [pg EXCEPT !.span = 0, !.epoch = GcTag] \in DataPage
    BY <2>5, <2>6 DEF DataPage
  <2> HIDE DEF pg
  <2>8. gcPage' \in Nat /\ nvalid' \in Nat
    <3>1. nvalid' = nvalid + 1 /\ nvalid \in Nat
      BY <1>3 DEF GcCopy, TypeOK
    <3>2. gcPage' = p + 1
      BY <2>2
    <3> QED
      BY <2>4, <3>1, <3>2
  <2> QED
    BY <1>3, <2>1, <2>2, <2>7, <2>8, ProgramType DEF GcCopy, TypeOK, pg
<1>4. CASE GcEnd
  <2>1. pc = "gccopy" /\ bank \in Banks /\ victim \in Blks
    BY <1>4 DEF GcEnd, TypeOK
  <2>2. bank' \in 0..NumBanks
    BY <1>4, <2>1, RecoveryAssumption DEF GcEnd, Banks
  <2>3. FreeVictim(ring[bank], victim) \in RingType
    BY <2>1, FreeVictimType DEF TypeOK
  <2>4. ring' \in [Banks -> RingType]
    BY <1>4, <2>3 DEF GcEnd, TypeOK
  <2>5. vcount' \in [Banks -> [Blks -> Int]]
    BY <1>4, <2>1 DEF GcEnd, TypeOK
  <2> QED
    BY <1>4, <2>1, <2>2, <2>4, <2>5 DEF GcEnd, TypeOK
<1>5. CASE GcRound
  <2>1. pc = "gc" /\ g_epoch + 1 \in Epochs
    BY <1>5, EpochBound DEF GcRound, InWrite
  <2>2. bank' \in 0..NumBanks
    BY <1>5, RecoveryAssumption DEF GcRound
  <2>3. /\ pc' \in {"gc", "dep", "idle"} /\ back' \in Returns
        /\ g_epoch' \in Epochs
    BY <1>5, <2>1 DEF GcRound, EndWrite, TypeOK
  <2> QED
    BY <1>5, <2>2, <2>3 DEF GcRound, TypeOK
<1> QED
  BY <1>1, <1>2, <1>3, <1>4, <1>5 DEF GcStep

LEMMA ChkptStepType ==
  ASSUME TypeOK, EpochInv, ChkptStep
  PROVE  TypeOK'
<1> USE DEF nand, wbuf, tables, chkpt, loops, gcvars, ghosts, Writing, Labels,
            Returns
<1>1. CASE RecordMapent
  <2>1. /\ log' \in Seq(LogPage) /\ mapents' \in Seq(MapEnt)
        /\ pc' \in {"mapent", "tag"}
    <3> DEFINE n == IF Len(mapents) < MapentsPerPage THEN Len(mapents)
                                                    ELSE MapentsPerPage
    <3>1. mapents \in Seq(MapEnt) /\ Len(mapents) \in Nat
      BY LenProperties DEF TypeOK
    <3>2. n \in Nat /\ n <= Len(mapents)
      BY <3>1, FtlAssumption
    <3>3. CASE mapents = <<>>
      BY <1>1, <3>1, <3>3 DEF RecordMapent, TypeOK
    <3>4. CASE mapents # <<>>
      <4>1. /\ log' = Append(log, [type |-> "mapent",
                                   ents |-> SubSeq(mapents, 1, n)])
            /\ mapents' = SubSeq(mapents, n + 1, Len(mapents))
            /\ pc' = pc
        BY <1>1, <3>4 DEF RecordMapent, MapentRest
      <4>2. /\ SubSeq(mapents, 1, n) \in Seq(MapEnt)
            /\ SubSeq(mapents, n + 1, Len(mapents)) \in Seq(MapEnt)
        BY <3>1, <3>2, SubSeqProperties
      <4>3. [type |-> "mapent", ents |-> SubSeq(mapents, 1, n)] \in LogPage
        BY <4>2 DEF LogPage
      <4> QED
        BY <1>1, <4>1, <4>2, <4>3, AppendProperties DEF RecordMapent, TypeOK
    <3> QED
      BY <3>3, <3>4
  <2> QED
    BY <1>1, <2>1 DEF RecordMapent, TypeOK
<1>2. CASE RecordTag
  <2>1. ring' \in [Banks -> RingType]
    BY <1>2, PushRsvType DEF RecordTag, TypeOK
  <2>2. log' \in Seq(LogPage)
    <3>1. Tag(g_epoch, active) \in LogPage
      BY EpochType DEF Tag, LogPage, TypeOK
    <3> QED
      BY <1>2, <3>1, AppendProperties DEF RecordTag, TypeOK
  <2>3. pc' \in {"persist", "dep", "idle"} /\ back' \in Returns
    BY <1>2 DEF RecordTag, TypeOK
  <2> QED
    BY <1>2, <2>1, <2>2, <2>3 DEF RecordTag, TypeOK
<1>3. CASE PersistMap
  <2>1. [epoch |-> EpochPred(g_epoch), map |-> pgmap] \in MapTable
    BY <1>3, EpochType DEF PersistMap, MapTable, TypeOK
  <2>2. maps' \in [{0, 1} -> MapTable]
    BY <1>3, <2>1 DEF PersistMap, TypeOK
  <2>3. mapIdx' \in {0, 1}
    BY <1>3 DEF PersistMap, TypeOK
  <2> QED
    BY <1>3, <2>2, <2>3 DEF PersistMap, TypeOK
<1>4. CASE EraseMap
  <2>1. NoMap \in MapTable
    BY EpochType DEF NoMap, MapTable, PpnOpt
  <2>2. maps' \in [{0, 1} -> MapTable]
    BY <1>4, <2>1 DEF EraseMap, TypeOK
  <2>3. pc' \in {"eraselog", "closed"} /\ flushed' \in Nat
    BY <1>4, LenProperties DEF EraseMap, TypeOK
  <2> QED
    BY <1>4, <2>2, <2>3 DEF EraseMap, TypeOK
<1>5. CASE EraseLog
  BY <1>5 DEF EraseLog, TypeOK
<1> QED
  BY <1>1, <1>2, <1>3, <1>4, <1>5 DEF ChkptStep

\* A power failure leaves DRAM as it is after ftl_open.
LEMMA CrashType ==
  ASSUME TypeOK, CrashAndRecover
  PROVE  TypeOK'
<1>1. /\ InitRing \in RingType /\ TakeBlk(InitRing) \in RingType
      /\ HeadBlk(InitRing) \in Blks
  BY InitRingType, TakeBlkType
<1>2. FirstPpn \in Ppn
  BY <1>1, RecoveryAssumption DEF FirstPpn, Ppn, Pages
<1>3. /\ cache' \in [Banks -> [Bufs -> CacheEnt]]
      /\ lru' \in [Banks -> [1..NumBufs -> Bufs]]
  <2>1. \A p \in 1..NumBufs : p - 1 \in Bufs
    BY FtlAssumption DEF Bufs
  <2>2. [p \in 1..NumBufs |-> p - 1] \in [1..NumBufs -> Bufs]
    BY <2>1
  <2>3. NoEnt \in CacheEnt
    BY DEF CacheEnt
  <2>4. cache' \in [Banks -> [Bufs -> CacheEnt]]
    BY <2>3 DEF CrashAndRecover
  <2>5. lru' \in [Banks -> [1..NumBufs -> Bufs]]
    BY <2>2 DEF CrashAndRecover
  <2> QED
    BY <2>4, <2>5
<1>4. g_epoch' \in Epochs
  <2>1. NoMap.epoch \in Epochs
    BY EpochType DEF NoMap
  <2>2. maps[0].epoch \in Epochs /\ maps[1].epoch \in Epochs
    BY DEF TypeOK, MapTable
  <2> QED
    BY <2>1, <2>2 DEF CrashAndRecover, RestoredMap
<1>5. /\ vcount' \in [Banks -> [Blks -> Int]]
      /\ active' \in [Banks -> Ppn]
      /\ ring' \in [Banks -> RingType]
  BY <1>1, <1>2 DEF CrashAndRecover
<1>6. w' \in [lpn: Nat, remain: Nat, span: Nat]
  BY DEF CrashAndRecover
<1>7. /\ pool' \in Banks /\ bank' \in 0..NumBanks /\ idx' \in Bufs
      /\ gcPage' \in Nat /\ nvalid' \in Nat
  BY RecoveryAssumption, FtlAssumption DEF CrashAndRecover, Banks, Bufs
<1>8. /\ deps' \in Seq(DepEnt) /\ mapents' \in Seq(MapEnt)
      /\ timer' \in BOOLEAN /\ done' \in BOOLEAN /\ mapIdx' \in {0, 1}
      /\ victim' \in Blks \cup {NoBlk}
  <2>1. /\ deps' = <<>> /\ mapents' = <<>> /\ timer' = FALSE /\ done' = TRUE
        /\ mapIdx' = (IF maps[0].epoch > maps[1].epoch THEN 0 ELSE 1)
        /\ victim' = NoBlk
    BY DEF CrashAndRecover
  <2>2. mapIdx' \in {0, 1}
    BY <2>1
  <2>3. timer' \in BOOLEAN /\ done' \in BOOLEAN
    BY <2>1
  <2>4. deps' \in Seq(DepEnt) /\ mapents' \in Seq(MapEnt)
    BY <2>1
  <2> QED
    BY <2>1, <2>2, <2>3, <2>4
<1>9. /\ pc' = "recovered" /\ back' = "host"
      /\ UNCHANGED <<flash, log, maps, hist, flushed>>
  BY DEF CrashAndRecover
<1> QED
  BY <1>3, <1>4, <1>5, <1>6, <1>7, <1>8, <1>9
  DEF TypeOK, Writing, Labels, Returns

\* The other steps: host commands, idle pooling, summary pages, the timer.
LEMMA OtherStepType ==
  ASSUME TypeOK, EpochInv,
         \/ SummaryPage \/ PoolStep \/ HostFlush \/ IdlePool \/ Timer
         \/ \E c \in WriteCmds : HostWrite(c[1], c[2])
  PROVE  TypeOK'
<1> USE DEF nand, wbuf, tables, chkpt, loops, gcvars, ghosts, Writing, Labels,
            Returns
<1>1. CASE SummaryPage
  <2>1. PICK b \in Banks : CloseBlock(b)
    BY <1>1 DEF SummaryPage
  <2>2. /\ flash' \in [Banks -> [Blks -> Block]]
        /\ active' \in [Banks -> Ppn]
        /\ ring' \in [Banks -> RingType]
    BY <2>1, CloseBlockType
  <2>3. UNCHANGED <<log, maps, mapIdx, wbuf, pool, pgmap, vcount, chkpt,
                    g_epoch, pc, back, w, loops, gcvars, ghosts>>
    BY <1>1 DEF SummaryPage
  <2> QED
    BY <2>2, <2>3 DEF TypeOK
<1>2. CASE PoolStep
  <2>1. pc = "pool" /\ PoolWriteBuf /\ pc' = "idle"
    BY <1>2 DEF PoolStep
  <2> QED
    BY <1>2, <2>1, PoolWriteBufType DEF PoolStep, TypeOK
<1>3. CASE HostFlush
  BY <1>3 DEF HostFlush, TypeOK
<1>4. CASE IdlePool
  BY <1>4 DEF IdlePool, TypeOK
<1>5. CASE Timer
  BY <1>5 DEF Timer, TypeOK
<1>6. ASSUME NEW c \in WriteCmds, HostWrite(c[1], c[2])
      PROVE  TypeOK'
  <2>1. c[1] \in Nat /\ c[2] \in Nat \ {0} /\ c[1]..(c[1] + c[2] - 1) \subseteq Lpns
    BY FtlAssumption, RecoveryAssumption
  <2>2. /\ w' = [lpn |-> c[1], remain |-> c[2], span |-> c[2]]
        /\ pc' = "page" /\ pc = "idle"
    BY <1>6 DEF HostWrite
  <2>3. hist' \in Seq(SUBSET Lpns)
    BY <1>6, <2>1, AppendProperties DEF HostWrite, TypeOK
  <2>4. /\ w' \in [lpn: Nat, remain: Nat, span: Nat] /\ w'.remain > 0
        /\ w'.lpn..(w'.lpn + w'.remain - 1) \subseteq Lpns
    BY <2>1, <2>2
  <2> QED
    BY <1>6, <2>2, <2>3, <2>4 DEF HostWrite, TypeOK
<1> QED
  BY <1>1, <1>2, <1>3, <1>4, <1>5, <1>6

LEMMA NextType ==
  ASSUME TypeOK, EpochInv, [Next]_vars
  PROVE  TypeOK'
<1>1. CASE Next
  BY <1>1, WriteStepType, FlushStepType, GcStepType, ChkptStepType, CrashType,
     OtherStepType DEF Next, FtlStep
<1>2. CASE UNCHANGED vars
  BY <1>2 DEF vars, nand, wbuf, tables, chkpt, loops, gcvars, ghosts, TypeOK,
              Writing
<1> QED
  BY <1>1, <1>2

-----------------------------------------------------------------------------
\* The number of writes issued and the epoch keep step.

LEMMA NextEpoch ==
  ASSUME TypeOK, EpochInv, [Next]_vars
  PROVE  EpochInv'
<1> USE DEF EpochInv, InWrite, Writing, nand, wbuf, tables, chkpt, loops,
            gcvars, ghosts
<1>1. g_epoch \in Nat /\ Len(hist) \in Nat
  BY LenProperties, RecoveryAssumption DEF TypeOK, Epochs
<1>2. CASE WriteStep
  <2>1. ASSUME NEW i \in Bufs, Enqueue(i)
        PROVE  pc' \in {"written", "page"}
    BY <2>1 DEF Enqueue
  <2> QED
    BY <1>1, <1>2, <2>1 DEF WriteStep, WritePool, LookupMiss, LookupHit,
       CleanPool, CleanFound, DepFull, Written, EndWrite
<1>3. CASE FlushStep
  <2>1. CASE FlushDeps
    BY <1>1, <2>1 DEF FlushDeps
  <2>2. CASE FlushBank
    BY <1>1, <2>2 DEF FlushBank
  <2>3. CASE FlushAgain
    BY <1>1, <2>3 DEF FlushAgain
  <2>4. CASE FlushDone
    <3>1. /\ pc = "flush" /\ UNCHANGED <<back, g_epoch, hist>>
          /\ pc' = IF back = "gc" THEN "gc"
                   ELSE IF back \in {"chkpt", "close"} THEN "mapent" ELSE "idle"
      BY <2>4 DEF FlushDone, TypeOK, Returns
    <3> QED
      BY <1>1, <3>1
  <2> QED
    BY <1>3, <2>1, <2>2, <2>3, <2>4 DEF FlushStep
<1>4. CASE GcStep
  <2>1. CASE GcRound
    BY <1>1, <2>1 DEF GcRound, EndWrite
  <2>2. CASE GcSkip
    BY <1>1, <2>2 DEF GcSkip
  <2>3. CASE GcBegin
    BY <1>1, <2>3 DEF GcBegin
  <2>4. CASE GcCopy
    BY <1>1, <2>4 DEF GcCopy
  <2>5. CASE GcEnd
    BY <1>1, <2>5 DEF GcEnd
  <2> QED
    BY <1>4, <2>1, <2>2, <2>3, <2>4, <2>5 DEF GcStep
<1>5. CASE ChkptStep
  BY <1>1, <1>5 DEF ChkptStep, RecordMapent, RecordTag, PersistMap, EraseMap,
     EraseLog
<1>6. CASE SummaryPage \/ PoolStep \/ HostFlush \/ IdlePool \/ Timer
              \/ CrashAndRecover
  BY <1>1, <1>6 DEF SummaryPage, PoolStep, HostFlush, IdlePool, Timer,
     CrashAndRecover
<1>7. ASSUME NEW l, NEW n, HostWrite(l, n)
      PROVE  EpochInv'
  <2>1. /\ hist' = Append(hist, l..(l + n - 1)) /\ Len(hist) < MaxWrites
        /\ pc = "idle" /\ pc' = "page" /\ g_epoch' = g_epoch
    BY <1>7 DEF HostWrite
  <2>2. Len(hist') = Len(hist) + 1
    BY <2>1 DEF TypeOK
  <2> QED
    BY <1>1, <2>1, <2>2, FtlAssumption
<1>8. CASE UNCHANGED vars
  BY <1>8 DEF vars
<1> QED
  BY <1>2, <1>3, <1>4, <1>5, <1>6, <1>7, <1>8 DEF Next, FtlStep

-----------------------------------------------------------------------------
\* What a flush leaves behind.

LEMMA NextFlush ==
  ASSUME TypeOK, FlushInv, [Next]_vars
  PROVE  FlushInv'
<1> USE DEF FlushInv, Clean, DirtyBufs, nand, wbuf, tables, chkpt, loops,
            gcvars, ghosts
<1>1. CASE WriteStep
  <2>1. ASSUME NEW i \in Bufs, Enqueue(i)
        PROVE  pc' \in {"written", "page"}
    BY <2>1 DEF Enqueue
  <2> QED
    BY <1>1, <2>1 DEF WriteStep, WritePool, LookupMiss, LookupHit, CleanPool,
       CleanFound, DepFull, Written, EndWrite
<1>2. CASE FlushDeps
  BY <1>2, RecoveryAssumption DEF FlushDeps, RecordDepent, Banks
<1>3. CASE FlushBank
  <2>1. CASE Dequeue(bank) /\ done' = FALSE
    BY <1>3, <2>1 DEF FlushBank, Dequeue
  <2>2. CASE DirtyBufs(bank) = {} /\ UNCHANGED <<nand, wbuf, tables, chkpt, done>>
    <3>1. /\ pc = "flush" /\ pc' = pc /\ bank' = bank + 1
          /\ bank \in Nat
      BY <1>3, RecoveryAssumption DEF FlushBank, TypeOK
    <3>2. \A b \in Banks : b < bank + 1 => b < bank \/ b = bank
      BY <3>1, RecoveryAssumption DEF Banks
    <3> QED
      BY <1>3, <2>2, <3>1, <3>2 DEF FlushBank
  <2> QED
    BY <1>3, <2>1, <2>2 DEF FlushBank
<1>4. CASE FlushAgain
  BY <1>4, RecoveryAssumption DEF FlushAgain, Banks
<1>5. CASE FlushDone
  <2>1. \A b \in Banks : b < bank
    BY <1>5, RecoveryAssumption DEF FlushDone, RoundsOver, Banks
  <2> QED
    BY <1>5, <2>1 DEF FlushDone, RoundsOver, TypeOK, Returns
<1>6. CASE GcStep
  BY <1>6 DEF GcStep, GcSkip, GcBegin, GcCopy, GcEnd, GcRound, EndWrite
<1>7. CASE ChkptStep
  BY <1>7 DEF ChkptStep, RecordMapent, RecordTag, PersistMap, EraseMap,
     EraseLog
<1>8. CASE SummaryPage \/ PoolStep \/ HostFlush \/ IdlePool \/ Timer
              \/ CrashAndRecover \/ \E c \in WriteCmds : HostWrite(c[1], c[2])
  BY <1>8 DEF SummaryPage, PoolStep, HostFlush, IdlePool, Timer,
     CrashAndRecover, HostWrite
<1>9. CASE UNCHANGED vars
  BY <1>9 DEF vars
<1> QED
  BY <1>1, <1>2, <1>3, <1>4, <1>5, <1>6, <1>7, <1>8, <1>9
  DEF Next, FtlStep, FlushStep

-----------------------------------------------------------------------------
\* The buffer holds no epoch from the future, and the running write no page
\* twice.

\* Steps that leave the page and the epoch of every buffer alone.
SameEnts ==
  \A b \in Banks, i \in Bufs : /\ cache'[b][i].lpn = cache[b][i].lpn
                              /\ cache'[b][i].epoch = cache[b][i].epoch

LEMMA DequeueSame ==
  ASSUME TypeOK, NEW b \in Banks, Dequeue(b)
  PROVE  SameEnts
<1>1. PICK i \in Bufs : cache' = [cache EXCEPT ![b][i].dirty = FALSE]
  BY DEF Dequeue
<1>2. \A c \in Banks, j \in Bufs : cache[c][j] \in CacheEnt
  BY DEF TypeOK
<1>3. cache[b][i] \in CacheEnt
  BY <1>2
<1>4. /\ [cache[b][i] EXCEPT !.dirty = FALSE].lpn = cache[b][i].lpn
      /\ [cache[b][i] EXCEPT !.dirty = FALSE].epoch = cache[b][i].epoch
  BY <1>3 DEF CacheEnt, NoEnt
<1> QED
  BY <1>1, <1>4 DEF SameEnts, TypeOK

LEMMA PoolWriteBufSame ==
  ASSUME TypeOK, PoolWriteBuf
  PROVE  SameEnts
BY DequeueSame DEF PoolWriteBuf, EraseVt, wbuf, SameEnts, TypeOK

\* Buffering a page of the running write.
LEMMA EnqueueCache ==
  ASSUME TypeOK, CacheInv, Writing, NEW i \in Bufs, Enqueue(i),
         g_epoch' = g_epoch
  PROVE  CacheInv'
<1>1. /\ Bank(w.lpn) \in Banks /\ w.lpn \in Lpns /\ w.lpn \in Nat
  BY WritingBank, RecoveryAssumption
<1>2. /\ w'.lpn = w.lpn + 1 /\ pc' \in {"written", "page"}
      /\ cache' = [cache EXCEPT ![Bank(w.lpn)][i] =
                     [lpn |-> w.lpn, dirty |-> TRUE, span |-> w.span,
                      epoch |-> g_epoch]]
  BY DEF Enqueue, TypeOK
<1>3. g_epoch \in Nat
  BY RecoveryAssumption DEF TypeOK, Epochs
<1>4. pc # "recovered"
  BY DEF Writing
<1> SUFFICES ASSUME NEW b \in Banks, NEW j \in Bufs,
                    cache'[b][j].lpn # NoLpn
             PROVE  Older(cache[b][j])'
  BY DEF CacheInv
<1>5. CASE b = Bank(w.lpn) /\ j = i
  BY <1>1, <1>2, <1>3, <1>5 DEF Older, InWrite, Writing, TypeOK
<1>6. CASE ~(b = Bank(w.lpn) /\ j = i)
  <2>1. cache'[b][j] = cache[b][j]
    BY <1>1, <1>2, <1>6 DEF TypeOK
  <2>2. Older(cache[b][j])
    BY <1>4, <2>1 DEF CacheInv
  <2>3. cache[b][j].lpn \in Nat /\ cache[b][j].epoch \in Nat
    <3>1. cache[b][j] \in CacheEnt /\ cache[b][j].lpn # NoLpn
      BY <2>1 DEF TypeOK
    <3>2. cache[b][j].lpn \in Lpns /\ cache[b][j].epoch \in Epochs
      BY <3>1 DEF CacheEnt, NoEnt
    <3>3. Lpns \subseteq Nat /\ Epochs \subseteq Nat
      BY RecoveryAssumption DEF Epochs
    <3> QED
      BY <3>2, <3>3
  <2> QED
    BY <1>1, <1>2, <1>3, <2>1, <2>2, <2>3 DEF Older, InWrite, Writing
<1> QED
  BY <1>5, <1>6

\* Any other step: the entries stay, and the epoch or the stage of the
\* command moves on.
LEMMA KeepCache ==
  ASSUME TypeOK, CacheInv, SameEnts, pc # "recovered",
         \/ /\ g_epoch' = g_epoch /\ InWrite' = InWrite
            /\ Writing' => Writing /\ w' = w
         \/ g_epoch' = g_epoch + 1 /\ ~InWrite'
         \/ ~InWrite /\ g_epoch' = g_epoch
  PROVE  CacheInv'
<1>1. g_epoch \in Nat
  BY RecoveryAssumption DEF TypeOK, Epochs
<1> SUFFICES ASSUME NEW b \in Banks, NEW j \in Bufs,
                    cache'[b][j].lpn # NoLpn
             PROVE  Older(cache[b][j])'
  BY DEF CacheInv
<1>2. /\ cache'[b][j].lpn = cache[b][j].lpn
      /\ cache'[b][j].epoch = cache[b][j].epoch
  BY DEF SameEnts
<1>3. Older(cache[b][j])
  BY <1>2 DEF CacheInv
<1>4. cache[b][j].epoch \in Nat
  BY <1>2, RecoveryAssumption DEF TypeOK, CacheEnt, NoEnt, Epochs
<1> QED
  BY <1>1, <1>2, <1>3, <1>4 DEF Older

LEMMA NextCache ==
  ASSUME TypeOK, CacheInv, [Next]_vars
  PROVE  CacheInv'
<1> USE DEF nand, wbuf, tables, chkpt, loops, gcvars, ghosts
<1>0. ASSUME UNCHANGED cache
      PROVE  SameEnts
  BY <1>0 DEF SameEnts
<1>1. CASE WriteStep
  <2>1. CASE WritePool
    BY <2>1, PoolWriteBufSame, KeepCache DEF WritePool, InWrite, Writing
  <2>2. CASE LookupMiss
    BY <2>2, <1>0, KeepCache DEF LookupMiss, InWrite, Writing
  <2>3. CASE LookupHit
    <3>1. PICK i \in Bufs : \/ pc' = "depfull" /\ UNCHANGED <<wbuf, w>>
                            \/ Enqueue(i)
      BY <2>3 DEF LookupHit
    <3>2. pc = "lookup" /\ g_epoch' = g_epoch
      BY <2>3 DEF LookupHit
    <3>3. CASE Enqueue(i)
      BY <3>2, <3>3, EnqueueCache DEF Writing
    <3>4. CASE pc' = "depfull" /\ UNCHANGED <<wbuf, w>>
      BY <3>2, <3>4, <1>0, KeepCache DEF InWrite, Writing
    <3> QED
      BY <3>1, <3>3, <3>4
  <2>4. CASE CleanPool
    BY <2>4, PoolWriteBufSame, KeepCache DEF CleanPool, InWrite, Writing
  <2>5. CASE CleanFound
    BY <2>5, EnqueueCache DEF CleanFound, Writing
  <2>6. CASE DepFull
    BY <2>6, EnqueueCache DEF DepFull, Writing
  <2>7. CASE Written
    BY <2>7, <1>0, KeepCache DEF Written, EndWrite, InWrite, Writing
  <2> QED
    BY <1>1, <2>1, <2>2, <2>3, <2>4, <2>5, <2>6, <2>7 DEF WriteStep
<1>2. CASE FlushStep
  <2>1. CASE FlushDeps
    BY <2>1, <1>0, KeepCache DEF FlushDeps, InWrite, Writing
  <2>2. CASE FlushBank
    <3>1. bank \in Banks
      BY <2>2, RecoveryAssumption DEF FlushBank, TypeOK, Banks
    <3>2. SameEnts
      BY <2>2, <3>1, <1>0, DequeueSame DEF FlushBank
    <3> QED
      BY <2>2, <3>2, KeepCache DEF FlushBank, InWrite, Writing
  <2>3. CASE FlushAgain
    BY <2>3, <1>0, KeepCache DEF FlushAgain, InWrite, Writing
  <2>4. CASE FlushDone
    <3>1. /\ pc = "flush" /\ UNCHANGED <<back, g_epoch, w, cache>>
          /\ pc' = IF back = "gc" THEN "gc"
                   ELSE IF back \in {"chkpt", "close"} THEN "mapent" ELSE "idle"
      BY <2>4 DEF FlushDone, TypeOK, Returns
    <3> QED
      BY <3>1, <1>0, KeepCache DEF InWrite, Writing
  <2> QED
    BY <1>2, <2>1, <2>2, <2>3, <2>4 DEF FlushStep
<1>3. CASE GcStep
  <2>1. pc \in {"gc", "gccopy"} /\ UNCHANGED <<cache, w>>
    BY <1>3 DEF GcStep, GcSkip, GcBegin, GcCopy, GcEnd, GcRound
  <2>2. \/ g_epoch' = g_epoch /\ pc' \in {"gc", "gccopy"}
        \/ g_epoch' = g_epoch + 1 /\ ~InWrite'
    <3>1. CASE GcRound
      BY <3>1 DEF GcRound, EndWrite, InWrite, Writing
    <3>2. CASE GcSkip \/ GcBegin \/ GcCopy \/ GcEnd
      BY <3>2 DEF GcSkip, GcBegin, GcCopy, GcEnd
    <3> QED
      BY <1>3, <3>1, <3>2 DEF GcStep
  <2> QED
    BY <2>1, <2>2, <1>0, KeepCache DEF InWrite, Writing
<1>4. CASE ChkptStep
  <2>1. ~InWrite /\ UNCHANGED <<cache, g_epoch>> /\ pc # "recovered"
    BY <1>4 DEF ChkptStep, RecordMapent, RecordTag, PersistMap, EraseMap,
       EraseLog, InWrite, Writing
  <2> QED
    BY <2>1, <1>0, KeepCache
<1>5. CASE SummaryPage
  <2>1. UNCHANGED <<cache, g_epoch, pc, back, w>> /\ pc # "recovered"
    BY <1>5 DEF SummaryPage, NextProgram
  <2> QED
    BY <2>1, <1>0, KeepCache DEF InWrite, Writing
<1>6. CASE Timer
  BY <1>6, <1>0, KeepCache DEF Timer, InWrite, Writing
<1>7. CASE PoolStep
  BY <1>7, PoolWriteBufSame, KeepCache DEF PoolStep, InWrite, Writing
<1>8. CASE \/ HostFlush \/ IdlePool
           \/ \E c \in WriteCmds : HostWrite(c[1], c[2])
  <2>1. pc = "idle" /\ UNCHANGED <<cache, g_epoch>>
    BY <1>8 DEF HostFlush, IdlePool, HostWrite
  <2> QED
    BY <2>1, <1>0, KeepCache DEF InWrite, Writing
<1>9. CASE CrashAndRecover
  BY <1>9 DEF CrashAndRecover, CacheInv
<1>10. CASE UNCHANGED vars
  BY <1>10 DEF vars, CacheInv, Older, InWrite, Writing
<1> QED
  BY <1>1, <1>2, <1>3, <1>4, <1>5, <1>6, <1>7, <1>8, <1>9, <1>10
  DEF Next, FtlStep

-----------------------------------------------------------------------------
\* Dependencies lead forward.

\* A longer log: the new page is no dependency page, or a forward one.
LEMMA LogForward ==
  ASSUME TypeOK, DepsForward, pc # "recovered", NEW pg \in LogPage,
         log' = Append(log, pg), g_epoch' = g_epoch,
         pg.type = "depent" => Forward(pg.ents)
  PROVE  \A j \in DOMAIN log' :
           log'[j].type = "depent" => Forward(log'[j].ents)
<1>1. log \in Seq(LogPage)
  BY DEF TypeOK
<1>2. /\ Len(log') = Len(log) + 1 /\ log' \in Seq(LogPage)
      /\ \A i \in 1..Len(log) : log'[i] = log[i]
      /\ log'[Len(log) + 1] = pg
  BY <1>1, AppendProperties
<1>3. DOMAIN log = 1..Len(log) /\ DOMAIN log' = 1..Len(log') /\ Len(log) \in Nat
  BY <1>1, <1>2, LenProperties
<1>4. \A j \in 1..Len(log) : log[j].type = "depent" => Forward(log[j].ents)
  BY <1>3 DEF DepsForward
<1> SUFFICES ASSUME NEW j \in 1..(Len(log) + 1)
             PROVE  log'[j].type = "depent" => Forward(log'[j].ents)
  BY <1>2, <1>3
<1>5. CASE j = Len(log) + 1
  BY <1>2, <1>5
<1>6. CASE j # Len(log) + 1
  <2>1. j \in 1..Len(log)
    BY <1>3, <1>6
  <2> QED
    BY <1>2, <1>4, <2>1
<1> QED
  BY <1>5, <1>6

\* The same entries under the same or a later epoch.
LEMMA SameForward ==
  ASSUME TypeOK, DepsForward, pc # "recovered",
         g_epoch' = g_epoch \/ g_epoch' = g_epoch + 1,
         UNCHANGED <<deps, log>>
  PROVE  DepsForward'
<1>1. g_epoch \in Nat
  BY RecoveryAssumption DEF TypeOK, Epochs
<1>2. ASSUME NEW ents \in Seq(DepEnt), Forward(ents)
      PROVE  \A i \in DOMAIN ents : ents[i].src < ents[i].dst
                                      /\ ents[i].dst <= g_epoch'
  <2> SUFFICES ASSUME NEW i \in DOMAIN ents
               PROVE  ents[i].src < ents[i].dst /\ ents[i].dst <= g_epoch'
    OBVIOUS
  <2>1. ents[i] \in DepEnt
    BY LenProperties, ElementOfSeq
  <2>2. ents[i].dst \in Nat
    BY <2>1, RecoveryAssumption DEF DepEnt, Epochs
  <2> QED
    BY <1>1, <1>2, <2>2 DEF Forward
<1>3. deps \in Seq(DepEnt) /\ Forward(deps)
  BY DEF TypeOK, DepsForward
<1>4. ASSUME NEW j \in DOMAIN log, log[j].type = "depent"
      PROVE  log[j].ents \in Seq(DepEnt) /\ Forward(log[j].ents)
  <2>1. log[j] \in LogPage
    BY LenProperties, ElementOfSeq DEF TypeOK
  <2> QED
    BY <1>4, <2>1 DEF LogPage, DepsForward
<1> QED
  BY <1>2, <1>3, <1>4 DEF DepsForward, Forward

LEMMA RecordDepentForward ==
  ASSUME TypeOK, DepsForward, pc # "recovered", RecordDepent,
         g_epoch' = g_epoch
  PROVE  DepsForward'
<1>1. deps' = <<>>
  BY DEF RecordDepent
<1>2. CASE deps = <<>>
  <2>1. UNCHANGED <<deps, log>>
    BY <1>1, <1>2 DEF RecordDepent
  <2> QED
    BY <2>1, SameForward
<1>3. CASE deps # <<>>
  <2> DEFINE pg == [type |-> "depent", ents |-> deps]
  <2>1. pg \in LogPage /\ log' = Append(log, pg)
    BY <1>3 DEF RecordDepent, LogPage, TypeOK
  <2>2. Forward(pg.ents)
    BY DEF DepsForward
  <2> HIDE DEF pg
  <2>3. \A j \in DOMAIN log' : log'[j].type = "depent" => Forward(log'[j].ents)
    BY <2>1, <2>2, LogForward
  <2> QED
    BY <1>1, <2>3 DEF DepsForward, Forward
<1> QED
  BY <1>2, <1>3

\* insert_dep_entry: the overwritten page belongs to an older write.
LEMMA OverwriteForward ==
  ASSUME TypeOK, CacheInv, DepsForward, LookupHit
  PROVE  DepsForward'
<1>1. PICK i \in Bufs : /\ FirstHit(w.lpn, i)
                        /\ deps' = Overwrite(cache[Bank(w.lpn)][i])
  BY DEF LookupHit
<1>2. pc = "lookup" /\ UNCHANGED <<log, g_epoch>> /\ Writing
  BY DEF LookupHit, nand, Writing
<1>3. Bank(w.lpn) \in Banks /\ w.lpn \in Lpns /\ w.lpn \in Nat
  BY <1>2, WritingBank, RecoveryAssumption
<1> DEFINE e == cache[Bank(w.lpn)][i]
<1>4. e.lpn = w.lpn /\ e \in CacheEnt
  BY <1>1, <1>3 DEF FirstHit, Hits, TypeOK
<1>5. e.epoch \in Nat /\ g_epoch \in Nat /\ DepEntry(e) \in DepEnt
  <2>1. e.epoch \in Epochs /\ e.span \in Nat /\ g_epoch \in Epochs
    BY <1>3, <1>4 DEF CacheEnt, NoEnt, NoLpn, TypeOK
  <2>2. Epochs \subseteq Nat
    BY RecoveryAssumption DEF Epochs
  <2> QED
    BY <2>1, <2>2 DEF DepEntry, DepEnt
<1>6. Older(e)
  BY <1>2, <1>3, <1>4 DEF CacheInv, NoLpn
<1>7. e.epoch < g_epoch
  BY <1>2, <1>3, <1>4, <1>5, <1>6 DEF Older
<1> HIDE DEF e
<1>8. CASE deps' = deps
  BY <1>2, <1>8, SameForward
<1>9. CASE deps' = Append(deps, DepEntry(e))
  <2>1. deps \in Seq(DepEnt) /\ Forward(deps)
    BY <1>2 DEF TypeOK, DepsForward
  <2>2. /\ Len(deps') = Len(deps) + 1 /\ deps' \in Seq(DepEnt)
        /\ \A k \in 1..Len(deps) : deps'[k] = deps[k]
        /\ deps'[Len(deps) + 1] = DepEntry(e)
    BY <1>5, <1>9, <2>1, AppendProperties
  <2>3. /\ DOMAIN deps = 1..Len(deps) /\ DOMAIN deps' = 1..Len(deps')
        /\ Len(deps) \in Nat
    BY <2>1, <2>2, LenProperties
  <2>4. ASSUME NEW k \in DOMAIN deps'
        PROVE  deps'[k].src < deps'[k].dst /\ deps'[k].dst <= g_epoch
    <3>1. CASE k = Len(deps) + 1
      BY <1>5, <1>7, <2>2, <3>1 DEF DepEntry
    <3>2. CASE k # Len(deps) + 1
      <4>1. k \in 1..Len(deps)
        BY <2>2, <2>3, <3>2
      <4> QED
        BY <2>1, <2>2, <2>3, <4>1 DEF Forward
    <3> QED
      BY <3>1, <3>2
  <2> QED
    BY <1>2, <2>4 DEF DepsForward, Forward
<1> QED
  BY <1>1, <1>8, <1>9 DEF Overwrite, e

LEMMA NextDeps ==
  ASSUME TypeOK, CacheInv, DepsForward, [Next]_vars
  PROVE  DepsForward'
<1> USE DEF nand, wbuf, tables, chkpt, loops, gcvars, ghosts
<1>1. CASE LookupHit
  BY <1>1, OverwriteForward
<1>2. CASE DepFull \/ FlushDeps
  BY <1>2, RecordDepentForward DEF DepFull, FlushDeps
<1>3. CASE RecordMapent
  <2>1. CASE mapents = <<>>
    <3>1. UNCHANGED <<deps, log, g_epoch>> /\ pc # "recovered"
      BY <1>3, <2>1 DEF RecordMapent
    <3> QED
      BY <3>1, SameForward
  <2>2. CASE mapents # <<>>
    <3> DEFINE n == IF Len(mapents) < MapentsPerPage THEN Len(mapents)
                                                    ELSE MapentsPerPage
               pg == [type |-> "mapent", ents |-> SubSeq(mapents, 1, n)]
    <3>1. /\ log' = Append(log, pg) /\ UNCHANGED <<deps, g_epoch>>
          /\ pc # "recovered"
      BY <1>3, <2>2 DEF RecordMapent
    <3>2. n \in Nat /\ n <= Len(mapents) /\ mapents \in Seq(MapEnt)
      BY LenProperties, FtlAssumption DEF TypeOK
    <3>3. pg \in LogPage /\ pg.type # "depent"
      BY <3>2, SubSeqProperties DEF LogPage
    <3> HIDE DEF pg
    <3> QED
      BY <3>1, <3>3, LogForward DEF DepsForward, Forward
  <2> QED
    BY <2>1, <2>2
<1>4. CASE RecordTag
  <2>1. /\ log' = Append(log, Tag(g_epoch, active)) /\ UNCHANGED <<deps, g_epoch>>
        /\ pc # "recovered"
    BY <1>4 DEF RecordTag
  <2>2. Tag(g_epoch, active) \in LogPage /\ Tag(g_epoch, active).type # "depent"
    BY EpochType DEF Tag, LogPage, TypeOK
  <2> QED
    BY <2>1, <2>2, LogForward DEF DepsForward, Forward
<1>5. CASE EraseLog
  BY <1>5 DEF EraseLog, DepsForward, Forward
<1>6. CASE CrashAndRecover
  BY <1>6 DEF CrashAndRecover, DepsForward
<1>7. ASSUME NEW b \in Banks, Dequeue(b)
      PROVE  UNCHANGED <<deps, log>>
  BY <1>7 DEF Dequeue, Program
<1>8. ASSUME PoolWriteBuf
      PROVE  UNCHANGED <<deps, log>>
  BY <1>7, <1>8 DEF PoolWriteBuf, EraseVt, TypeOK
<1>9. CASE \/ WritePool \/ LookupMiss \/ CleanPool \/ CleanFound \/ Written
  <2>1. UNCHANGED <<deps, log>> /\ pc # "recovered"
    BY <1>9, <1>8 DEF WritePool, LookupMiss, CleanPool, CleanFound, Written
  <2>2. g_epoch' = g_epoch \/ g_epoch' = g_epoch + 1
    BY <1>9 DEF WritePool, LookupMiss, CleanPool, CleanFound, Written, EndWrite
  <2> QED
    BY <2>1, <2>2, SameForward
<1>10. CASE FlushBank \/ FlushAgain \/ FlushDone
  <2>1. FlushBank => bank \in Banks
    BY RecoveryAssumption DEF FlushBank, TypeOK, Banks
  <2>2. UNCHANGED <<deps, log, g_epoch>> /\ pc # "recovered"
    BY <1>10, <2>1, <1>7 DEF FlushBank, FlushAgain, FlushDone
  <2> QED
    BY <2>2, SameForward
<1>11. CASE GcStep
  <2>1. UNCHANGED <<deps, log>> /\ pc # "recovered"
    BY <1>11 DEF GcStep, GcSkip, GcBegin, GcCopy, GcEnd, GcRound, Program
  <2>2. g_epoch' = g_epoch \/ g_epoch' = g_epoch + 1
    BY <1>11 DEF GcStep, GcSkip, GcBegin, GcCopy, GcEnd, GcRound, EndWrite
  <2> QED
    BY <2>1, <2>2, SameForward
<1>12. CASE PersistMap \/ EraseMap
  <2>1. UNCHANGED <<deps, log, g_epoch>> /\ pc # "recovered"
    BY <1>12 DEF PersistMap, EraseMap
  <2> QED
    BY <2>1, SameForward
<1>13. CASE \/ SummaryPage \/ PoolStep \/ HostFlush \/ IdlePool \/ Timer
            \/ \E c \in WriteCmds : HostWrite(c[1], c[2])
  <2>1. UNCHANGED <<deps, log, g_epoch>> /\ pc # "recovered"
    BY <1>13, <1>8 DEF SummaryPage, NextProgram, PoolStep, HostFlush, IdlePool,
       Timer, HostWrite
  <2> QED
    BY <2>1, SameForward
<1>14. CASE UNCHANGED vars
  BY <1>14 DEF vars, DepsForward, Forward
<1> QED
  BY <1>1, <1>2, <1>3, <1>4, <1>5, <1>6, <1>9, <1>10, <1>11, <1>12, <1>13,
     <1>14 DEF Next, FtlStep, WriteStep, FlushStep, ChkptStep

-----------------------------------------------------------------------------
(***************************************************************************)
(* The theorems                                                            *)
(***************************************************************************)

\* The invariant is inductive and holds in every reachable state.
THEOREM InductiveInvariant == Spec => []IInv
<1>1. IInv /\ [Next]_vars => IInv'
  BY NextType, NextEpoch, NextFlush, NextCache, NextDeps DEF IInv
<1> QED
  BY InitInv, <1>1, PTL DEF Spec

\* Every variable of the firmware and of the flash keeps its type: pointers
\* stay inside their rings, the running command stays inside the logical
\* space, a page in the buffer is one of the drive.
THEOREM TypeCorrect == Spec => []TypeOK
<1>1. IInv => TypeOK
  BY DEF IInv
<1> QED
  BY InductiveInvariant, <1>1, PTL

\* record_tag and reclaim_log run only when every write issued is in flash
\* and the log holds every map entry and dependency.
THEOREM TagsAreComplete == Spec => []CheckpointComplete
<1>1. IInv => CheckpointComplete
  <2> SUFFICES ASSUME IInv, pc \in {"tag", "persist", "erasemap", "eraselog"}
               PROVE  /\ g_epoch = Len(hist)
                      /\ deps = <<>> /\ mapents = <<>>
                      /\ \A b \in Banks : DirtyBufs(b) = {}
    BY DEF CheckpointComplete
  <2>1. g_epoch \in Nat /\ Len(hist) \in Nat
    BY LenProperties, RecoveryAssumption DEF IInv, TypeOK, Epochs
  <2>2. ~InWrite
    BY DEF InWrite, Writing
  <2>3. g_epoch = Len(hist)
    BY <2>1, <2>2 DEF IInv, EpochInv
  <2> QED
    BY <2>3 DEF IInv, FlushInv, Clean
<1> QED
  BY InductiveInvariant, <1>1, PTL

\* Every dependency, in DRAM and in the log, leads from a write to a later
\* one.
THEOREM DependenciesForward == Spec => []DepsForward
<1>1. IInv => DepsForward
  BY DEF IInv
<1> QED
  BY InductiveInvariant, <1>1, PTL

-----------------------------------------------------------------------------
(***************************************************************************)
(* Where data go: the blocks the ring hands out are erased, the page map   *)
(* points to pages that hold what it says, and the counts that garbage     *)
(* collection goes by are exact.                                           *)
(*                                                                         *)
(* These theorems are about behaviours in which nothing runs out           *)
(* (RoomLeft): the code takes a block and chooses a victim without looking *)
(* at what is left, which the thresholds of ftl.h have to make enough.     *)
(***************************************************************************)

-----------------------------------------------------------------------------
(* The invariant, first as operators on the state of one bank.             *)

\* Free blocks are erased, but for the one whose erase is pending; used ones
\* are closed, but for the active one, which is erased from its page on.
BankOk(fl, r, ac) ==
  /\ RingOk(r) /\ r.free < NumBlks
  /\ ac.blk = Nth(r, Used(r) - 1)
  /\ Len(fl[ac.blk].pages) = ac.page /\ fl[ac.blk].next = NoBlk
  /\ \A k \in Used(r)..(NumBlks - 1) : Nth(r, k) # r.vt => fl[Nth(r, k)] = Erased
  /\ \A k \in 0..(Used(r) - 2) : fl[Nth(r, k)].next # NoBlk

\* The map m points to pages that are there and hold the logical page, none
\* of them in the block waiting for its erase.
MapOk(b, fl, vt, m) ==
  \A l \in Lpns : Bank(l) = b /\ m[l] # NoPpn =>
    /\ m[l].blk # vt
    /\ m[l].page < Len(fl[m[l].blk].pages)
    /\ fl[m[l].blk].pages[m[l].page + 1].lpn = l

\* The pages in bank b are pages of bank b.
HomeOk(b, fl) ==
  \A k \in Blks : \A n \in DOMAIN fl[k].pages : Bank(fl[k].pages[n].lpn) = b

\* The logical pages that the map m has in block k.
Mapped(b, k, m) == {l \in Lpns : Bank(l) = b /\ m[l].blk = k}

SpaceInv ==
  pc # "recovered" =>
    \A b \in Banks : /\ BankOk(flash[b], ring[b], active[b])
                     /\ MapOk(b, flash[b], ring[b].vt, pgmap)
                     /\ HomeOk(b, flash[b])

CacheHome ==
  \A b \in Banks, i \in Bufs :
    cache[b][i].lpn # NoLpn => Bank(cache[b][i].lpn) = b

\* The victim is at the tail, with the pages before gcPage already copied.
VictimInv ==
  pc = "gccopy" =>
    /\ ring[bank].vt = NoBlk /\ Used(ring[bank]) > 1
    /\ victim = Nth(ring[bank], 0)
    /\ \A l \in Mapped(bank, victim, pgmap) : pgmap[l].page >= gcPage

\* The count of the block being collected stays what it was; pages already
\* copied and pages still there make it up.
CountInv ==
  pc # "recovered" =>
    /\ \A b \in Banks, k \in Blks :
         ~(pc = "gccopy" /\ b = bank /\ k = victim) =>
            vcount[b][k] = Cardinality(Mapped(b, k, pgmap))
    /\ pc = "gccopy" =>
         vcount[bank][victim] = nvalid + Cardinality(Mapped(bank, victim, pgmap))

SInv == SpaceInv /\ CacheHome /\ VictimInv /\ CountInv

-----------------------------------------------------------------------------
(* One bank: what programs, erases and the ring operators do to it.        *)

LEMMA BankFacts ==
  ASSUME NEW fl, NEW r \in RingType, NEW ac \in Ppn, BankOk(fl, r, ac)
  PROVE  /\ Used(r) \in 1..NumBlks /\ ac.blk \in Blks /\ ac.page \in Pages
         /\ \A k \in Idx : Nth(r, k) \in Blks
         /\ ac.blk # r.vt
         /\ \A k \in Idx : k # Used(r) - 1 => Nth(r, k) # ac.blk
         /\ Used(r) - 1 \in Idx
<1>1. Used(r) \in 1..NumBlks /\ Used(r) - 1 \in Idx
  BY NumBlksAssumption DEF BankOk, RingOk, Used, Idx
<1>2. \A k \in Idx : Nth(r, k) \in Blks
  <2> TAKE k \in Idx
  <2>1. At(r, k) \in Idx
    BY AtSteps, NumBlksAssumption DEF Idx
  <2> QED
    BY <2>1 DEF Nth, RingType
<1>3. \A k \in Idx : k # Used(r) - 1 => Nth(r, k) # ac.blk
  BY <1>1 DEF BankOk, RingOk
<1>4. ac.blk # r.vt
  <2>1. CASE r.vt = NoBlk
    BY <2>1 DEF Ppn, Blks, NoBlk
  <2>2. CASE r.vt # NoBlk
    <3>1. NumBlks - 1 \in Idx /\ NumBlks - 1 # Used(r) - 1 /\ Nth(r, NumBlks - 1) = r.vt
      BY <2>2, <1>1, NumBlksAssumption DEF BankOk, RingOk, Used, Idx
    <3> QED
      BY <1>3, <3>1
  <2> QED
    BY <2>1, <2>2
<1> QED
  BY <1>1, <1>2, <1>3, <1>4 DEF Ppn

\* A page is programmed into the active block.
LEMMA BankProgram ==
  ASSUME NEW fl \in [Blks -> Block], NEW r \in RingType, NEW ac \in Ppn,
         BankOk(fl, r, ac), NEW pg \in DataPage,
         NEW fm, fm = [fl EXCEPT ![ac.blk].pages = Append(@, pg)],
         NEW ad, ad = [ac EXCEPT !.page = @ + 1]
  PROVE  BankOk(fm, r, ad)
<1>1. /\ Used(r) \in 1..NumBlks /\ ac.blk \in Blks
      /\ \A k \in Idx : Nth(r, k) \in Blks /\ (k # Used(r) - 1 => Nth(r, k) # ac.blk)
  BY BankFacts
<1>2. PICK e : e = fl[ac.blk]
  OBVIOUS
<1>3. e \in Block /\ e.pages \in Seq(DataPage) /\ Len(e.pages) = ac.page /\ e.next = NoBlk
  BY <1>1, <1>2 DEF Block, BankOk
<1>4. /\ fm[ac.blk] = [e EXCEPT !.pages = Append(e.pages, pg)]
      /\ \A k \in Blks \ {ac.blk} : fm[k] = fl[k]
  BY <1>1, <1>2
<1>5. Len(fm[ac.blk].pages) = ac.page + 1 /\ fm[ac.blk].next = NoBlk
  <2>1. Len(Append(e.pages, pg)) = ac.page + 1
    BY <1>3, AppendProperties
  <2> QED
    BY <1>3, <1>4, <2>1 DEF Block
<1>6. ad.blk = ac.blk /\ ad.page = ac.page + 1
  BY DEF Ppn
<1>7. \A k \in Used(r)..(NumBlks - 1) : k \in Idx /\ k # Used(r) - 1
  BY <1>1, NumBlksAssumption DEF Idx
<1>8. \A k \in 0..(Used(r) - 2) : k \in Idx /\ k # Used(r) - 1
  BY <1>1, NumBlksAssumption DEF Idx
<1> QED
  BY <1>1, <1>4, <1>5, <1>6, <1>7, <1>8 DEF BankOk

\* The summary page is programmed and the next block taken.
LEMMA BankClose ==
  ASSUME NEW fl \in [Blks -> Block], NEW r \in RingType, NEW ac \in Ppn,
         BankOk(fl, r, ac), r.free > 0, r.vt # NoBlk => r.free > 1,
         NEW fm, fm = [fl EXCEPT ![ac.blk].next = HeadBlk(r)]
  PROVE  BankOk(fm, TakeBlk(r), [blk |-> HeadBlk(r), page |-> 0])
<1>1. /\ Used(r) \in 1..NumBlks /\ ac.blk \in Blks /\ Used(r) - 1 \in Idx
      /\ \A k \in Idx : Nth(r, k) \in Blks /\ (k # Used(r) - 1 => Nth(r, k) # ac.blk)
  BY BankFacts
<1>2. PICK s, hd : s = TakeBlk(r) /\ hd = HeadBlk(r)
  OBVIOUS
<1>3. /\ RingOk(s) /\ Used(r) \in Idx /\ hd = Nth(r, Used(r))
      /\ Used(s) = Used(r) + 1 /\ s.vt = r.vt
      /\ \A k : Nth(s, k) = Nth(r, k)
  BY <1>2, TakeOk DEF BankOk
<1>4. s.free < NumBlks
  BY <1>2, NumBlksAssumption DEF TakeBlk, BankOk, RingOk, RingType
<1>5. hd \in Blks /\ hd # NoBlk /\ hd # ac.blk
  BY <1>1, <1>3 DEF Blks, NoBlk
<1>6. hd # r.vt
  <2>1. CASE r.vt = NoBlk
    BY <1>5, <2>1
  <2>2. CASE r.vt # NoBlk
    <3>1. /\ NumBlks - 1 \in Idx /\ Used(r) # NumBlks - 1
          /\ Nth(r, NumBlks - 1) = r.vt
      BY <2>2, NumBlksAssumption DEF BankOk, RingOk, Used, Idx
    <3> QED
      BY <1>3, <3>1 DEF BankOk, RingOk
  <2> QED
    BY <2>1, <2>2
<1>7. /\ fm[ac.blk].next = hd
      /\ \A k \in Blks \ {ac.blk} : fm[k] = fl[k]
  BY <1>1, <1>2 DEF Block
<1>8. fm[hd] = Erased /\ Len(fm[hd].pages) = 0 /\ fm[hd].next = NoBlk
  <2>1. fl[hd] = Erased
    BY <1>3, <1>6, <1>1, NumBlksAssumption DEF BankOk, Idx
  <2> QED
    BY <1>5, <1>7, <2>1 DEF Erased
<1>9. ASSUME NEW k \in Used(s)..(NumBlks - 1), Nth(s, k) # s.vt
      PROVE  fm[Nth(s, k)] = Erased
  <2>1. k \in Idx /\ k # Used(r) - 1 /\ k \in Used(r)..(NumBlks - 1)
    BY <1>1, <1>3, NumBlksAssumption DEF Idx
  <2> QED
    BY <1>1, <1>3, <1>7, <1>9, <2>1 DEF BankOk
<1>10. ASSUME NEW k \in 0..(Used(s) - 2)
       PROVE  fm[Nth(s, k)].next # NoBlk
  <2>1. k \in 0..(Used(r) - 1) /\ k \in Idx
    BY <1>1, <1>3, NumBlksAssumption DEF Idx
  <2>2. CASE k = Used(r) - 1
    BY <1>3, <1>5, <1>7, <2>2 DEF BankOk
  <2>3. CASE k \in 0..(Used(r) - 2)
    BY <1>1, <1>3, <1>7, <2>1, <2>3 DEF BankOk
  <2> QED
    BY <1>1, <2>1, <2>2, <2>3
<1>11. hd = Nth(s, Used(s) - 1)
  BY <1>1, <1>3
<1>12. BankOk(fm, s, [blk |-> hd, page |-> 0])
  BY <1>3, <1>4, <1>8, <1>9, <1>10, <1>11 DEF BankOk
<1> QED
  BY <1>2, <1>12

\* The block waiting for its erase is erased.
LEMMA BankErase ==
  ASSUME NEW fl \in [Blks -> Block], NEW r \in RingType, NEW ac \in Ppn,
         BankOk(fl, r, ac),
         NEW fm, fm = IF r.vt = NoBlk THEN fl ELSE [fl EXCEPT ![r.vt] = Erased]
  PROVE  BankOk(fm, VtErased(r), ac)
<1>1. /\ Used(r) \in 1..NumBlks /\ ac.blk \in Blks /\ ac.blk # r.vt
      /\ \A k \in Idx : Nth(r, k) \in Blks
  BY BankFacts
<1>2. PICK s : s = VtErased(r)
  OBVIOUS
<1>3. /\ RingOk(s) /\ Used(s) = Used(r) /\ s.free = r.free
      /\ \A k : Nth(s, k) = Nth(r, k)
  BY <1>2, SameRingOk DEF BankOk, VtErased, RingType
<1>4. \A k \in Blks : fm[k] = IF k = r.vt THEN Erased ELSE fl[k]
  BY DEF NoBlk, Blks
<1>5. fm[ac.blk] = fl[ac.blk]
  BY <1>1, <1>4
<1>6. \A k \in Used(r)..(NumBlks - 1) : k \in Idx /\ fm[Nth(r, k)] = Erased
  BY <1>1, <1>4, NumBlksAssumption DEF BankOk, Idx
<1>7. ASSUME NEW k \in 0..(Used(r) - 2)
      PROVE  fm[Nth(r, k)] = fl[Nth(r, k)]
  <2>1. k \in Idx
    BY <1>1, NumBlksAssumption DEF Idx
  <2>2. CASE r.vt = NoBlk
    BY <2>2
  <2>3. CASE r.vt # NoBlk
    <3>1. k # NumBlks - 1 /\ NumBlks - 1 \in Idx /\ Nth(r, NumBlks - 1) = r.vt
      BY <2>3, <1>1, NumBlksAssumption DEF BankOk, RingOk, Idx
    <3> QED
      BY <1>1, <1>4, <2>1, <3>1 DEF BankOk, RingOk
  <2> QED
    BY <2>2, <2>3
<1>8. BankOk(fm, s, ac)
  BY <1>3, <1>5, <1>6, <1>7 DEF BankOk
<1> QED
  BY <1>2, <1>8

\* A closed block is a used one, before the active one.
LEMMA ClosedIsUsed ==
  ASSUME NEW fl, NEW r \in RingType, NEW ac \in Ppn, BankOk(fl, r, ac),
         r.vt = NoBlk, NEW m \in Idx, fl[Nth(r, m)].next # NoBlk
  PROVE  m \in 0..(Used(r) - 2)
<1>1. /\ Used(r) \in 1..NumBlks
      /\ \A k \in Idx : Nth(r, k) \in Blks
  BY BankFacts
<1>2. m # Used(r) - 1
  BY DEF BankOk
<1>3. m \notin Used(r)..(NumBlks - 1)
  <2>1. \A k \in Idx : Nth(r, k) # NoBlk
    BY <1>1 DEF Blks, NoBlk
  <2>2. \A k \in Used(r)..(NumBlks - 1) : fl[Nth(r, k)].next = NoBlk
    BY <1>1, <2>1, NumBlksAssumption DEF BankOk, Erased, Idx
  <2> QED
    BY <2>2
<1> QED
  BY <1>1, <1>2, <1>3, NumBlksAssumption DEF Idx

\* The victim goes to the tail.
LEMMA BankSwap ==
  ASSUME NEW fl, NEW r \in RingType, NEW ac \in Ppn, BankOk(fl, r, ac),
         r.vt = NoBlk, NEW m \in Idx, fl[Nth(r, m)].next # NoBlk,
         NEW s, s = SwapVictim(r, At(r, m))
  PROVE  /\ BankOk(fl, s, ac) /\ s.vt = NoBlk /\ Used(s) > 1
         /\ Nth(r, m) = Nth(s, 0)
<1>1. /\ Used(r) \in 1..NumBlks
      /\ \A k \in Idx : Nth(r, k) \in Blks
  BY BankFacts
<1>2. m \in 0..(Used(r) - 2)
  BY ClosedIsUsed
<1>3. /\ RingOk(s) /\ Used(s) = Used(r) /\ s.vt = NoBlk
      /\ Nth(s, 0) = Nth(r, m) /\ Nth(s, m) = Nth(r, 0)
      /\ \A k \in Idx \ {0, m} : Nth(s, k) = Nth(r, k)
  BY SwapOk DEF BankOk
<1>4. s.free = r.free
  BY DEF SwapVictim, RingType
<1>5. Used(r) - 1 \in Idx \ {0, m} /\ Used(s) > 1
  BY <1>1, <1>2, <1>3, NumBlksAssumption DEF Idx
<1>6. \A k \in Used(r)..(NumBlks - 1) : k \in Idx \ {0, m}
  BY <1>1, <1>2, NumBlksAssumption DEF Idx
<1>7. \A k \in 0..(Used(r) - 2) : k \in Idx /\ 0 \in 0..(Used(r) - 2)
  BY <1>1, <1>2, NumBlksAssumption DEF Idx
<1>8. \A k \in 0..(Used(s) - 2) : fl[Nth(s, k)].next # NoBlk
  BY <1>2, <1>3, <1>7 DEF BankOk
<1>9. \A k \in Used(s)..(NumBlks - 1) : fl[Nth(s, k)] = Erased
  <2>1. \A k \in Idx : Nth(r, k) # r.vt
    BY <1>1 DEF Blks, NoBlk
  <2> QED
    BY <1>3, <1>6, <2>1 DEF BankOk
<1> QED
  BY <1>3, <1>4, <1>5, <1>8, <1>9 DEF BankOk

\* The block at the tail is counted as free.
LEMMA BankFree ==
  ASSUME NEW fl, NEW r \in RingType, NEW ac \in Ppn, BankOk(fl, r, ac),
         r.vt = NoBlk, Used(r) > 1,
         NEW s, s = FreeVictim(r, Nth(r, 0))
  PROVE  BankOk(fl, s, ac) /\ s.vt = Nth(r, 0)
<1>1. /\ Used(r) \in 1..NumBlks
      /\ \A k \in Idx : Nth(r, k) \in Blks
  BY BankFacts
<1>2. /\ RingOk(s) /\ Used(s) = Used(r) - 1 /\ s.vt = Nth(r, 0)
      /\ \A k \in 0..(NumBlks - 2) : Nth(s, k) = Nth(r, k + 1)
      /\ Nth(s, NumBlks - 1) = Nth(r, 0)
  BY FreeOk DEF BankOk
<1>3. s.free < NumBlks
  BY <1>1, NumBlksAssumption DEF Used, FreeVictim, RingType
<1>4. ac.blk = Nth(s, Used(s) - 1)
  <2>1. Used(s) - 1 \in 0..(NumBlks - 2) /\ (Used(s) - 1) + 1 = Used(r) - 1
    BY <1>1, <1>2, NumBlksAssumption
  <2>2. Nth(s, Used(s) - 1) = Nth(r, (Used(s) - 1) + 1)
    BY <1>2, <2>1
  <2> QED
    BY <2>1, <2>2 DEF BankOk
<1>5. ASSUME NEW k \in Used(s)..(NumBlks - 1), Nth(s, k) # s.vt
      PROVE  fl[Nth(s, k)] = Erased
  <2>1. k # NumBlks - 1
    BY <1>2, <1>5
  <2>2. k \in 0..(NumBlks - 2) /\ k + 1 \in Used(r)..(NumBlks - 1) /\ k + 1 \in Idx
    BY <1>1, <1>2, <2>1, NumBlksAssumption DEF Idx
  <2>3. Nth(r, k + 1) # r.vt
    BY <1>1, <2>2 DEF Blks, NoBlk
  <2> QED
    BY <1>2, <2>2, <2>3 DEF BankOk
<1>6. ASSUME NEW k \in 0..(Used(s) - 2)
      PROVE  fl[Nth(s, k)].next # NoBlk
  <2>1. k \in 0..(NumBlks - 2) /\ k + 1 \in 0..(Used(r) - 2)
    BY <1>1, <1>2, NumBlksAssumption
  <2> QED
    BY <1>2, <2>1 DEF BankOk
<1> QED
  BY <1>2, <1>3, <1>4, <1>5, <1>6 DEF BankOk

\* A tag reserves the blocks; the places in the ring do not change.
LEMMA BankRsv ==
  ASSUME NEW fl, NEW r \in RingType, NEW ac \in Ppn, BankOk(fl, r, ac)
  PROVE  /\ BankOk(fl, PushRsv(r), ac) /\ PushRsv(r).vt = r.vt
<1>1. PICK s : s = PushRsv(r)
  OBVIOUS
<1>2. /\ RingOk(s) /\ Used(s) = Used(r) /\ s.free = r.free /\ s.vt = r.vt
      /\ \A k : Nth(s, k) = Nth(r, k)
  BY <1>1, SameRingOk DEF BankOk, PushRsv, RingType
<1>3. BankOk(fl, s, ac) /\ s.vt = r.vt
  BY <1>2 DEF BankOk
<1> QED
  BY <1>1, <1>3

-----------------------------------------------------------------------------
(* One bank: the map and the pages it points to.                           *)

\* A page of bank b is programmed and mapped.
LEMMA MapProgram ==
  ASSUME NEW b, NEW fl \in [Blks -> Block], NEW vt, NEW m \in [Lpns -> PpnOpt],
         NEW ac \in Ppn, NEW pg \in DataPage,
         MapOk(b, fl, vt, m), HomeOk(b, fl), Bank(pg.lpn) = b,
         Len(fl[ac.blk].pages) = ac.page, ac.blk # vt,
         NEW fm, fm[ac.blk].pages = Append(fl[ac.blk].pages, pg),
         \A k \in Blks \ {ac.blk} : fm[k] = fl[k],
         NEW mm, mm[pg.lpn] = ac, \A l \in Lpns \ {pg.lpn} : mm[l] = m[l]
  PROVE  MapOk(b, fm, vt, mm) /\ HomeOk(b, fm)
<1>1. ac.blk \in Blks /\ ac.page \in Nat /\ pg.lpn \in Lpns
  BY DEF Ppn, Pages, DataPage
<1>2. PICK e : e = fl[ac.blk]
  OBVIOUS
<1>3. e \in Block /\ e.pages \in Seq(DataPage) /\ Len(e.pages) = ac.page
  BY <1>1, <1>2 DEF Block
<1>4. /\ fm[ac.blk].pages = Append(e.pages, pg)
      /\ \A k \in Blks \ {ac.blk} : fm[k] = fl[k]
  BY <1>2
<1>5. PICK q : q = Append(e.pages, pg)
  OBVIOUS
<1>6. /\ Len(q) = ac.page + 1 /\ q[ac.page + 1] = pg
      /\ DOMAIN q = 1..(ac.page + 1)
      /\ \A n \in 1..ac.page : q[n] = e.pages[n] /\ n \in DOMAIN e.pages
  BY <1>3, <1>5, AppendProperties, LenProperties
<1>7. ASSUME NEW l \in Lpns, Bank(l) = b, mm[l] # NoPpn
      PROVE  /\ mm[l].blk # vt
             /\ mm[l].page < Len(fm[mm[l].blk].pages)
             /\ fm[mm[l].blk].pages[mm[l].page + 1].lpn = l
  <2>1. CASE l = pg.lpn
    <3>1. mm[l] = ac /\ fm[ac.blk].pages = q
      BY <1>1, <1>4, <1>5, <2>1
    <3>2. ac.page < Len(q) /\ q[ac.page + 1].lpn = l
      BY <1>1, <1>6, <2>1
    <3> QED
      BY <3>1, <3>2
  <2>2. CASE l # pg.lpn
    <3>1. mm[l] = m[l] /\ m[l] \in Ppn
      BY <1>1, <1>7, <2>2 DEF PpnOpt
    <3>2. /\ m[l].blk # vt /\ m[l].page < Len(fl[m[l].blk].pages)
          /\ fl[m[l].blk].pages[m[l].page + 1].lpn = l
          /\ m[l].blk \in Blks /\ m[l].page \in Nat
      BY <1>7, <3>1 DEF MapOk, Ppn, Pages
    <3>3. CASE m[l].blk = ac.blk
      <4>1. m[l].page < ac.page /\ m[l].page + 1 \in 1..ac.page
        BY <1>1, <1>2, <1>3, <3>2, <3>3
      <4>2. q[m[l].page + 1] = e.pages[m[l].page + 1]
        BY <1>6, <4>1
      <4>3. m[l].page < Len(q)
        BY <1>1, <1>6, <3>2, <4>1
      <4> QED
        BY <1>2, <1>4, <1>5, <3>1, <3>2, <3>3, <4>2, <4>3
    <3>4. CASE m[l].blk # ac.blk
      BY <1>4, <3>1, <3>2, <3>4
    <3> QED
      BY <3>3, <3>4
  <2> QED
    BY <2>1, <2>2
<1>8. ASSUME NEW k \in Blks, NEW n \in DOMAIN fm[k].pages
      PROVE  Bank(fm[k].pages[n].lpn) = b
  <2>1. CASE k # ac.blk
    BY <1>4, <1>8, <2>1 DEF HomeOk
  <2>2. CASE k = ac.blk /\ n = ac.page + 1
    BY <1>4, <1>5, <1>6, <2>2
  <2>3. CASE k = ac.blk /\ n # ac.page + 1
    <3>1. fm[k].pages = q
      BY <1>4, <1>5, <2>3
    <3>2. n \in 1..ac.page
      BY <1>1, <1>6, <1>8, <2>3, <3>1
    <3>3. q[n] = fl[k].pages[n] /\ n \in DOMAIN fl[k].pages
      BY <1>2, <1>6, <2>3, <3>2
    <3> QED
      BY <3>1, <3>3 DEF HomeOk
  <2> QED
    BY <2>1, <2>2, <2>3
<1> QED
  BY <1>7, <1>8 DEF MapOk, HomeOk

\* A page of another bank is mapped.
LEMMA MapOther ==
  ASSUME NEW b, NEW m, NEW mm, \A l \in Lpns : Bank(l) = b => mm[l] = m[l]
  PROVE  /\ \A fl, vt : MapOk(b, fl, vt, m) => MapOk(b, fl, vt, mm)
         /\ \A k : Mapped(b, k, mm) = Mapped(b, k, m)
BY DEF MapOk, Mapped

\* The pages stay: only a link is set, or nothing changes.
LEMMA MapSamePages ==
  ASSUME NEW b, NEW fl, NEW vt, NEW m \in [Lpns -> PpnOpt], NEW fm,
         \A k \in Blks : fm[k].pages = fl[k].pages
  PROVE  /\ MapOk(b, fl, vt, m) => MapOk(b, fm, vt, m)
         /\ HomeOk(b, fl) => HomeOk(b, fm)
<1>1. \A l \in Lpns : m[l] # NoPpn => m[l].blk \in Blks
  BY DEF PpnOpt, Ppn
<1> QED
  BY <1>1 DEF MapOk, HomeOk

\* The map points nowhere into the block that waits for its erase.
LEMMA MapErase ==
  ASSUME NEW b, NEW fl \in [Blks -> Block], NEW vt, NEW m \in [Lpns -> PpnOpt],
         MapOk(b, fl, vt, m), HomeOk(b, fl),
         NEW fm, fm = IF vt = NoBlk THEN fl ELSE [fl EXCEPT ![vt] = Erased]
  PROVE  MapOk(b, fm, NoBlk, m) /\ HomeOk(b, fm)
<1>1. \A k \in Blks : fm[k] = IF k = vt THEN Erased ELSE fl[k]
  BY DEF NoBlk, Blks
<1>2. \A l \in Lpns : m[l] # NoPpn => m[l].blk \in Blks /\ m[l].blk # NoBlk
  BY DEF PpnOpt, Ppn, Blks, NoBlk
<1>3. MapOk(b, fm, NoBlk, m)
  BY <1>1, <1>2 DEF MapOk
<1>4. Erased.pages = <<>> /\ DOMAIN Erased.pages = {}
  BY DEF Erased
<1>5. HomeOk(b, fm)
  BY <1>1, <1>4 DEF HomeOk
<1> QED
  BY <1>3, <1>5

\* A block the map does not point to may wait for its erase.
LEMMA MapFree ==
  ASSUME NEW b, NEW fl, NEW m, MapOk(b, fl, NoBlk, m),
         NEW k, Mapped(b, k, m) = {}
  PROVE  MapOk(b, fl, k, m)
BY DEF MapOk, Mapped

-----------------------------------------------------------------------------
(* How many pages the map has in a block.                                  *)

LEMMA MappedFinite ==
  ASSUME NEW b, NEW k, NEW m
  PROVE  IsFiniteSet(Mapped(b, k, m)) /\ Cardinality(Mapped(b, k, m)) \in Nat
<1>1. Mapped(b, k, m) \in SUBSET Lpns
  BY DEF Mapped
<1> QED
  BY <1>1, LpnsAssumption, FS_Subset, FS_CardinalityType

\* Page l moves to block t: that block has one more unless it had it, and
\* the block it was in one less.
LEMMA MappedMoves ==
  ASSUME NEW b, NEW m \in [Lpns -> PpnOpt], NEW l \in Lpns, Bank(l) = b,
         NEW v \in Ppn, NEW k,
         NEW mm, mm[l] = v, \A x \in Lpns \ {l} : mm[x] = m[x]
  PROVE  Cardinality(Mapped(b, k, mm)) =
           Cardinality(Mapped(b, k, m)) + (IF k = v.blk THEN 1 ELSE 0)
                                        - (IF k = m[l].blk THEN 1 ELSE 0)
<1>1. PICK S, T : S = Mapped(b, k, m) /\ T = Mapped(b, k, mm)
  OBVIOUS
<1>2. IsFiniteSet(S) /\ IsFiniteSet(T) /\ Cardinality(S) \in Nat
  BY <1>1, MappedFinite
<1>3. l \in S <=> k = m[l].blk
  BY <1>1 DEF Mapped
<1>4. CASE k = v.blk
  <2>1. T = S \cup {l}
    BY <1>1, <1>4 DEF Mapped
  <2>2. Cardinality(T) = IF l \in S THEN Cardinality(S) ELSE Cardinality(S) + 1
    BY <1>2, <2>1, FS_AddElement
  <2> QED
    BY <1>1, <1>2, <1>3, <1>4, <2>2
<1>5. CASE k # v.blk
  <2>1. T = S \ {l}
    BY <1>1, <1>5 DEF Mapped
  <2>2. Cardinality(T) = IF l \in S THEN Cardinality(S) - 1 ELSE Cardinality(S)
    BY <1>2, <2>1, FS_RemoveElement
  <2> QED
    BY <1>1, <1>2, <1>3, <1>5, <2>2
<1> QED
  BY <1>4, <1>5

-----------------------------------------------------------------------------
(* The steps, by what they do to the tables.                               *)

\* Nothing moves, and no collection begins or ends.
Quiet ==
  /\ UNCHANGED <<flash, ring, active, pgmap, vcount>>
  /\ pc' = "recovered" <=> pc = "recovered"
  /\ pc' = "gccopy" <=> pc = "gccopy"
  /\ pc = "gccopy" => UNCHANGED <<bank, victim, gcPage, nvalid>>

\* Before and after, the drive runs and collects nothing.
Plain == pc \notin {"gccopy", "recovered"} /\ pc' \notin {"gccopy", "recovered"}

Buffering == Plain /\ \E b \in Banks : Dequeue(b) \/ EraseVt(b)

Closing ==
  /\ pc # "recovered"
  /\ UNCHANGED <<pgmap, vcount, pc, bank, victim, gcPage, nvalid>>
  /\ \E b \in Banks : CloseBlock(b)

LEMMA SpaceSteps ==
  ASSUME TypeOK, [Next]_vars
  PROVE  \/ Quiet \/ Buffering \/ Closing
         \/ GcBegin \/ GcCopy \/ GcEnd
         \/ RecordTag \/ CrashAndRecover
<1> USE DEF nand, wbuf, tables, chkpt, loops, gcvars, ghosts
<1>0. pool \in Banks
  BY DEF TypeOK
<1>1. CASE WriteStep
  <2>1. ASSUME NEW i, Enqueue(i)
        PROVE  pc' \in {"written", "page"}
    BY <2>1 DEF Enqueue
  <2>2. CASE WritePool
    BY <1>0, <2>2 DEF WritePool, PoolWriteBuf, Buffering, Plain
  <2>3. CASE CleanPool
    BY <1>0, <2>3 DEF CleanPool, PoolWriteBuf, Buffering, Plain
  <2>4. CASE LookupMiss \/ LookupHit \/ CleanFound \/ DepFull
    BY <2>1, <2>4 DEF LookupMiss, LookupHit, CleanFound, DepFull, Quiet
  <2>5. CASE Written
    BY <2>5 DEF Written, EndWrite, Quiet
  <2> QED
    BY <1>1, <2>2, <2>3, <2>4, <2>5 DEF WriteStep
<1>2. CASE FlushStep
  <2>1. CASE FlushDeps
    BY <2>1 DEF FlushDeps, Quiet
  <2>2. CASE FlushBank
    <3>1. bank \in Banks /\ Plain
      BY <2>2, RecoveryAssumption DEF FlushBank, TypeOK, Banks, Plain
    <3>2. CASE Dequeue(bank)
      BY <3>1, <3>2 DEF Buffering
    <3>3. CASE UNCHANGED <<nand, wbuf, tables, chkpt, done>>
      BY <3>1, <3>3 DEF Quiet, Plain
    <3> QED
      BY <2>2, <3>2, <3>3 DEF FlushBank
  <2>3. CASE FlushAgain
    BY <2>3 DEF FlushAgain, Quiet
  <2>4. CASE FlushDone
    <3>1. /\ pc = "flush" /\ UNCHANGED <<nand, tables>>
          /\ pc' = IF back = "gc" THEN "gc"
                   ELSE IF back \in {"chkpt", "close"} THEN "mapent" ELSE "idle"
      BY <2>4 DEF FlushDone, TypeOK, Returns
    <3> QED
      BY <3>1 DEF Quiet
  <2> QED
    BY <1>2, <2>1, <2>2, <2>3, <2>4 DEF FlushStep
<1>3. CASE GcStep
  BY <1>3 DEF GcStep, GcSkip, GcRound, EndWrite, Quiet
<1>4. CASE ChkptStep
  BY <1>4 DEF ChkptStep, RecordMapent, PersistMap, EraseMap, EraseLog, Quiet
<1>5. CASE SummaryPage
  BY <1>5 DEF SummaryPage, NextProgram, Closing
<1>6. CASE PoolStep
  BY <1>0, <1>6 DEF PoolStep, PoolWriteBuf, Buffering, Plain
<1>7. CASE \/ HostFlush \/ IdlePool \/ Timer
           \/ \E c \in WriteCmds : HostWrite(c[1], c[2])
  BY <1>7 DEF HostFlush, IdlePool, Timer, HostWrite, Quiet
<1>8. CASE UNCHANGED vars
  BY <1>8 DEF vars, Quiet
<1> QED
  BY <1>1, <1>2, <1>3, <1>4, <1>5, <1>6, <1>7, <1>8 DEF Next, FtlStep

\* The pages in the buffer of a bank are pages of the bank.
LEMMA NextHome ==
  ASSUME TypeOK, CacheHome, [Next]_vars
  PROVE  CacheHome'
<1> USE DEF nand, wbuf, tables, chkpt, loops, gcvars, ghosts
<1>1. ASSUME SameEnts
      PROVE  CacheHome'
  BY <1>1 DEF SameEnts, CacheHome
<1>2. ASSUME UNCHANGED cache
      PROVE  CacheHome'
  BY <1>2 DEF CacheHome
<1>3. ASSUME Writing, NEW i \in Bufs, Enqueue(i)
      PROVE  CacheHome'
  <2>1. Bank(w.lpn) \in Banks
    BY <1>3, WritingBank
  <2>2. PICK c, e : /\ c = Bank(w.lpn) /\ e.lpn = w.lpn
                    /\ cache' = [cache EXCEPT ![c][i] = e]
    BY <1>3 DEF Enqueue
  <2> QED
    BY <2>1, <2>2 DEF CacheHome, TypeOK
<1>4. CASE WriteStep
  <2>1. CASE WritePool \/ CleanPool
    BY <1>1, <2>1, PoolWriteBufSame DEF WritePool, CleanPool
  <2>2. CASE LookupMiss \/ Written
    BY <1>2, <2>2 DEF LookupMiss, Written
  <2>3. CASE LookupHit
    BY <1>2, <1>3, <2>3 DEF LookupHit, Writing
  <2>4. CASE CleanFound \/ DepFull
    BY <1>3, <2>4 DEF CleanFound, DepFull, Writing
  <2> QED
    BY <1>4, <2>1, <2>2, <2>3, <2>4 DEF WriteStep
<1>5. CASE FlushStep
  <2>1. CASE FlushBank
    <3>1. bank \in Banks
      BY <2>1, RecoveryAssumption DEF FlushBank, TypeOK, Banks
    <3> QED
      BY <1>1, <1>2, <2>1, <3>1, DequeueSame DEF FlushBank
  <2> QED
    BY <1>2, <1>5, <2>1 DEF FlushStep, FlushDeps, FlushAgain, FlushDone
<1>6. CASE GcStep
  BY <1>2, <1>6 DEF GcStep, GcSkip, GcBegin, GcCopy, GcEnd, GcRound
<1>7. CASE ChkptStep
  BY <1>2, <1>7 DEF ChkptStep, RecordMapent, RecordTag, PersistMap, EraseMap,
     EraseLog
<1>8. CASE PoolStep
  BY <1>1, <1>8, PoolWriteBufSame DEF PoolStep
<1>9. CASE \/ SummaryPage \/ HostFlush \/ IdlePool \/ Timer
           \/ \E c \in WriteCmds : HostWrite(c[1], c[2])
  BY <1>2, <1>9 DEF SummaryPage, HostFlush, IdlePool, Timer, HostWrite
<1>10. CASE CrashAndRecover
  BY <1>10 DEF CrashAndRecover, CacheHome, NoEnt
<1>11. CASE UNCHANGED vars
  BY <1>2, <1>11 DEF vars
<1> QED
  BY <1>4, <1>5, <1>6, <1>7, <1>8, <1>9, <1>10, <1>11 DEF Next, FtlStep

-----------------------------------------------------------------------------
(* Each step keeps the invariant.                                          *)

\* What SpaceInv says of one bank.
BankInv(b) == /\ BankOk(flash[b], ring[b], active[b])
              /\ MapOk(b, flash[b], ring[b].vt, pgmap)
              /\ HomeOk(b, flash[b])

\* A page is programmed.
LEMMA ProgramSpace ==
  ASSUME TypeOK, pc # "recovered", \A x \in Banks : BankInv(x),
         NEW b \in Banks, NEW pg \in DataPage, Bank(pg.lpn) = b,
         NEW released, Program(b, pg, released)
  PROVE  /\ \A x \in Banks : BankInv(x)'
         /\ \A x \in Banks, k \in Blks :
              Cardinality(Mapped(x, k, pgmap'))
                = Cardinality(Mapped(x, k, pgmap))
                    + (IF x = b /\ k = active[b].blk THEN 1 ELSE 0)
                    - (IF x = b /\ k = pgmap[pg.lpn].blk THEN 1 ELSE 0)
         /\ \A x \in Banks, k \in Blks :
              vcount'[x][k]
                = vcount[x][k]
                    + (IF x = b /\ k = active[b].blk THEN 1 ELSE 0)
                    - (IF x = b /\ k = released THEN 1 ELSE 0)
<1>0. PICK fl, r, ac : fl = flash[b] /\ r = ring[b] /\ ac = active[b]
  OBVIOUS
<1>1. PICK m, l : m = pgmap /\ l = pg.lpn
  OBVIOUS
<1>2. /\ fl \in [Blks -> Block] /\ r \in RingType /\ ac \in Ppn
      /\ m \in [Lpns -> PpnOpt] /\ l \in Lpns /\ ac.blk \in Blks
      /\ Bank(l) = b
  BY <1>0, <1>1 DEF TypeOK, DataPage, Ppn
<1>3. PICK fm : fm = [fl EXCEPT ![ac.blk].pages = Append(@, pg)]
  OBVIOUS
<1>4. PICK mm : mm = pgmap' /\ mm[l] = ac /\ \A x \in Lpns \ {l} : mm[x] = m[x]
  BY <1>0, <1>1, <1>2 DEF Program
<1>5. PICK ad : ad = [ac EXCEPT !.page = @ + 1]
  OBVIOUS
<1>6. /\ flash'[b] = fm /\ pgmap' = mm /\ active'[b] = ad /\ ring' = ring
      /\ \A x \in Banks \ {b} : flash'[x] = flash[x] /\ active'[x] = active[x]
  BY <1>0, <1>1, <1>3, <1>4, <1>5 DEF Program, TypeOK
<1>7. \A x \in Banks \ {b} : \A y \in Lpns : Bank(y) = x => mm[y] = m[y]
  BY <1>2, <1>4
<1>8. BankOk(fl, r, ac) /\ MapOk(b, fl, r.vt, m) /\ HomeOk(b, fl)
  BY <1>0, <1>1 DEF BankInv
<1>9. Len(fl[ac.blk].pages) = ac.page /\ ac.blk # r.vt
  BY <1>2, <1>8, BankFacts DEF BankOk
<1>10. BankOk(fm, r, ad)
  BY <1>2, <1>3, <1>5, <1>8, BankProgram
<1>11. MapOk(b, fm, r.vt, mm) /\ HomeOk(b, fm)
  <2>1. mm[pg.lpn] = ac /\ (\A x \in Lpns \ {pg.lpn} : mm[x] = m[x]) /\ Bank(pg.lpn) = b
    BY <1>1, <1>4
  <2>2. PICK vt : vt = r.vt
    OBVIOUS
  <2>3. /\ MapOk(b, fl, vt, m) /\ HomeOk(b, fl) /\ ac.blk # vt
        /\ Len(fl[ac.blk].pages) = ac.page
    BY <1>8, <1>9, <2>2
  <2>4. /\ fm[ac.blk].pages = Append(fl[ac.blk].pages, pg)
        /\ \A k \in Blks \ {ac.blk} : fm[k] = fl[k]
    <3>1. fl[ac.blk] \in Block
      BY <1>2
    <3> QED
      BY <1>2, <1>3, <3>1 DEF Block
  <2>5. MapOk(b, fm, vt, mm) /\ HomeOk(b, fm)
    BY <1>2, <2>1, <2>3, <2>4, MapProgram
  <2> QED
    BY <2>2, <2>5
<1>12. ASSUME NEW x \in Banks
       PROVE  BankInv(x)'
  <2>1. CASE x = b
    BY <1>0, <1>6, <1>10, <1>11, <2>1 DEF BankInv
  <2>2. CASE x # b
    <3>1. PICK fx, vx : fx = flash[x] /\ vx = ring[x].vt
      OBVIOUS
    <3>2. MapOk(x, fx, vx, m)
      BY <1>1, <3>1 DEF BankInv
    <3>3. MapOk(x, fx, vx, mm)
      BY <1>7, <2>2, <3>2, MapOther
    <3> QED
      BY <1>6, <2>2, <3>1, <3>3 DEF BankInv
  <2> QED
    BY <2>1, <2>2
<1>13. ASSUME NEW x \in Banks, NEW k \in Blks
       PROVE  Cardinality(Mapped(x, k, pgmap'))
                = Cardinality(Mapped(x, k, pgmap))
                    + (IF x = b /\ k = active[b].blk THEN 1 ELSE 0)
                    - (IF x = b /\ k = pgmap[pg.lpn].blk THEN 1 ELSE 0)
  <2>1. CASE x = b
    <3>1. Cardinality(Mapped(b, k, mm))
            = Cardinality(Mapped(b, k, m))
                + (IF k = ac.blk THEN 1 ELSE 0)
                - (IF k = m[l].blk THEN 1 ELSE 0)
      BY <1>2, <1>4, MappedMoves
    <3> QED
      BY <1>0, <1>1, <1>6, <2>1, <3>1
  <2>2. CASE x # b
    <3>1. Mapped(x, k, mm) = Mapped(x, k, m)
      BY <1>7, <2>2, MapOther
    <3>2. Cardinality(Mapped(x, k, m)) \in Nat
      BY MappedFinite
    <3> QED
      BY <1>1, <1>6, <2>2, <3>1, <3>2
  <2> QED
    BY <2>1, <2>2
<1>14. ASSUME NEW x \in Banks, NEW k \in Blks
       PROVE  vcount'[x][k]
                = vcount[x][k]
                    + (IF x = b /\ k = active[b].blk THEN 1 ELSE 0)
                    - (IF x = b /\ k = released THEN 1 ELSE 0)
  <2>1. vcount'[b] = Counted(b, released) /\ (x # b => vcount'[x] = vcount[x])
    BY DEF Program, TypeOK
  <2>2. vcount[x][k] \in Int
    BY DEF TypeOK
  <2> QED
    BY <2>1, <2>2 DEF Counted
<1> QED
  BY <1>12, <1>13, <1>14

\* A buffered page is programmed, or a pending erase done.
LEMMA BufferingSpace ==
  ASSUME TypeOK, SInv, Buffering
  PROVE  SpaceInv' /\ VictimInv' /\ CountInv'
<1>1. PICK b \in Banks : Dequeue(b) \/ EraseVt(b)
  BY DEF Buffering
<1>2. pc # "recovered" /\ pc # "gccopy" /\ pc' # "recovered" /\ pc' # "gccopy"
  BY DEF Buffering, Plain
<1>3. /\ \A x \in Banks : BankInv(x)
      /\ \A x \in Banks, k \in Blks :
           vcount[x][k] = Cardinality(Mapped(x, k, pgmap))
  BY <1>2 DEF SInv, SpaceInv, BankInv, CountInv
<1>4. CASE Dequeue(b)
  <2>1. PICK i \in Bufs :
          /\ i \in DirtyBufs(b)
          /\ Program(b, [lpn |-> cache[b][i].lpn, span |-> cache[b][i].span,
                         epoch |-> cache[b][i].epoch,
                         ver |-> cache[b][i].epoch + 1],
                     pgmap[cache[b][i].lpn].blk)
    BY <1>4 DEF Dequeue, LruLast
  <2>2. PICK e : e = cache[b][i]
    OBVIOUS
  <2>3. /\ e.lpn \in Lpns /\ e.span \in Nat /\ e.epoch \in Epochs
        /\ e.epoch + 1 \in Nat /\ e.lpn # NoLpn
    <3>1. e \in CacheEnt /\ e.dirty
      BY <2>1, <2>2 DEF TypeOK, DirtyBufs
    <3> QED
      BY <3>1, RecoveryAssumption DEF CacheEnt, NoEnt, Epochs, NoLpn
  <2>4. PICK pg : pg = [lpn |-> e.lpn, span |-> e.span, epoch |-> e.epoch,
                        ver |-> e.epoch + 1]
    OBVIOUS
  <2>5. /\ pg \in DataPage /\ pg.lpn = e.lpn
        /\ Program(b, pg, pgmap[pg.lpn].blk)
    BY <2>1, <2>2, <2>3, <2>4 DEF DataPage
  <2>6. Bank(pg.lpn) = b
    BY <2>2, <2>3, <2>5 DEF SInv, CacheHome
  <2>7. /\ \A x \in Banks : BankInv(x)'
        /\ \A x \in Banks, k \in Blks :
             vcount'[x][k] = Cardinality(Mapped(x, k, pgmap'))
    BY <1>2, <1>3, <2>5, <2>6, ProgramSpace
  <2> QED
    BY <1>2, <2>7 DEF SpaceInv, BankInv, VictimInv, CountInv
<1>5. CASE EraseVt(b)
  <2>1. PICK fl, r, ac : fl = flash[b] /\ r = ring[b] /\ ac = active[b]
    OBVIOUS
  <2>2. /\ fl \in [Blks -> Block] /\ r \in RingType /\ ac \in Ppn
        /\ pgmap \in [Lpns -> PpnOpt]
    BY <1>2, <2>1 DEF TypeOK
  <2>3. PICK fm : fm = IF r.vt = NoBlk THEN fl ELSE [fl EXCEPT ![r.vt] = Erased]
    OBVIOUS
  <2>4. BankOk(fl, r, ac) /\ MapOk(b, fl, r.vt, pgmap) /\ HomeOk(b, fl)
    BY <1>3, <2>1 DEF BankInv
  <2>5. BankOk(fm, VtErased(r), ac) /\ MapOk(b, fm, NoBlk, pgmap) /\ HomeOk(b, fm)
    BY <2>2, <2>3, <2>4, BankErase, MapErase
  <2>6. VtErased(r).vt = NoBlk
    BY <2>2 DEF VtErased, RingType
  <2>7. /\ UNCHANGED <<active, pgmap, vcount>>
        /\ flash'[b] = fm
        /\ ring'[b] = VtErased(r)
        /\ \A x \in Banks \ {b} : flash'[x] = flash[x] /\ ring'[x] = ring[x]
    <3>1. CASE r.vt = NoBlk
      <4>1. VtErased(r) = r
        BY <2>2, <3>1 DEF VtErased, RingType
      <4> QED
        BY <1>5, <2>1, <2>3, <3>1, <4>1 DEF EraseVt
    <3>2. CASE r.vt # NoBlk
      BY <1>5, <2>1, <2>3, <3>2 DEF EraseVt, TypeOK
    <3> QED
      BY <3>1, <3>2
  <2>8. \A x \in Banks : BankInv(x)'
    BY <1>3, <2>1, <2>5, <2>6, <2>7 DEF BankInv
  <2> QED
    BY <1>2, <1>3, <2>7, <2>8 DEF SpaceInv, BankInv, VictimInv, CountInv
<1> QED
  BY <1>1, <1>4, <1>5

\* The link to the next block is programmed, and the block taken.
LEMMA ClosingSpace ==
  ASSUME TypeOK, SInv, Closing, RoomLeft'
  PROVE  SpaceInv' /\ VictimInv' /\ CountInv'
<1>1. PICK b \in Banks : CloseBlock(b)
  BY DEF Closing
<1>2. PICK fl, r, ac : fl = flash[b] /\ r = ring[b] /\ ac = active[b]
  OBVIOUS
<1>3. PICK fm : fm = [fl EXCEPT ![ac.blk].next = HeadBlk(r)]
  OBVIOUS
<1>4. /\ fl \in [Blks -> Block] /\ r \in RingType /\ ac \in Ppn
      /\ pgmap \in [Lpns -> PpnOpt] /\ ac.blk \in Blks
      /\ pc # "recovered" /\ pc' = pc
  BY <1>2 DEF Closing, TypeOK, Ppn
<1>5. /\ flash'[b] = fm /\ ring'[b] = TakeBlk(r)
      /\ active'[b] = [blk |-> HeadBlk(r), page |-> 0]
      /\ UNCHANGED <<pgmap, vcount, bank, victim, gcPage, nvalid>>
      /\ \A x \in Banks \ {b} : /\ flash'[x] = flash[x] /\ ring'[x] = ring[x]
                               /\ active'[x] = active[x]
  BY <1>1, <1>2, <1>3 DEF CloseBlock, Closing, TypeOK
<1>6. \A x \in Banks : BankInv(x)
  BY <1>4 DEF SInv, SpaceInv, BankInv
<1>7. BankOk(fl, r, ac) /\ MapOk(b, fl, r.vt, pgmap) /\ HomeOk(b, fl)
  BY <1>2, <1>6 DEF BankInv
<1>8. r.free \in Nat /\ r.free > 0 /\ (r.vt # NoBlk => r.free > 1)
  <2>1. ring'[b].free = r.free - 1 /\ ring'[b].vt = r.vt
    BY <1>4, <1>5 DEF TakeBlk, RingType
  <2>2. ring'[b].free >= IF ring'[b].vt = NoBlk THEN 0 ELSE 1
    BY <1>4 DEF RoomLeft
  <2>3. r.free \in Nat
    BY <1>7, NumBlksAssumption DEF BankOk, RingOk
  <2> QED
    BY <2>1, <2>2, <2>3
<1>9. /\ BankOk(fm, TakeBlk(r), [blk |-> HeadBlk(r), page |-> 0])
      /\ TakeBlk(r).vt = r.vt /\ Used(TakeBlk(r)) = Used(r) + 1
      /\ \A k : Nth(TakeBlk(r), k) = Nth(r, k)
  <2>1. BankOk(fm, TakeBlk(r), [blk |-> HeadBlk(r), page |-> 0])
    BY <1>3, <1>4, <1>7, <1>8, BankClose
  <2> QED
    BY <1>4, <1>7, <1>8, <2>1, TakeOk DEF BankOk
<1>10. MapOk(b, fm, r.vt, pgmap) /\ HomeOk(b, fm)
  <2>1. fl[ac.blk] \in Block
    BY <1>4
  <2>2. \A k \in Blks : fm[k].pages = fl[k].pages
    BY <1>3, <1>4, <2>1 DEF Block
  <2>3. PICK m, vt : m = pgmap /\ vt = r.vt
    OBVIOUS
  <2>4. MapOk(b, fm, vt, m) /\ HomeOk(b, fm)
    BY <1>4, <1>7, <2>2, <2>3, MapSamePages
  <2> QED
    BY <2>3, <2>4
<1>11. \A x \in Banks : BankInv(x)'
  BY <1>5, <1>6, <1>9, <1>10 DEF BankInv
<1>12. VictimInv'
  <2> SUFFICES ASSUME pc = "gccopy"
               PROVE  VictimInv'
    BY <1>4 DEF VictimInv
  <2>1. /\ bank \in Banks /\ ring[bank].vt = NoBlk /\ Used(ring[bank]) > 1
        /\ victim = Nth(ring[bank], 0)
        /\ \A l \in Mapped(bank, victim, pgmap) : pgmap[l].page >= gcPage
    BY DEF SInv, VictimInv, TypeOK
  <2>2. Used(r) \in Nat
    <3>1. Used(r) \in 1..NumBlks
      BY <1>4, <1>7, BankFacts
    <3> QED
      BY <3>1, NumBlksAssumption
  <2>3. /\ ring'[bank].vt = NoBlk /\ Used(ring'[bank]) > 1
        /\ victim = Nth(ring'[bank], 0)
    BY <1>2, <1>5, <1>9, <2>1, <2>2
  <2> QED
    BY <1>5, <2>1, <2>3 DEF VictimInv
<1>13. CountInv'
  BY <1>4, <1>5 DEF SInv, CountInv
<1> QED
  BY <1>11, <1>12, <1>13 DEF SpaceInv, BankInv

\* The victim of the scan, closed, goes to the tail.
LEMMA GcBeginSpace ==
  ASSUME TypeOK, SInv, GcBegin, RoomLeft'
  PROVE  SpaceInv' /\ VictimInv' /\ CountInv'
<1>1. PICK b : b = bank
  OBVIOUS
<1>2. PICK fl, r, ac : fl = flash[b] /\ r = ring[b] /\ ac = active[b]
  OBVIOUS
<1>3. PICK fm : fm = IF r.vt = NoBlk THEN fl ELSE [fl EXCEPT ![r.vt] = Erased]
  OBVIOUS
<1>4. PICK t : t = VtErased(r)
  OBVIOUS
<1>5. /\ b \in Banks /\ fl \in [Blks -> Block] /\ r \in RingType /\ ac \in Ppn
      /\ pgmap \in [Lpns -> PpnOpt]
      /\ pc = "gc" /\ pc' = "gccopy" /\ gcPage' = 0 /\ nvalid' = 0
      /\ bank' = b /\ UNCHANGED <<pgmap, vcount, active>>
  <2>1. b \in Banks
    BY <1>1, RecoveryAssumption DEF GcBegin, TypeOK, Banks
  <2> QED
    BY <1>1, <1>2, <2>1 DEF GcBegin, TypeOK, loops
<1>6. t \in RingType /\ t.vt = NoBlk
  BY <1>4, <1>5, VtErasedType DEF VtErased, RingType
<1>7. PICK i \in Idx : /\ IsVictim(t, vcount[b], i) /\ victim' = t.list[i]
                       /\ ring' = [ring EXCEPT ![b] = SwapVictim(t, i)]
  BY <1>1, <1>2, <1>4 DEF GcBegin
<1>8. PICK k \in Idx : i = At(t, k)
  <2>1. PICK k \in 0..ScanLast(t) : i = At(t, k)
    BY <1>7 DEF IsVictim
  <2>2. ScanLast(t) \in Idx
    <3>1. PICK y : y = t.rsv - t.tail + NumBlks - 1
      OBVIOUS
    <3>2. y \in Int
      BY <1>6, <3>1, NumBlksAssumption DEF RingType, Idx
    <3>3. y % NumBlks \in 0..(NumBlks - 1)
      BY <3>2, NumBlksAssumption
    <3> QED
      BY <3>1, <3>3 DEF ScanLast, Idx
  <2>3. k \in Idx
    BY <2>2, NumBlksAssumption DEF Idx
  <2> QED
    BY <2>1, <2>3
<1>9. PICK s : s = SwapVictim(t, At(t, k))
  OBVIOUS
<1>10. /\ flash'[b] = fm /\ ring'[b] = s /\ victim' = Nth(t, k)
       /\ \A x \in Banks \ {b} : flash'[x] = flash[x] /\ ring'[x] = ring[x]
  <2>1. flash' = IF r.vt = NoBlk THEN flash ELSE [flash EXCEPT ![b][r.vt] = Erased]
    BY <1>1, <1>2 DEF GcBegin
  <2>2. flash'[b] = fm /\ \A x \in Banks \ {b} : flash'[x] = flash[x]
    BY <1>2, <1>3, <1>5, <2>1 DEF TypeOK
  <2>3. ring'[b] = s /\ \A x \in Banks \ {b} : ring'[x] = ring[x]
    BY <1>5, <1>7, <1>8, <1>9 DEF TypeOK
  <2> QED
    BY <1>7, <1>8, <2>2, <2>3 DEF Nth
<1>11. \A x \in Banks : BankInv(x)
  BY <1>5 DEF SInv, SpaceInv, BankInv
<1>12. BankOk(fl, r, ac) /\ MapOk(b, fl, r.vt, pgmap) /\ HomeOk(b, fl)
  BY <1>2, <1>5, <1>11 DEF BankInv
<1>13. BankOk(fm, t, ac) /\ MapOk(b, fm, NoBlk, pgmap) /\ HomeOk(b, fm)
  BY <1>3, <1>4, <1>5, <1>12, BankErase, MapErase
<1>14. fm[Nth(t, k)].next # NoBlk
  BY <1>5, <1>10 DEF RoomLeft
<1>15. BankOk(fm, s, ac) /\ s.vt = NoBlk /\ Used(s) > 1 /\ Nth(t, k) = Nth(s, 0)
  BY <1>5, <1>6, <1>8, <1>9, <1>13, <1>14, BankSwap
<1>16. \A x \in Banks : BankInv(x)'
  BY <1>2, <1>5, <1>10, <1>11, <1>13, <1>15 DEF BankInv
<1>17. VictimInv'
  <2>1. \A l \in Lpns : pgmap[l].page >= 0
    BY <1>5, RecoveryAssumption DEF PpnOpt, Ppn, Pages, NoPpn
  <2> QED
    BY <1>5, <1>10, <1>15, <2>1 DEF VictimInv, Mapped
<1>18. CountInv'
  <2>1. \A x \in Banks, j \in Blks : vcount[x][j] = Cardinality(Mapped(x, j, pgmap))
    BY <1>5 DEF SInv, CountInv
  <2>2. victim' \in Blks
    BY <1>6, <1>7 DEF RingType
  <2>3. Cardinality(Mapped(b, victim', pgmap)) \in Nat
    BY MappedFinite
  <2> QED
    BY <1>5, <2>1, <2>2, <2>3 DEF CountInv
<1> QED
  BY <1>16, <1>17, <1>18 DEF SpaceInv, BankInv

\* What the map has in the closed victim is still to be copied.
LEMMA LeftToCopy ==
  ASSUME TypeOK, SInv, pc = "gccopy", flash[bank][victim].next # NoBlk,
         NEW l \in Mapped(bank, victim, pgmap)
  PROVE  /\ pgmap[l].page \in ValidLeft
         /\ flash[bank][victim].pages[pgmap[l].page + 1].lpn = l
<1>1. /\ l \in Lpns /\ Bank(l) = bank /\ pgmap[l].blk = victim
      /\ bank \in Banks /\ victim \in Blks
  BY DEF Mapped, TypeOK
<1>2. pgmap[l] # NoPpn
  BY <1>1 DEF NoPpn, Blks, NoBlk
<1>3. pgmap[l] \in Ppn
  BY <1>1, <1>2 DEF TypeOK, PpnOpt
<1>4. /\ pgmap[l].page < Len(flash[bank][victim].pages)
      /\ flash[bank][victim].pages[pgmap[l].page + 1].lpn = l
  BY <1>1, <1>2 DEF SInv, SpaceInv, MapOk
<1>5. pgmap[l].page >= gcPage /\ pgmap[l].page \in Pages
  BY <1>3 DEF SInv, VictimInv, Ppn
<1>6. pgmap[l] = [blk |-> victim, page |-> pgmap[l].page]
  BY <1>1, <1>3 DEF Ppn
<1> QED
  BY <1>4, <1>5, <1>6 DEF ValidLeft

\* The next valid page of the victim is copied.
LEMMA GcCopySpace ==
  ASSUME TypeOK, SInv, GcCopy, RoomLeft
  PROVE  SpaceInv' /\ VictimInv' /\ CountInv'
<1>1. PICK b, v, fl, r, ac : /\ b = bank /\ v = victim /\ fl = flash[b]
                             /\ r = ring[b] /\ ac = active[b]
  OBVIOUS
<1>2. /\ pc = "gccopy" /\ pc' = "gccopy"
      /\ UNCHANGED <<bank, victim>> /\ nvalid' = nvalid + 1
  BY DEF GcCopy, loops
<1>3. /\ b \in Banks /\ v \in Blks /\ r \in RingType /\ ac \in Ppn
      /\ fl \in [Blks -> Block] /\ pgmap \in [Lpns -> PpnOpt] /\ nvalid \in Nat
  BY <1>1, <1>2 DEF TypeOK
<1>4. PICK p \in ValidLeft :
        /\ \A q \in ValidLeft : p <= q
        /\ Program(b, [flash[b][v].pages[p + 1] EXCEPT !.span = 0, !.epoch = GcTag], NoBlk)
        /\ gcPage' = p + 1
  BY <1>1 DEF GcCopy
<1>5. /\ p \in Pages /\ p < Len(fl[v].pages)
      /\ pgmap[fl[v].pages[p + 1].lpn] = [blk |-> v, page |-> p]
  BY <1>1, <1>4 DEF ValidLeft
<1>6. PICK x : x = fl[v].pages[p + 1]
  OBVIOUS
<1>7. x \in DataPage /\ p \in Nat /\ p + 1 \in DOMAIN fl[v].pages
  <2>1. fl[v].pages \in Seq(DataPage) /\ p \in Nat
    BY <1>3, <1>5 DEF Block, Pages
  <2>2. p + 1 \in 1..Len(fl[v].pages)
    BY <1>5, <2>1
  <2> QED
    BY <1>6, <2>1, <2>2, ElementOfSeq
<1>8. PICK pg : pg = [x EXCEPT !.span = 0, !.epoch = GcTag]
  OBVIOUS
<1>9. pg \in DataPage /\ pg.lpn = x.lpn /\ pg.lpn \in Lpns
  <2>1. GcTag \in Epochs /\ 0 \in Nat
    BY RecoveryAssumption DEF GcTag, Epochs
  <2> QED
    BY <1>7, <1>8, <2>1 DEF DataPage
<1>10. Program(b, pg, NoBlk)
  BY <1>1, <1>4, <1>6, <1>8
<1>11. /\ \A y \in Banks : BankInv(y)
       /\ MapOk(b, fl, r.vt, pgmap) /\ HomeOk(b, fl) /\ BankOk(fl, r, ac)
  BY <1>1, <1>2, <1>3 DEF SInv, SpaceInv, BankInv
<1>12. Bank(pg.lpn) = b /\ pgmap[pg.lpn] = [blk |-> v, page |-> p]
  BY <1>3, <1>5, <1>6, <1>7, <1>9, <1>11 DEF HomeOk
<1>13. /\ r.vt = NoBlk /\ Used(r) > 1 /\ v = Nth(r, 0)
       /\ \A l \in Mapped(b, v, pgmap) : pgmap[l].page >= gcPage
  BY <1>1, <1>2 DEF SInv, VictimInv
<1>14. v # ac.blk
  <2>1. 0 \in Idx /\ Used(r) - 1 # 0
    BY <1>3, <1>11, <1>13, BankFacts, NumBlksAssumption DEF Idx
  <2> QED
    BY <1>3, <1>11, <1>13, <2>1, BankFacts
<1>15. /\ \A y \in Banks : BankInv(y)'
       /\ \A y \in Banks, k \in Blks :
            Cardinality(Mapped(y, k, pgmap'))
              = Cardinality(Mapped(y, k, pgmap))
                  + (IF y = b /\ k = ac.blk THEN 1 ELSE 0)
                  - (IF y = b /\ k = v THEN 1 ELSE 0)
       /\ \A y \in Banks, k \in Blks :
            vcount'[y][k] = vcount[y][k] + (IF y = b /\ k = ac.blk THEN 1 ELSE 0)
                                         - (IF y = b /\ k = NoBlk THEN 1 ELSE 0)
  <2>1. pgmap[pg.lpn].blk = v
    BY <1>12
  <2> QED
    BY <1>1, <1>2, <1>3, <1>9, <1>10, <1>11, <1>12, <2>1, ProgramSpace
<1>16. pgmap' = [pgmap EXCEPT ![pg.lpn] = ac] /\ ring' = ring
  BY <1>1, <1>10 DEF Program
<1>17. VictimInv'
  <2>1. ASSUME NEW l \in Mapped(b, v, pgmap')
        PROVE  pgmap'[l].page >= p + 1
    <3>1. l # pg.lpn /\ pgmap'[l] = pgmap[l] /\ l \in Mapped(b, v, pgmap)
      <4>1. l # pg.lpn
        BY <1>3, <1>9, <1>14, <1>16 DEF Mapped
      <4> QED
        BY <1>3, <1>16, <4>1 DEF Mapped
    <3>2. pgmap[l].page \in ValidLeft /\ fl[v].pages[pgmap[l].page + 1].lpn = l
      BY <1>1, <1>2, <3>1, LeftToCopy DEF RoomLeft
    <3>3. pgmap[l].page # p /\ p <= pgmap[l].page /\ pgmap[l].page \in Nat
      <4>1. pgmap[l].page # p
        BY <1>6, <1>9, <3>1, <3>2
      <4>2. pgmap[l].page \in Nat
        BY <3>2 DEF ValidLeft, Pages
      <4> QED
        BY <1>4, <3>2, <4>1, <4>2
    <3> QED
      BY <1>7, <3>1, <3>3
  <2> QED
    BY <1>1, <1>2, <1>4, <1>13, <1>16, <2>1 DEF VictimInv
<1>18. CountInv'
  <2>1. /\ \A y \in Banks, k \in Blks :
             ~(y = b /\ k = v) => vcount[y][k] = Cardinality(Mapped(y, k, pgmap))
        /\ vcount[b][v] = nvalid + Cardinality(Mapped(b, v, pgmap))
    BY <1>1, <1>2 DEF SInv, CountInv
  <2>2. \A k \in Blks : k # NoBlk
    BY DEF Blks, NoBlk
  <2>3. \A y \in Banks, k \in Blks : Cardinality(Mapped(y, k, pgmap)) \in Nat
    BY MappedFinite
  <2>4. ASSUME NEW y \in Banks, NEW k \in Blks, ~(y = b /\ k = v)
        PROVE  vcount'[y][k] = Cardinality(Mapped(y, k, pgmap'))
    BY <1>15, <2>1, <2>2, <2>3, <2>4
  <2>5. vcount'[b][v] = nvalid' + Cardinality(Mapped(b, v, pgmap'))
    <3>1. vcount'[b][v] = vcount[b][v] + 0 - 0
      BY <1>3, <1>14, <1>15, <2>2
    <3>2. Cardinality(Mapped(b, v, pgmap')) = Cardinality(Mapped(b, v, pgmap)) + 0 - 1
      BY <1>3, <1>14, <1>15
    <3>3. Cardinality(Mapped(b, v, pgmap)) \in Nat
      BY <1>3, <2>3
    <3> QED
      BY <1>2, <1>3, <2>1, <3>1, <3>2, <3>3
  <2> QED
    BY <1>1, <1>2, <2>4, <2>5 DEF CountInv
<1> QED
  BY <1>15, <1>17, <1>18 DEF SpaceInv, BankInv

\* Nothing is left to copy: the victim is counted as free.
LEMMA GcEndSpace ==
  ASSUME TypeOK, SInv, GcEnd, RoomLeft
  PROVE  SpaceInv' /\ VictimInv' /\ CountInv'
<1>1. PICK b, v, fl, r, ac : /\ b = bank /\ v = victim /\ fl = flash[b]
                             /\ r = ring[b] /\ ac = active[b]
  OBVIOUS
<1>2. /\ pc = "gccopy" /\ pc' = "gc" /\ ValidLeft = {}
      /\ UNCHANGED <<flash, pgmap, active>>
      /\ vcount' = [vcount EXCEPT ![b][v] = 0]
      /\ ring' = [ring EXCEPT ![b] = FreeVictim(r, v)]
  BY <1>1 DEF GcEnd, nand
<1>3. /\ b \in Banks /\ v \in Blks /\ r \in RingType /\ ac \in Ppn
      /\ fl \in [Blks -> Block] /\ pgmap \in [Lpns -> PpnOpt]
  BY <1>1, <1>2 DEF TypeOK
<1>4. Mapped(b, v, pgmap) = {}
  BY <1>1, <1>2, LeftToCopy DEF RoomLeft
<1>5. /\ \A y \in Banks : BankInv(y)
      /\ MapOk(b, fl, r.vt, pgmap) /\ HomeOk(b, fl) /\ BankOk(fl, r, ac)
  BY <1>1, <1>2, <1>3 DEF SInv, SpaceInv, BankInv
<1>6. r.vt = NoBlk /\ Used(r) > 1 /\ v = Nth(r, 0)
  BY <1>1, <1>2 DEF SInv, VictimInv
<1>7. PICK s : s = FreeVictim(r, Nth(r, 0))
  OBVIOUS
<1>8. BankOk(fl, s, ac) /\ s.vt = v
  BY <1>3, <1>5, <1>6, <1>7, BankFree
<1>9. MapOk(b, fl, s.vt, pgmap)
  BY <1>4, <1>5, <1>6, <1>8, MapFree
<1>10. ring'[b] = s /\ \A y \in Banks \ {b} : ring'[y] = ring[y]
  BY <1>2, <1>3, <1>6, <1>7 DEF TypeOK
<1>11. \A y \in Banks : BankInv(y)'
  BY <1>1, <1>2, <1>5, <1>8, <1>9, <1>10 DEF BankInv
<1>12. CountInv'
  <2>1. \A y \in Banks, k \in Blks :
          ~(y = b /\ k = v) => vcount[y][k] = Cardinality(Mapped(y, k, pgmap))
    BY <1>1, <1>2 DEF SInv, CountInv
  <2>2. \A y \in Banks, k \in Blks :
          vcount'[y][k] = IF y = b /\ k = v THEN 0 ELSE vcount[y][k]
    BY <1>2, <1>3 DEF TypeOK
  <2>3. Cardinality(Mapped(b, v, pgmap)) = 0
    BY <1>4, FS_EmptySet
  <2> QED
    BY <1>2, <2>1, <2>2, <2>3 DEF CountInv
<1> QED
  BY <1>2, <1>11, <1>12 DEF SpaceInv, BankInv, VictimInv

\* A tag reserves every block but the active one.
LEMMA RecordTagSpace ==
  ASSUME TypeOK, SInv, RecordTag
  PROVE  SpaceInv' /\ VictimInv' /\ CountInv'
<1>1. /\ pc = "tag" /\ pc' # "gccopy" /\ pc' # "recovered"
      /\ UNCHANGED <<flash, pgmap, active, vcount>>
      /\ ring' = [b \in Banks |-> PushRsv(ring[b])]
  BY DEF RecordTag
<1>2. ASSUME NEW b \in Banks
      PROVE  BankInv(b)'
  <2>1. PICK fl, r, ac : fl = flash[b] /\ r = ring[b] /\ ac = active[b]
    OBVIOUS
  <2>2. r \in RingType /\ ac \in Ppn /\ BankOk(fl, r, ac)
    BY <1>1, <2>1 DEF SInv, SpaceInv, TypeOK
  <2>3. BankOk(fl, PushRsv(r), ac) /\ PushRsv(r).vt = r.vt
    BY <2>2, BankRsv
  <2> QED
    BY <1>1, <2>1, <2>3 DEF SInv, SpaceInv, BankInv
<1> QED
  BY <1>1, <1>2 DEF SInv, SpaceInv, BankInv, VictimInv, CountInv

LEMMA QuietSpace ==
  ASSUME SInv, Quiet
  PROVE  SpaceInv' /\ VictimInv' /\ CountInv'
<1>1. SpaceInv'
  BY DEF SInv, SpaceInv, Quiet
<1>2. VictimInv'
  BY DEF SInv, VictimInv, Quiet
<1>3. CountInv'
  BY DEF SInv, CountInv, Quiet
<1> QED
  BY <1>1, <1>2, <1>3

LEMMA NextSpace ==
  ASSUME TypeOK, SInv, [Next]_vars, RoomLeft, RoomLeft'
  PROVE  SInv'
<1>1. CacheHome'
  BY NextHome DEF SInv
<1>2. ASSUME CrashAndRecover
      PROVE  SpaceInv' /\ VictimInv' /\ CountInv'
  <2>1. pc' = "recovered"
    BY <1>2 DEF CrashAndRecover
  <2> QED
    BY <2>1 DEF SpaceInv, VictimInv, CountInv
<1>3. SpaceInv' /\ VictimInv' /\ CountInv'
  BY <1>2, SpaceSteps, BufferingSpace, ClosingSpace, GcBeginSpace, GcCopySpace,
     GcEndSpace, RecordTagSpace, QuietSpace
<1> QED
  BY <1>1, <1>3 DEF SInv

LEMMA InitSpace ==
  ASSUME Init
  PROVE  SInv
<1>1. InitRing \in RingType /\ RingOk(InitRing) /\ Used(InitRing) = 0
  BY InitRingType, InitRingOk
<1>2. PICK r0, t, r, hd : /\ r0 = InitRing /\ t = TakeBlk(r0) /\ r = PushRsv(t)
                          /\ hd = HeadBlk(r0)
  OBVIOUS
<1>3. r0 \in RingType /\ r0.free = NumBlks /\ r0.vt = NoBlk /\ RingOk(r0) /\ Used(r0) = 0
  BY <1>1, <1>2 DEF InitRing
<1>4. /\ RingOk(t) /\ Used(t) = 1 /\ t.vt = NoBlk /\ hd = Nth(t, 0)
      /\ t.free = NumBlks - 1 /\ t \in RingType
  <2>1. /\ RingOk(t) /\ hd = Nth(r0, 0) /\ Used(t) = 1 /\ t.vt = NoBlk
        /\ \A k : Nth(t, k) = Nth(r0, k)
    BY <1>2, <1>3, NumBlksAssumption, TakeOk
  <2>2. t \in RingType
    BY <1>2, <1>3, TakeBlkType
  <2>3. t.free = NumBlks - 1
    BY <1>2, <1>3 DEF TakeBlk, RingType
  <2> QED
    BY <2>1, <2>2, <2>3
<1>5. /\ RingOk(r) /\ Used(r) = 1 /\ r.vt = NoBlk /\ hd = Nth(r, 0)
      /\ r.free = NumBlks - 1 /\ r \in RingType
  <2>1. RingOk(r) /\ Used(r) = 1 /\ r.vt = NoBlk /\ hd = Nth(r, 0)
    BY <1>2, <1>4, SameRingOk
  <2>2. r.free = NumBlks - 1 /\ r \in RingType
    BY <1>2, <1>4, PushRsvType DEF PushRsv, RingType
  <2> QED
    BY <2>1, <2>2
<1>6. /\ \A b \in Banks : /\ ring[b] = r /\ active[b] = [blk |-> hd, page |-> 0]
                          /\ flash[b] = [k \in Blks |-> Erased]
      /\ pgmap = [l \in Lpns |-> NoPpn] /\ pc = "idle"
      /\ vcount = [b \in Banks |-> [k \in Blks |-> 0]]
      /\ cache = [b \in Banks |-> [i \in Bufs |-> NoEnt]]
  BY <1>2 DEF Init, FirstPpn
<1>7. \A k \in Idx : Nth(r, k) \in Blks
  <2>1. \A k \in Idx : At(r, k) \in Idx
    BY <1>5, AtSteps, NumBlksAssumption DEF Idx
  <2> QED
    BY <1>5, <2>1 DEF Nth, RingType
<1>8. ASSUME NEW b \in Banks
      PROVE  BankInv(b)
  <2>1. PICK fl, ac : fl = flash[b] /\ ac = active[b]
    OBVIOUS
  <2>2. /\ \A k \in Blks : fl[k] = Erased
        /\ ac.blk = hd /\ ac.page = 0
    BY <1>6, <2>1
  <2>3. Erased.next = NoBlk /\ Len(Erased.pages) = 0 /\ DOMAIN Erased.pages = {}
    BY DEF Erased
  <2>4. hd \in Blks
    BY <1>5, <1>7, NumBlksAssumption DEF Idx
  <2>5. BankOk(fl, r, ac)
    <3>1. Used(r) - 1 = 0 /\ 0..(Used(r) - 2) = {}
      BY <1>5
    <3>2. Used(r)..(NumBlks - 1) \subseteq Idx
      BY <1>5 DEF Idx
    <3>3. r.free < NumBlks /\ ac.blk = Nth(r, Used(r) - 1)
      BY <1>5, <2>2, <3>1, NumBlksAssumption
    <3> QED
      BY <1>5, <1>7, <2>2, <2>3, <2>4, <3>1, <3>2, <3>3 DEF BankOk
  <2>6. MapOk(b, fl, r.vt, pgmap)
    BY <1>6 DEF MapOk
  <2>7. HomeOk(b, fl)
    BY <2>2, <2>3 DEF HomeOk
  <2> QED
    BY <1>6, <2>1, <2>5, <2>6, <2>7 DEF BankInv
<1>9. ASSUME NEW b \in Banks, NEW k \in Blks
      PROVE  vcount[b][k] = Cardinality(Mapped(b, k, pgmap))
  <2>1. k # NoBlk
    BY DEF Blks, NoBlk
  <2>2. Mapped(b, k, pgmap) = {}
    BY <1>6, <2>1 DEF Mapped, NoPpn
  <2> QED
    BY <1>6, <2>2, FS_EmptySet
<1> QED
  BY <1>6, <1>8, <1>9 DEF SInv, SpaceInv, BankInv, CacheHome, VictimInv, CountInv, NoEnt

-----------------------------------------------------------------------------
(***************************************************************************)
(* The theorems                                                            *)
(***************************************************************************)

\* As long as nothing runs out, the invariant holds.
THEOREM SpaceInvariant == Spec /\ []RoomLeft => []SInv
<1>1. TypeOK /\ SInv /\ [Next]_vars /\ RoomLeft /\ RoomLeft' => SInv'
  BY NextSpace
<1>2. Init => SInv
  BY InitSpace
<1> QED
  BY <1>1, <1>2, TypeCorrect, PTL DEF Spec

\* As long as nothing runs out, a page that is handed out is erased, and so
\* is the rest of its block, although freed blocks are erased late.
THEOREM NeverOverwrites == Spec /\ []RoomLeft => []ProgramsErasedPages
<1>1. SInv => ProgramsErasedPages
  BY DEF SInv, SpaceInv, BankOk, ProgramsErasedPages
<1> QED
  BY SpaceInvariant, <1>1, PTL

\* As long as nothing runs out, the counts are those of the map, and garbage
\* collection copies as many pages as they promise.
THEOREM CountsAreExact == Spec /\ []RoomLeft => []CountsExact
<1>1. TypeOK /\ SInv /\ RoomLeft => CountsExact
  <2> SUFFICES ASSUME TypeOK, SInv, RoomLeft
               PROVE  CountsExact
    OBVIOUS
  <2>1. VcountExact
    BY DEF SInv, CountInv, VcountExact, Mapped
  <2>2. ASSUME pc = "gccopy", ValidLeft = {}
        PROVE  nvalid = vcount[bank][victim]
    <3>1. Mapped(bank, victim, pgmap) = {}
      BY <2>2, LeftToCopy DEF RoomLeft
    <3>2. Cardinality(Mapped(bank, victim, pgmap)) = 0
      BY <3>1, FS_EmptySet
    <3>3. vcount[bank][victim] = nvalid + 0 /\ nvalid \in Nat
      BY <2>2, <3>2 DEF SInv, CountInv, TypeOK
    <3> QED
      BY <3>3
  <2> QED
    BY <2>1, <2>2 DEF CountsExact, CopiesCounted
<1> QED
  BY SpaceInvariant, TypeCorrect, <1>1, PTL

-----------------------------------------------------------------------------
(***************************************************************************)
(* The drive is an ordered disk until power fails: whatever the write      *)
(* buffer, garbage collection and checkpoints move around, each step of    *)
(* the firmware is a step of OrderedDisk, or none, for every value of the  *)
(* constants (and as long as nothing runs out, RoomLeft).                  *)
(***************************************************************************)

-----------------------------------------------------------------------------
(* The invariant.                                                          *)

\* The write whose data the map leads to, as ReadView has it for a page that
\* is not in the buffer.
Stored(l) ==
  IF pgmap[l] = NoPpn THEN 0
  ELSE LET p == flash[Bank(l)][pgmap[l].blk].pages
       IN  IF pgmap[l].page < Len(p) THEN p[pgmap[l].page + 1].ver
                                     ELSE Garbage

\* A page is in one buffer of its bank at most.
OneBuf ==
  \A b \in Banks, i, j \in Bufs :
    cache[b][i].lpn # NoLpn /\ cache[b][i].lpn = cache[b][j].lpn => i = j

\* What a clean buffer holds is in flash, so that the buffer may be taken.
CleanStored ==
  pc # "recovered" =>
    \A b \in Banks, i \in Bufs :
      cache[b][i].lpn # NoLpn /\ ~cache[b][i].dirty =>
        Stored(cache[b][i].lpn) = cache[b][i].epoch + 1

\* A new buffer is looked for only when the page has none.
MissInv == pc = "clean" => Hits(w.lpn) = {}

BufInv == OneBuf /\ CleanStored /\ MissInv

\* A reclaim replaces what it takes away: the tag is in the log until the map
\* table with its epoch is committed, and then that is the only table.
TagInv ==
  /\ pc \in {"persist", "erasemap"} =>
       \E i \in TagsOf(log) : log[i].epoch = EpochPred(g_epoch)
  /\ pc \in {"erasemap", "eraselog"} => maps[1 - mapIdx].epoch = EpochPred(g_epoch)
  /\ pc = "eraselog" => maps[mapIdx].epoch = 0

FlushedInv == flushed <= Len(hist)

DInv == BufInv /\ TagInv /\ FlushedInv

-----------------------------------------------------------------------------
(* What is stored stays, but for the page that is programmed.              *)

LEMMA StoredKept ==
  ASSUME TypeOK, pc # "recovered", \A b \in Banks : BankInv(b), pgmap' = pgmap,
         \A b \in Banks, k \in Blks :
           k # ring[b].vt => flash'[b][k].pages = flash[b][k].pages
  PROVE  \A l \in Lpns : Stored(l)' = Stored(l)
<1> SUFFICES ASSUME NEW l \in Lpns
             PROVE  Stored(l)' = Stored(l)
  OBVIOUS
<1>1. PICK b : b = Bank(l) /\ b \in Banks
  BY BankType
<1>2. CASE pgmap[l] = NoPpn
  BY <1>2 DEF Stored
<1>3. CASE pgmap[l] # NoPpn
  <2>1. pgmap[l].blk \in Blks
    BY <1>3 DEF TypeOK, PpnOpt, Ppn
  <2>2. pgmap[l].blk # ring[b].vt
    BY <1>1, <1>3 DEF BankInv, MapOk
  <2>3. flash'[b][pgmap[l].blk].pages = flash[b][pgmap[l].blk].pages
    BY <1>1, <2>1, <2>2
  <2> QED
    BY <1>1, <2>3 DEF Stored
<1> QED
  BY <1>2, <1>3

LEMMA StoredProgram ==
  ASSUME TypeOK, pc # "recovered", \A x \in Banks : BankInv(x),
         NEW b \in Banks, NEW pg \in DataPage, Bank(pg.lpn) = b,
         NEW released, Program(b, pg, released)
  PROVE  /\ Stored(pg.lpn)' = pg.ver
         /\ \A l \in Lpns \ {pg.lpn} : Stored(l)' = Stored(l)
<1>1. PICK fl, ac, e : fl = flash[b] /\ ac = active[b] /\ e = fl[ac.blk].pages
  OBVIOUS
<1>2. /\ fl \in [Blks -> Block] /\ ac \in Ppn /\ ac.blk \in Blks /\ ac.page \in Nat
      /\ e \in Seq(DataPage) /\ pg.lpn \in Lpns /\ fl[ac.blk] \in Block
      /\ pgmap \in [Lpns -> PpnOpt]
  <2>1. /\ fl \in [Blks -> Block] /\ ac \in Ppn /\ pg.lpn \in Lpns
        /\ pgmap \in [Lpns -> PpnOpt]
    BY <1>1 DEF TypeOK, DataPage
  <2>2. ac.blk \in Blks /\ ac.page \in Nat
    BY <2>1 DEF Ppn, Pages
  <2>3. fl[ac.blk] \in Block
    BY <2>1, <2>2
  <2>4. e \in Seq(DataPage)
    BY <1>1, <2>3 DEF Block
  <2> QED
    BY <2>1, <2>2, <2>3, <2>4
<1>3. Len(e) = ac.page
  BY <1>1 DEF BankInv, BankOk
<1>4. PICK q : q = Append(e, pg)
  OBVIOUS
<1>5. /\ Len(q) = ac.page + 1 /\ q[ac.page + 1] = pg
      /\ \A n \in 1..ac.page : q[n] = e[n]
  BY <1>2, <1>3, <1>4, AppendProperties
<1>6. /\ pgmap'[pg.lpn] = ac
      /\ \A l \in Lpns \ {pg.lpn} : pgmap'[l] = pgmap[l]
  BY <1>1, <1>2 DEF Program
<1>7. /\ flash'[b][ac.blk].pages = q
      /\ \A k \in Blks \ {ac.blk} : flash'[b][k] = flash[b][k]
      /\ \A x \in Banks \ {b} : flash'[x] = flash[x]
  <2>1. flash' = [flash EXCEPT ![b][ac.blk].pages = Append(@, pg)]
    BY <1>1 DEF Program
  <2>2. flash'[b] = [fl EXCEPT ![ac.blk].pages = Append(@, pg)]
    BY <1>1, <2>1 DEF TypeOK
  <2>3. flash'[b][ac.blk] = [fl[ac.blk] EXCEPT !.pages = q]
    BY <1>1, <1>2, <1>4, <2>2
  <2>4. flash'[b][ac.blk].pages = q
    BY <1>2, <2>3 DEF Block
  <2> QED
    BY <1>1, <1>2, <2>1, <2>2, <2>4 DEF TypeOK
<1>8. Stored(pg.lpn)' = pg.ver
  <2>1. ac # NoPpn
    BY <1>2 DEF NoPpn, Blks, NoBlk
  <2>2. ac.page < Len(q)
    BY <1>2, <1>5
  <2> QED
    BY <1>5, <1>6, <1>7, <2>1, <2>2 DEF Stored
<1>9. ASSUME NEW l \in Lpns \ {pg.lpn}
      PROVE  Stored(l)' = Stored(l)
  <2>1. PICK c, m : c = Bank(l) /\ c \in Banks /\ m = pgmap[l] /\ m = pgmap'[l]
    BY <1>6, BankType
  <2>2. CASE m = NoPpn
    BY <2>1, <2>2 DEF Stored
  <2>3. CASE m # NoPpn
    <3>1. m.blk \in Blks /\ m.page \in Nat
      <4>1. m \in Ppn
        BY <1>2, <2>1, <2>3 DEF PpnOpt
      <4> QED
        BY <4>1 DEF Ppn, Pages
    <3>2. m.page < Len(flash[c][m.blk].pages)
      BY <2>1, <2>3 DEF BankInv, MapOk
    <3>3. CASE c = b /\ m.blk = ac.blk
      <4>1. m.page < ac.page /\ m.page + 1 \in 1..ac.page
        <5>1. flash[c][m.blk].pages = e
          BY <1>1, <3>3
        <5> QED
          BY <1>2, <1>3, <3>1, <3>2, <5>1
      <4>2. q[m.page + 1] = e[m.page + 1] /\ m.page < Len(q)
        BY <1>2, <1>5, <3>1, <4>1
      <4>3. flash[c][m.blk].pages = e /\ flash'[c][m.blk].pages = q
        BY <1>1, <1>7, <3>3
      <4> QED
        BY <2>1, <2>3, <3>2, <4>2, <4>3 DEF Stored
    <3>4. CASE ~(c = b /\ m.blk = ac.blk)
      <4>1. flash'[c][m.blk] = flash[c][m.blk]
        BY <1>7, <2>1, <3>1, <3>4
      <4> QED
        BY <2>1, <2>3, <4>1 DEF Stored
    <3> QED
      BY <3>3, <3>4
  <2> QED
    BY <2>2, <2>3
<1> QED
  BY <1>8, <1>9

-----------------------------------------------------------------------------
(* The steps, by what they do to the data.                                 *)

\* Buffers and stored pages stay.
Stays ==
  /\ UNCHANGED cache /\ (UNCHANGED w \/ pc = "idle")
  /\ \A l \in Lpns : Stored(l)' = Stored(l)

\* A dirty buffer becomes clean, its page is stored.
Stores ==
  /\ UNCHANGED w
  /\ \E b \in Banks, i \in Bufs :
       /\ cache[b][i].dirty
       /\ cache' = [cache EXCEPT ![b][i].dirty = FALSE]
       /\ \A l \in Lpns : Stored(l)' = IF l = cache[b][i].lpn
                                         THEN cache[b][i].epoch + 1
                                         ELSE Stored(l)

\* The page of the running write goes to the buffer that holds it, or to a
\* clean one when none does.
Buffers ==
  /\ Writing /\ UNCHANGED g_epoch
  /\ \A l \in Lpns : Stored(l)' = Stored(l)
  /\ \E i \in Bufs :
       /\ Enqueue(i)
       /\ \/ i \in Hits(w.lpn)
          \/ Hits(w.lpn) = {} /\ ~cache[Bank(w.lpn)][i].dirty

LEMMA DequeueStores ==
  ASSUME TypeOK, pc # "recovered", \A x \in Banks : BankInv(x), CacheHome,
         NEW b \in Banks, Dequeue(b), UNCHANGED w
  PROVE  Stores
<1>1. PICK i \in Bufs :
        /\ i \in DirtyBufs(b)
        /\ Program(b, [lpn |-> cache[b][i].lpn, span |-> cache[b][i].span,
                       epoch |-> cache[b][i].epoch,
                       ver |-> cache[b][i].epoch + 1],
                   pgmap[cache[b][i].lpn].blk)
        /\ cache' = [cache EXCEPT ![b][i].dirty = FALSE]
  BY DEF Dequeue, LruLast
<1>2. PICK e, f : e = cache[b][i] /\ f = pgmap[e.lpn].blk
  OBVIOUS
<1>3. /\ e.dirty
      /\ e.lpn \in Lpns /\ e.span \in Nat /\ e.epoch \in Epochs
      /\ e.epoch + 1 \in Nat /\ e.lpn # NoLpn
  <2>1. e \in CacheEnt /\ e.dirty
    BY <1>1, <1>2 DEF TypeOK, DirtyBufs
  <2> QED
    BY <2>1, RecoveryAssumption DEF CacheEnt, NoEnt, Epochs, NoLpn
<1>4. PICK pg : pg = [lpn |-> e.lpn, span |-> e.span, epoch |-> e.epoch,
                      ver |-> e.epoch + 1]
  OBVIOUS
<1>5. /\ pg \in DataPage /\ pg.lpn = e.lpn /\ pg.ver = e.epoch + 1
      /\ Program(b, pg, f)
  BY <1>1, <1>2, <1>3, <1>4 DEF DataPage
<1>6. Bank(pg.lpn) = b
  BY <1>2, <1>3, <1>5 DEF CacheHome
<1>7. Stored(pg.lpn)' = pg.ver /\ \A l \in Lpns \ {pg.lpn} : Stored(l)' = Stored(l)
  BY <1>5, <1>6, StoredProgram
<1>8. \A l \in Lpns : Stored(l)' = IF l = e.lpn THEN e.epoch + 1 ELSE Stored(l)
  BY <1>5, <1>7
<1> QED
  BY <1>1, <1>2, <1>3, <1>8 DEF Stores

LEMMA GcCopyStays ==
  ASSUME TypeOK, SInv, GcCopy
  PROVE  Stays
<1>1. PICK b, v : b = bank /\ v = victim
  OBVIOUS
<1>2. /\ pc = "gccopy" /\ UNCHANGED <<cache, w>>
      /\ b \in Banks /\ v \in Blks /\ flash[b] \in [Blks -> Block]
  BY <1>1 DEF GcCopy, TypeOK, wbuf
<1>3. PICK p \in ValidLeft :
        Program(b, [flash[b][v].pages[p + 1] EXCEPT !.span = 0, !.epoch = GcTag], NoBlk)
  BY <1>1 DEF GcCopy
<1>4. PICK x : x = flash[b][v].pages[p + 1]
  OBVIOUS
<1>5. /\ p \in Nat /\ p < Len(flash[b][v].pages)
      /\ pgmap[x.lpn] = [blk |-> v, page |-> p]
  BY <1>1, <1>3, <1>4 DEF ValidLeft, Pages
<1>6. x \in DataPage /\ p + 1 \in DOMAIN flash[b][v].pages
  <2>1. flash[b][v].pages \in Seq(DataPage)
    BY <1>2 DEF Block
  <2>2. p + 1 \in 1..Len(flash[b][v].pages)
    BY <1>5, <2>1
  <2> QED
    BY <1>4, <2>1, <2>2, ElementOfSeq
<1>7. PICK pg : pg = [x EXCEPT !.span = 0, !.epoch = GcTag]
  OBVIOUS
<1>8. pg \in DataPage /\ pg.lpn = x.lpn /\ pg.ver = x.ver /\ pg.lpn \in Lpns
  <2>1. GcTag \in Epochs /\ 0 \in Nat
    BY RecoveryAssumption DEF GcTag, Epochs
  <2> QED
    BY <1>6, <1>7, <2>1 DEF DataPage
<1>9. /\ \A y \in Banks : BankInv(y)
      /\ Bank(pg.lpn) = b
  <2>1. \A y \in Banks : BankInv(y)
    BY <1>2 DEF SInv, SpaceInv, BankInv
  <2>2. HomeOk(b, flash[b])
    BY <1>2, <2>1 DEF BankInv
  <2> QED
    BY <1>2, <1>4, <1>6, <1>8, <2>1, <2>2 DEF HomeOk
<1>10. Program(b, pg, NoBlk)
  BY <1>3, <1>4, <1>7
<1>11. Stored(pg.lpn) = pg.ver
  <2>1. PICK m : m = pgmap[pg.lpn]
    OBVIOUS
  <2>2. m.blk = v /\ m.page = p /\ m # NoPpn
    BY <1>2, <1>5, <1>8, <2>1 DEF NoPpn, Blks, NoBlk
  <2> QED
    BY <1>4, <1>5, <1>8, <1>9, <2>1, <2>2 DEF Stored
<1>12. PICK k : k = NoBlk
  OBVIOUS
<1>13. Stored(pg.lpn)' = pg.ver /\ \A l \in Lpns \ {pg.lpn} : Stored(l)' = Stored(l)
  BY <1>2, <1>8, <1>9, <1>10, <1>12, StoredProgram
<1> QED
  BY <1>2, <1>11, <1>13 DEF Stays

LEMMA EraseStays ==
  ASSUME TypeOK, pc # "recovered", \A x \in Banks : BankInv(x),
         NEW b \in Banks,
         flash' = flash \/ flash' = [flash EXCEPT ![b][ring[b].vt] = Erased],
         UNCHANGED <<pgmap, cache, w>>
  PROVE  Stays
<1>1. ASSUME NEW c \in Banks, NEW k \in Blks, k # ring[c].vt
      PROVE  flash'[c][k].pages = flash[c][k].pages
  <2>1. CASE flash' = [flash EXCEPT ![b][ring[b].vt] = Erased]
    <3>1. flash'[b] = [flash[b] EXCEPT ![ring[b].vt] = Erased] /\ (c # b => flash'[c] = flash[c])
      BY <2>1 DEF TypeOK
    <3>2. flash[b] \in [Blks -> Block]
      BY DEF TypeOK
    <3>3. c = b => flash'[b][k] = flash[b][k]
      BY <1>1, <3>1, <3>2
    <3> QED
      BY <3>1, <3>3
  <2> QED
    BY <2>1
<1> QED
  BY <1>1, StoredKept DEF Stays

LEMMA ClosingStays ==
  ASSUME TypeOK, \A x \in Banks : BankInv(x), Closing, UNCHANGED <<cache, w>>
  PROVE  Stays
<1>1. PICK b \in Banks : CloseBlock(b)
  BY DEF Closing
<1>2. PICK a, h : /\ a = active[b].blk
                  /\ flash' = [flash EXCEPT ![b][a].next = h]
  BY <1>1 DEF CloseBlock
<1>3. ASSUME NEW c \in Banks, NEW k \in Blks
      PROVE  flash'[c][k].pages = flash[c][k].pages
  <2>1. flash[c][k] \in Block
    BY DEF TypeOK
  <2> QED
    BY <1>2, <2>1 DEF TypeOK, Block
<1> QED
  BY <1>3, StoredKept DEF Stays, Closing

LEMMA DataSteps ==
  ASSUME TypeOK, SInv, MissInv, [Next]_vars, pc # "recovered", pc' # "recovered"
  PROVE  Stays \/ Stores \/ Buffers
<1> USE DEF nand, wbuf, tables, chkpt, loops, gcvars, ghosts
<1>0. \A x \in Banks : BankInv(x)
  BY DEF SInv, SpaceInv, BankInv
<1>1. CacheHome /\ pool \in Banks
  BY DEF SInv, TypeOK
<1>2. ASSUME UNCHANGED <<flash, pgmap>>
      PROVE  \A l \in Lpns : Stored(l)' = Stored(l)
  BY <1>2 DEF Stored
<1>3. ASSUME UNCHANGED <<flash, pgmap, cache>>, UNCHANGED w \/ pc = "idle"
      PROVE  Stays
  BY <1>2, <1>3 DEF Stays
<1>4. ASSUME PoolWriteBuf, UNCHANGED w
      PROVE  Stays \/ Stores
  <2>1. CASE Dequeue(pool)
    BY <1>0, <1>1, <1>4, <2>1, DequeueStores
  <2>2. CASE EraseVt(pool)
    <3>1. PICK b : b = pool
      OBVIOUS
    <3>2. /\ flash' = flash \/ flash' = [flash EXCEPT ![b][ring[b].vt] = Erased]
          /\ UNCHANGED <<pgmap, cache>> /\ b \in Banks
      BY <1>1, <2>2, <3>1 DEF EraseVt
    <3> QED
      BY <1>0, <1>4, <3>2, EraseStays
  <2> QED
    BY <1>4, <2>1, <2>2 DEF PoolWriteBuf
<1>5. CASE WriteStep
  <2>1. CASE WritePool \/ CleanPool
    BY <1>4, <2>1 DEF WritePool, CleanPool
  <2>2. CASE LookupMiss \/ Written
    BY <1>3, <2>2 DEF LookupMiss, Written
  <2>3. CASE LookupHit
    <3>1. PICK i \in Bufs : /\ FirstHit(w.lpn, i)
                            /\ UNCHANGED <<wbuf, w>> \/ Enqueue(i)
      BY <2>3 DEF LookupHit
    <3>2. UNCHANGED <<flash, pgmap, g_epoch>> /\ pc = "lookup"
      BY <2>3 DEF LookupHit
    <3> QED
      BY <1>2, <1>3, <3>1, <3>2 DEF Buffers, FirstHit, Writing
  <2>4. CASE CleanFound
    <3>1. PICK i \in Bufs : LruLast(Bank(w.lpn), Bufs \ DirtyBufs(Bank(w.lpn)), i) /\ Enqueue(i)
      BY <2>4 DEF CleanFound
    <3>2. UNCHANGED <<flash, pgmap, g_epoch>> /\ pc = "clean"
      BY <2>4 DEF CleanFound
    <3>3. ~cache[Bank(w.lpn)][i].dirty
      BY <3>1 DEF LruLast, DirtyBufs
    <3> QED
      BY <1>2, <3>1, <3>2, <3>3 DEF Buffers, Writing, MissInv
  <2>5. CASE DepFull
    BY <1>2, <2>5 DEF DepFull, FirstHit, Buffers, Writing
  <2> QED
    BY <1>5, <2>1, <2>2, <2>3, <2>4, <2>5 DEF WriteStep
<1>6. CASE FlushStep
  <2>1. CASE FlushBank
    <3>1. PICK b : b = bank
      OBVIOUS
    <3>2. b \in Banks
      BY <2>1, <3>1, RecoveryAssumption DEF FlushBank, TypeOK, Banks
    <3>3. UNCHANGED w /\ (Dequeue(b) \/ UNCHANGED <<flash, pgmap, cache>>)
      BY <2>1, <3>1 DEF FlushBank
    <3> QED
      BY <1>0, <1>1, <1>3, <3>2, <3>3, DequeueStores
  <2> QED
    BY <1>3, <1>6, <2>1 DEF FlushStep, FlushDeps, FlushAgain, FlushDone
<1>7. CASE GcStep
  <2>1. CASE GcBegin
    <3>1. PICK b : b = bank
      OBVIOUS
    <3>2. /\ b \in Banks
          /\ flash' = flash \/ flash' = [flash EXCEPT ![b][ring[b].vt] = Erased]
          /\ UNCHANGED <<pgmap, cache, w>>
      BY <2>1, <3>1, RecoveryAssumption DEF GcBegin, TypeOK, Banks
    <3> QED
      BY <1>0, <3>2, EraseStays
  <2>2. CASE GcCopy
    BY <2>2, GcCopyStays
  <2>3. CASE GcSkip \/ GcEnd \/ GcRound
    BY <1>3, <2>3 DEF GcSkip, GcEnd, GcRound
  <2> QED
    BY <1>7, <2>1, <2>2, <2>3 DEF GcStep
<1>8. CASE ChkptStep
  BY <1>3, <1>8 DEF ChkptStep, RecordMapent, RecordTag, PersistMap, EraseMap,
     EraseLog
<1>9. CASE SummaryPage
  <2>1. Closing /\ UNCHANGED <<cache, w>>
    BY <1>9 DEF SummaryPage, NextProgram, Closing
  <2> QED
    BY <1>0, <2>1, ClosingStays
<1>10. CASE PoolStep
  BY <1>4, <1>10 DEF PoolStep
<1>11. CASE \/ HostFlush \/ IdlePool \/ Timer
            \/ \E c \in WriteCmds : HostWrite(c[1], c[2])
  BY <1>3, <1>11 DEF HostFlush, IdlePool, Timer, HostWrite
<1>12. CASE UNCHANGED vars
  BY <1>3, <1>12 DEF vars
<1>13. CASE CrashAndRecover
  BY <1>13 DEF CrashAndRecover
<1> QED
  BY <1>5, <1>6, <1>7, <1>8, <1>9, <1>10, <1>11, <1>12, <1>13 DEF Next, FtlStep

-----------------------------------------------------------------------------
(* What is read.                                                           *)

\* The buffer that holds a page is the only one.
LEMMA OnlyHit ==
  ASSUME NEW c, NEW l, NEW i \in Bufs, c[i].lpn = l,
         \A j, k \in Bufs : c[j].lpn = l /\ c[j].lpn = c[k].lpn => j = k
  PROVE  {j \in Bufs : c[j].lpn = l} = {i} /\ Min({i}) = i
<1>1. i \in Int
  BY FtlAssumption DEF Bufs
<1>2. Min({i}) = i
  BY <1>1 DEF Min
<1> QED
  BY <1>2

LEMMA LpnNotNone == NoLpn \notin Lpns
BY RecoveryAssumption DEF NoLpn

\* A page in the buffer is read there, any other one from flash.
LEMMA ReadCases ==
  ASSUME OneBuf, NEW l \in Lpns
  PROVE  /\ \A i \in Bufs : cache[Bank(l)][i].lpn = l =>
                              ReadView(l) = cache[Bank(l)][i].epoch + 1
         /\ Hits(l) = {} => ReadView(l) = Stored(l)
<1>1. PICK c, b : b = Bank(l) /\ b \in Banks /\ c = cache[b]
  BY BankType
<1>2. ASSUME NEW i \in Bufs, c[i].lpn = l
      PROVE  ReadView(l) = c[i].epoch + 1
  <2>1. \A j, k \in Bufs : c[j].lpn = l /\ c[j].lpn = c[k].lpn => j = k
    BY <1>1, LpnNotNone DEF OneBuf
  <2>2. {j \in Bufs : c[j].lpn = l} = {i} /\ Min({i}) = i
    BY <1>2, <2>1, OnlyHit
  <2>3. Hits(l) = {i}
    BY <1>1, <2>2 DEF Hits
  <2> QED
    BY <1>1, <2>2, <2>3 DEF ReadView
<1> QED
  BY <1>1, <1>2 DEF ReadView, Stored

\* The same after a step.
LEMMA ReadCasesNext ==
  ASSUME OneBuf', NEW l \in Lpns
  PROVE  /\ \A i \in Bufs : cache'[Bank(l)][i].lpn = l =>
                              ReadView(l)' = cache'[Bank(l)][i].epoch + 1
         /\ Hits(l)' = {} => ReadView(l)' = Stored(l)'
<1>1. PICK c, b : b = Bank(l) /\ b \in Banks /\ c = cache'[b]
  BY BankType
<1>2. ASSUME NEW i \in Bufs, c[i].lpn = l
      PROVE  ReadView(l)' = c[i].epoch + 1
  <2>1. \A j, k \in Bufs : c[j].lpn = l /\ c[j].lpn = c[k].lpn => j = k
    BY <1>1, LpnNotNone DEF OneBuf
  <2>2. {j \in Bufs : c[j].lpn = l} = {i} /\ Min({i}) = i
    BY <1>2, <2>1, OnlyHit
  <2>3. Hits(l)' = {i}
    BY <1>1, <2>2 DEF Hits
  <2> QED
    BY <1>1, <2>2, <2>3 DEF ReadView
<1> QED
  BY <1>1, <1>2 DEF ReadView, Stored

LEMMA StaysView ==
  ASSUME Stays
  PROVE  \A l \in Lpns : ReadView(l)' = ReadView(l)
<1> SUFFICES ASSUME NEW l \in Lpns
             PROVE  ReadView(l)' = ReadView(l)
  OBVIOUS
<1>1. Stored(l)' = Stored(l) /\ UNCHANGED cache
  BY DEF Stays
<1>2. Hits(l)' = Hits(l)
  BY <1>1 DEF Hits
<1> QED
  BY <1>1, <1>2 DEF ReadView, Stored

\* The entries under a step that stores a buffer.
LEMMA StoresEnts ==
  ASSUME TypeOK, NEW b \in Banks, NEW i \in Bufs,
         cache' = [cache EXCEPT ![b][i].dirty = FALSE]
  PROVE  \A c \in Banks, j \in Bufs :
           /\ cache'[c][j].lpn = cache[c][j].lpn
           /\ cache'[c][j].epoch = cache[c][j].epoch
           /\ ~(c = b /\ j = i) => cache'[c][j] = cache[c][j]
<1> SUFFICES ASSUME NEW c \in Banks, NEW j \in Bufs
             PROVE  /\ cache'[c][j].lpn = cache[c][j].lpn
                    /\ cache'[c][j].epoch = cache[c][j].epoch
                    /\ ~(c = b /\ j = i) => cache'[c][j] = cache[c][j]
  OBVIOUS
<1>1. PICK e : e = cache[b][i]
  OBVIOUS
<1>2. e \in CacheEnt
  BY <1>1 DEF TypeOK
<1>3. PICK f : f = [e EXCEPT !.dirty = FALSE]
  OBVIOUS
<1>4. f.lpn = e.lpn /\ f.epoch = e.epoch
  BY <1>2, <1>3 DEF CacheEnt, NoEnt
<1>5. cache'[c][j] = IF c = b /\ j = i THEN f ELSE cache[c][j]
  BY <1>1, <1>3 DEF TypeOK
<1>6. CASE c = b /\ j = i
  BY <1>1, <1>4, <1>5, <1>6
<1>7. CASE ~(c = b /\ j = i)
  BY <1>5, <1>7
<1> QED
  BY <1>6, <1>7

LEMMA StoresView ==
  ASSUME TypeOK, CacheHome, OneBuf, OneBuf', Stores
  PROVE  \A l \in Lpns : ReadView(l)' = ReadView(l)
<1> SUFFICES ASSUME NEW l \in Lpns
             PROVE  ReadView(l)' = ReadView(l)
  OBVIOUS
<1>1. PICK b \in Banks, i \in Bufs :
        /\ cache' = [cache EXCEPT ![b][i].dirty = FALSE]
        /\ \A x \in Lpns \ {cache[b][i].lpn} : Stored(x)' = Stored(x)
  BY DEF Stores
<1>2. \A c \in Banks, j \in Bufs : /\ cache'[c][j].lpn = cache[c][j].lpn
                                   /\ cache'[c][j].epoch = cache[c][j].epoch
  BY <1>1, StoresEnts
<1>3. Bank(l) \in Banks
  BY BankType
<1>4. CASE Hits(l) = {}
  <2>1. Hits(l)' = {}
    BY <1>2, <1>3, <1>4 DEF Hits
  <2>2. l # cache[b][i].lpn
    BY <1>4, LpnNotNone DEF CacheHome, Hits
  <2> QED
    BY <1>1, <1>4, <2>1, <2>2, ReadCases, ReadCasesNext
<1>5. ASSUME NEW j \in Hits(l)
      PROVE  ReadView(l)' = ReadView(l)
  <2>1. j \in Bufs /\ cache[Bank(l)][j].lpn = l
    BY <1>5 DEF Hits
  <2> QED
    BY <1>2, <1>3, <2>1, ReadCases, ReadCasesNext
<1> QED
  BY <1>4, <1>5

\* The entries under a step that buffers a page.
LEMMA BuffersEnts ==
  ASSUME TypeOK, Writing, NEW i \in Bufs, Enqueue(i)
  PROVE  \A c \in Banks, j \in Bufs :
           cache'[c][j] = IF c = Bank(w.lpn) /\ j = i
                            THEN [lpn |-> w.lpn, dirty |-> TRUE, span |-> w.span,
                                  epoch |-> g_epoch]
                            ELSE cache[c][j]
<1>1. Bank(w.lpn) \in Banks
  BY WritingBank
<1>2. PICK b, e : /\ b = Bank(w.lpn)
                  /\ e = [lpn |-> w.lpn, dirty |-> TRUE, span |-> w.span,
                          epoch |-> g_epoch]
  OBVIOUS
<1>3. cache' = [cache EXCEPT ![b][i] = e]
  BY <1>2 DEF Enqueue
<1>4. \A c \in Banks, j \in Bufs :
        cache'[c][j] = IF c = b /\ j = i THEN e ELSE cache[c][j]
  BY <1>3 DEF TypeOK
<1> QED
  BY <1>2, <1>4

\* The page of the write is read as the running write has it, the page the
\* buffer held until now as flash has it, the others as before.
LEMMA BuffersView ==
  ASSUME TypeOK, pc # "recovered", CacheHome, BufInv, OneBuf', Buffers
  PROVE  \A l \in Lpns :
           ReadView(l)' = IF l = w.lpn THEN g_epoch + 1 ELSE ReadView(l)
<1>1. PICK i \in Bufs :
        /\ Enqueue(i)
        /\ \/ i \in Hits(w.lpn)
           \/ Hits(w.lpn) = {} /\ ~cache[Bank(w.lpn)][i].dirty
  BY DEF Buffers
<1>2. PICK b, x : b = Bank(w.lpn) /\ x = w.lpn
  OBVIOUS
<1>3. b \in Banks /\ x \in Lpns /\ Writing
  BY <1>2, WritingBank DEF Buffers
<1>4. /\ cache'[b][i].lpn = x /\ cache'[b][i].epoch = g_epoch
      /\ \A c \in Banks, j \in Bufs : ~(c = b /\ j = i) => cache'[c][j] = cache[c][j]
  BY <1>1, <1>2, <1>3, BuffersEnts
<1>5. ReadView(x)' = g_epoch + 1
  BY <1>2, <1>3, <1>4, ReadCasesNext
<1>6. ASSUME NEW l \in Lpns \ {x}
      PROVE  ReadView(l)' = ReadView(l)
  <2>1. Bank(l) \in Banks /\ Stored(l)' = Stored(l)
    BY BankType DEF Buffers
  <2>2. CASE Hits(l) = {}
    <3>1. Hits(l)' = {}
      BY <1>4, <2>1, <2>2 DEF Hits
    <3> QED
      BY <2>1, <2>2, <3>1, ReadCases, ReadCasesNext DEF BufInv
  <2>3. ASSUME NEW j \in Hits(l)
        PROVE  ReadView(l)' = ReadView(l)
    <3>1. j \in Bufs /\ cache[Bank(l)][j].lpn = l
      BY <2>3 DEF Hits
    <3>2. ReadView(l) = cache[Bank(l)][j].epoch + 1
      BY <3>1, ReadCases DEF BufInv
    <3>3. CASE Bank(l) = b /\ j = i
      <4>1. i \notin Hits(x)
        BY <1>2, <3>1, <3>3 DEF Hits
      <4>2. ~cache[b][i].dirty
        BY <1>1, <1>2, <4>1
      <4>3. Stored(l) = cache[b][i].epoch + 1
        BY <1>3, <3>1, <3>3, <4>2, LpnNotNone DEF BufInv, CleanStored
      <4>4. Hits(l)' = {}
        <5>1. ASSUME NEW k \in Bufs, cache'[b][k].lpn = l
              PROVE  FALSE
          <6>1. k # i
            BY <1>4, <5>1
          <6>2. cache[b][k].lpn = l
            BY <1>3, <1>4, <5>1, <6>1
          <6> QED
            BY <1>3, <3>1, <3>3, <6>1, <6>2, LpnNotNone DEF BufInv, OneBuf
        <5> QED
          BY <3>3, <5>1 DEF Hits
      <4> QED
        BY <2>1, <3>2, <3>3, <4>3, <4>4, ReadCasesNext
    <3>4. CASE ~(Bank(l) = b /\ j = i)
      <4>1. cache'[Bank(l)][j] = cache[Bank(l)][j]
        BY <1>4, <2>1, <3>1, <3>4
      <4> QED
        BY <3>1, <3>2, <4>1, ReadCasesNext
    <3> QED
      BY <3>3, <3>4
  <2> QED
    BY <2>2, <2>3
<1> QED
  BY <1>2, <1>5, <1>6

-----------------------------------------------------------------------------
(* The buffer keeps its invariant.                                         *)

LEMMA OneBufKept ==
  ASSUME TypeOK, OneBuf, Stays \/ Stores \/ Buffers
  PROVE  OneBuf'
<1>1. CASE Stays
  BY <1>1 DEF Stays, OneBuf
<1>2. CASE Stores
  <2>1. PICK b \in Banks, i \in Bufs : cache' = [cache EXCEPT ![b][i].dirty = FALSE]
    BY <1>2 DEF Stores
  <2>2. \A c \in Banks, j \in Bufs : cache'[c][j].lpn = cache[c][j].lpn
    BY <2>1, StoresEnts
  <2> QED
    BY <2>2 DEF OneBuf
<1>3. CASE Buffers
  <2>1. PICK i \in Bufs : Enqueue(i) /\ (i \in Hits(w.lpn) \/ Hits(w.lpn) = {})
    BY <1>3 DEF Buffers
  <2>2. PICK b, x : b = Bank(w.lpn) /\ x = w.lpn
    OBVIOUS
  <2>3. b \in Banks /\ x \in Lpns /\ Writing
    BY <1>3, <2>2, WritingBank DEF Buffers
  <2>4. /\ cache'[b][i].lpn = x
        /\ \A c \in Banks, j \in Bufs : ~(c = b /\ j = i) => cache'[c][j] = cache[c][j]
    BY <2>1, <2>2, <2>3, BuffersEnts
  <2>5. ASSUME NEW j \in Bufs, j # i
        PROVE  cache[b][j].lpn # x
    BY <2>1, <2>2, <2>3, <2>5, LpnNotNone DEF Hits, OneBuf
  <2> QED
    BY <2>3, <2>4, <2>5 DEF OneBuf
<1> QED
  BY <1>1, <1>2, <1>3

LEMMA CleanStoredKept ==
  ASSUME TypeOK, pc # "recovered", CacheHome, BufInv, Stays \/ Stores \/ Buffers
  PROVE  CleanStored'
<1> SUFFICES ASSUME NEW c \in Banks, NEW j \in Bufs,
                    cache'[c][j].lpn # NoLpn, ~cache'[c][j].dirty
             PROVE  Stored(cache[c][j].lpn)' = cache'[c][j].epoch + 1
  BY DEF CleanStored
<1>1. PICK y : y = cache'[c][j].lpn
  OBVIOUS
<1>2. \A l \in Lpns, k \in Bufs : cache[c][k].lpn = l /\ ~cache[c][k].dirty =>
         Stored(l) = cache[c][k].epoch + 1
  BY LpnNotNone DEF BufInv, CleanStored
<1>3. cache[c][j].lpn # NoLpn => cache[c][j].lpn \in Lpns
  BY DEF TypeOK, CacheEnt, NoEnt
<1>4. CASE Stays
  BY <1>1, <1>2, <1>3, <1>4 DEF Stays
<1>5. CASE Stores
  <2>1. PICK b \in Banks, i \in Bufs :
          /\ cache[b][i].dirty
          /\ cache' = [cache EXCEPT ![b][i].dirty = FALSE]
          /\ \A l \in Lpns : Stored(l)' = IF l = cache[b][i].lpn THEN cache[b][i].epoch + 1
                                                             ELSE Stored(l)
    BY <1>5 DEF Stores
  <2>2. /\ y = cache[c][j].lpn /\ y \in Lpns
        /\ cache'[c][j].epoch = cache[c][j].epoch
        /\ ~(c = b /\ j = i) => ~cache[c][j].dirty
    BY <1>1, <1>3, <2>1, StoresEnts
  <2>3. CASE c = b /\ j = i
    BY <1>1, <2>1, <2>2, <2>3
  <2>4. CASE ~(c = b /\ j = i)
    <3>1. y # cache[b][i].lpn
      BY <2>2, <2>4, LpnNotNone DEF CacheHome, BufInv, OneBuf
    <3> QED
      BY <1>1, <1>2, <2>1, <2>2, <2>4, <3>1
  <2> QED
    BY <2>3, <2>4
<1>6. CASE Buffers
  <2>1. PICK i \in Bufs : Enqueue(i)
    BY <1>6 DEF Buffers
  <2>2. PICK b : b = Bank(w.lpn)
    OBVIOUS
  <2>3. /\ cache'[b][i].dirty \/ b \notin Banks
        /\ ~(c = b /\ j = i) => cache'[c][j] = cache[c][j]
    BY <1>6, <2>1, <2>2, BuffersEnts DEF Buffers
  <2>4. cache'[c][j] = cache[c][j]
    BY <2>3
  <2> QED
    BY <1>1, <1>2, <1>3, <1>6, <2>4 DEF Buffers
<1> QED
  BY <1>4, <1>5, <1>6

\* The buffer the page is looked up for stays the same.
LEMMA NextMiss ==
  ASSUME TypeOK, MissInv, [Next]_vars
  PROVE  MissInv'
<1> USE DEF nand, wbuf, tables, chkpt, loops, gcvars, ghosts
<1>1. ASSUME SameEnts, UNCHANGED <<w, pc>>
      PROVE  MissInv'
  <2> SUFFICES ASSUME pc = "clean"
               PROVE  MissInv'
    BY <1>1 DEF MissInv
  <2>1. Bank(w.lpn) \in Banks
    BY WritingBank DEF Writing
  <2>2. Hits(w.lpn)' = Hits(w.lpn)
    BY <1>1, <2>1 DEF SameEnts, Hits
  <2> QED
    BY <2>2 DEF MissInv
<1>2. ASSUME UNCHANGED <<cache, w, pc>>
      PROVE  MissInv'
  BY <1>1, <1>2 DEF SameEnts
<1>3. ASSUME pc' # "clean"
      PROVE  MissInv'
  BY <1>3 DEF MissInv
<1>4. ASSUME NEW i, Enqueue(i)
      PROVE  pc' \in {"written", "page"}
  BY <1>4 DEF Enqueue
<1>5. CASE WriteStep
  <2>1. CASE LookupMiss
    <3>1. Hits(w.lpn) = {} /\ UNCHANGED <<cache, w>>
      BY <2>1 DEF LookupMiss
    <3>2. Hits(w.lpn)' = {}
      BY <3>1 DEF Hits
    <3> QED
      BY <3>2 DEF MissInv
  <2>2. CASE CleanPool
    BY <1>1, <2>2, PoolWriteBufSame DEF CleanPool
  <2>3. CASE WritePool \/ LookupHit \/ CleanFound \/ DepFull \/ Written
    BY <1>3, <1>4, <2>3 DEF WritePool, LookupHit, CleanFound, DepFull, Written,
       EndWrite
  <2> QED
    BY <1>5, <2>1, <2>2, <2>3 DEF WriteStep
<1>6. CASE FlushStep
  BY <1>3, <1>6 DEF FlushStep, FlushDeps, FlushBank, FlushAgain, FlushDone,
     TypeOK, Returns
<1>7. CASE GcStep
  BY <1>3, <1>7 DEF GcStep, GcSkip, GcBegin, GcCopy, GcEnd, GcRound, EndWrite
<1>8. CASE ChkptStep
  BY <1>3, <1>8 DEF ChkptStep, RecordMapent, RecordTag, PersistMap, EraseMap,
     EraseLog
<1>9. CASE SummaryPage \/ Timer
  BY <1>2, <1>9 DEF SummaryPage, Timer
<1>10. CASE \/ PoolStep \/ HostFlush \/ IdlePool \/ CrashAndRecover
            \/ \E c \in WriteCmds : HostWrite(c[1], c[2])
  BY <1>3, <1>10 DEF PoolStep, HostFlush, IdlePool, HostWrite, CrashAndRecover
<1>11. CASE UNCHANGED vars
  BY <1>2, <1>11 DEF vars
<1> QED
  BY <1>5, <1>6, <1>7, <1>8, <1>9, <1>10, <1>11 DEF Next, FtlStep

-----------------------------------------------------------------------------
(* What must survive.                                                      *)

\* The prefix that must survive, as the refinement mapping has it.
Durable == IF Checkpointed THEN flushed ELSE 0

\* A page appended to the log leaves the tags, and a tag adds to them.
LEMMA TagsAppend ==
  ASSUME TypeOK, NEW pg \in LogPage, log' = Append(log, pg)
  PROVE  /\ \A i \in TagsOf(log) : i \in TagsOf(log') /\ log'[i] = log[i]
         /\ pg.type # "tag" => TagsOf(log') = TagsOf(log)
         /\ pg.type = "tag" => \E i \in TagsOf(log') : log'[i] = pg
<1>1. log \in Seq(LogPage)
  BY DEF TypeOK
<1>2. PICK n, lg, ln : n = Len(log) /\ lg = log /\ ln = log'
  OBVIOUS
<1>3. /\ n \in Nat /\ DOMAIN lg = 1..n /\ DOMAIN ln = 1..(n + 1)
      /\ ln[n + 1] = pg /\ \A i \in 1..n : ln[i] = lg[i]
  BY <1>1, <1>2, AppendProperties, LenProperties
<1>4. \A i \in DOMAIN ln : i = n + 1 \/ i \in 1..n
  BY <1>3
<1>5. /\ TagsOf(lg) = {i \in 1..n : lg[i].type = "tag"}
      /\ TagsOf(ln) = {i \in 1..(n + 1) : ln[i].type = "tag"}
  BY <1>3 DEF TagsOf
<1>6. \A i \in TagsOf(lg) : i \in TagsOf(ln) /\ ln[i] = lg[i]
  BY <1>3, <1>5
<1>7. pg.type # "tag" => TagsOf(ln) = TagsOf(lg)
  BY <1>3, <1>4, <1>5
<1>8. pg.type = "tag" => n + 1 \in TagsOf(ln) /\ ln[n + 1] = pg
  BY <1>3, <1>5
<1> QED
  BY <1>2, <1>6, <1>7, <1>8

LEMMA SameDurable ==
  ASSUME UNCHANGED <<log, maps, flushed>>
  PROVE  Durable' = Durable
BY DEF Durable, Checkpointed

LEMMA AppendDurable ==
  ASSUME TypeOK, NEW pg \in LogPage, log' = Append(log, pg), UNCHANGED <<maps, flushed>>
  PROVE  /\ Checkpointed => Checkpointed'
         /\ pg.type # "tag" => Durable' = Durable
<1>1. /\ \A i \in TagsOf(log) : i \in TagsOf(log') /\ log'[i] = log[i]
      /\ pg.type # "tag" => TagsOf(log') = TagsOf(log)
  BY TagsAppend
<1>2. Checkpointed => Checkpointed'
  BY <1>1 DEF Checkpointed
<1>3. pg.type # "tag" => (Checkpointed' => Checkpointed)
  BY <1>1 DEF Checkpointed
<1> QED
  BY <1>2, <1>3 DEF Durable

LEMMA RecordDepentDurable ==
  ASSUME TypeOK, RecordDepent, UNCHANGED <<maps, flushed>>
  PROVE  Durable' = Durable
<1>1. CASE deps = <<>>
  BY <1>1, SameDurable DEF RecordDepent
<1>2. CASE deps # <<>>
  <2>1. PICK pg : pg = [type |-> "depent", ents |-> deps]
    OBVIOUS
  <2>2. pg \in LogPage /\ pg.type # "tag" /\ log' = Append(log, pg)
    BY <1>2, <2>1 DEF RecordDepent, LogPage, TypeOK
  <2> QED
    BY <2>2, AppendDurable
<1> QED
  BY <1>1, <1>2

LEMMA RecordMapentDurable ==
  ASSUME TypeOK, RecordMapent
  PROVE  Durable' = Durable
<1>0. UNCHANGED <<maps, flushed>>
  BY DEF RecordMapent, ghosts
<1>1. CASE mapents = <<>>
  BY <1>0, <1>1, SameDurable DEF RecordMapent
<1>2. CASE mapents # <<>>
  <2>1. PICK n : n = IF Len(mapents) < MapentsPerPage THEN Len(mapents)
                                                      ELSE MapentsPerPage
    OBVIOUS
  <2>2. mapents \in Seq(MapEnt) /\ n \in Nat /\ n <= Len(mapents)
    BY <2>1, LenProperties, FtlAssumption DEF TypeOK
  <2>3. SubSeq(mapents, 1, n) \in Seq(MapEnt)
    BY <2>2, SubSeqProperties
  <2>4. PICK pg : pg = [type |-> "mapent", ents |-> SubSeq(mapents, 1, n)]
    OBVIOUS
  <2>5. pg \in LogPage /\ pg.type # "tag"
    BY <2>3, <2>4 DEF LogPage
  <2>6. log' = Append(log, pg)
    BY <1>2, <2>1, <2>4 DEF RecordMapent
  <2> QED
    BY <1>0, <2>5, <2>6, AppendDurable
<1> QED
  BY <1>1, <1>2

\* The epoch of a tag written after a write.
LEMMA TagEpoch ==
  ASSUME TypeOK, g_epoch # 0
  PROVE  EpochPred(g_epoch) # EpochPred(0)
BY RecoveryAssumption DEF TypeOK, Epochs, EpochPred

LEMMA TaggedCheckpointed ==
  ASSUME TypeOK, g_epoch # 0,
         \E i \in TagsOf(log) : log[i].epoch = EpochPred(g_epoch)
  PROVE  Checkpointed
BY TagEpoch DEF Checkpointed

\* Once the log is given up, the map table stands for it.
LEMMA RestoredCheckpointed ==
  ASSUME TypeOK, TagInv, pc = "eraselog", g_epoch # 1
  PROVE  RestoredMap(maps).epoch # 0
<1>1. PICK e, m : e = EpochPred(g_epoch) /\ m = maps[1 - mapIdx]
  OBVIOUS
<1>2. e \in Nat /\ e # 0
  BY <1>1, RecoveryAssumption DEF TypeOK, Epochs, EpochPred
<1>3. maps[1 - mapIdx].epoch = e /\ maps[mapIdx].epoch = 0 /\ mapIdx \in {0, 1}
  BY <1>1 DEF TagInv, TypeOK
<1>4. CASE mapIdx = 0
  BY <1>2, <1>3, <1>4 DEF RestoredMap
<1>5. CASE mapIdx = 1
  BY <1>2, <1>3, <1>5 DEF RestoredMap
<1> QED
  BY <1>3, <1>4, <1>5

\* A reclaim is reached through the tag, one step after the other.
LEMMA ReclaimSteps ==
  ASSUME TypeOK, [Next]_vars, pc' \in {"persist", "erasemap", "eraselog"}
  PROVE  \/ RecordTag \/ PersistMap \/ EraseMap
         \/ UNCHANGED <<pc, log, maps, mapIdx, g_epoch>>
<1> USE DEF nand, wbuf, tables, chkpt, loops, gcvars, ghosts
<1>1. ASSUME NEW i, Enqueue(i)
      PROVE  FALSE
  BY <1>1 DEF Enqueue
<1>2. CASE WriteStep
  <2>1. CASE CleanPool
    <3>1. pc = "clean" /\ pc' = pc
      BY <2>1 DEF CleanPool
    <3> QED
      BY <3>1
  <2> QED
    BY <1>1, <1>2, <2>1 DEF WriteStep, WritePool, LookupMiss, LookupHit,
       CleanFound, DepFull, Written, EndWrite
<1>3. CASE FlushStep
  BY <1>3 DEF FlushStep, FlushDeps, FlushBank, FlushAgain, FlushDone, TypeOK, Returns
<1>4. CASE GcStep
  BY <1>4 DEF GcStep, GcSkip, GcBegin, GcCopy, GcEnd, GcRound, EndWrite
<1>5. CASE ChkptStep
  BY <1>5 DEF ChkptStep, RecordMapent, EraseLog
<1>6. CASE SummaryPage
  <2>1. pc \in {"pool", "page", "clean", "flush", "gccopy"} /\ pc' = pc
    BY <1>6 DEF SummaryPage, NextProgram
  <2> QED
    BY <2>1
<1>7. CASE Timer \/ UNCHANGED vars
  BY <1>7 DEF Timer, vars
<1>8. CASE \/ PoolStep \/ HostFlush \/ IdlePool \/ CrashAndRecover
           \/ \E c \in WriteCmds : HostWrite(c[1], c[2])
  BY <1>8 DEF PoolStep, HostFlush, IdlePool, HostWrite, CrashAndRecover
<1> QED
  BY <1>2, <1>3, <1>4, <1>5, <1>6, <1>7, <1>8 DEF Next, FtlStep

LEMMA RecordTagLog ==
  ASSUME TypeOK, RecordTag
  PROVE  \E pg \in LogPage : /\ log' = Append(log, pg)
                             /\ pg.type = "tag" /\ pg.epoch = EpochPred(g_epoch)
<1>1. PICK pg : pg = Tag(g_epoch, active)
  OBVIOUS
<1>2. pg.type = "tag" /\ pg.epoch = EpochPred(g_epoch)
  BY <1>1 DEF Tag
<1>3. EpochPred(g_epoch) \in Epochs
  BY EpochType DEF TypeOK
<1>4. pg \in LogPage
  BY <1>1, <1>3 DEF Tag, LogPage, TypeOK
<1>5. log' = Append(log, pg)
  BY <1>1 DEF RecordTag
<1> QED
  BY <1>2, <1>4, <1>5

LEMMA NextTag ==
  ASSUME TypeOK, TagInv, [Next]_vars
  PROVE  TagInv'
<1> USE DEF nand, wbuf, tables, chkpt, loops, gcvars, ghosts
<1> SUFFICES ASSUME pc' \in {"persist", "erasemap", "eraselog"}
             PROVE  TagInv'
  BY DEF TagInv
<1>1. CASE RecordTag
  <2>1. PICK pg \in LogPage : /\ log' = Append(log, pg) /\ pg.type = "tag"
                              /\ pg.epoch = EpochPred(g_epoch)
    BY <1>1, RecordTagLog
  <2>2. PICK i \in TagsOf(log') : log'[i] = pg
    BY <2>1, TagsAppend
  <2>3. pc' = "persist" /\ g_epoch' = g_epoch
    BY <1>1 DEF RecordTag
  <2> QED
    BY <2>1, <2>2, <2>3 DEF TagInv
<1>2. CASE PersistMap
  <2>1. /\ pc = "persist" /\ pc' = "erasemap" /\ mapIdx' = 1 - mapIdx
        /\ UNCHANGED <<log, g_epoch>>
        /\ maps' = [maps EXCEPT ![mapIdx] =
                      [epoch |-> EpochPred(g_epoch), map |-> pgmap]]
    BY <1>2 DEF PersistMap
  <2>2. mapIdx \in {0, 1} /\ maps \in [{0, 1} -> MapTable] /\ 1 - mapIdx' = mapIdx
    BY <2>1 DEF TypeOK
  <2>3. maps'[1 - mapIdx'].epoch = EpochPred(g_epoch)
    BY <2>1, <2>2
  <2> QED
    BY <2>1, <2>3 DEF TagInv
<1>3. CASE EraseMap
  <2>1. /\ pc = "erasemap" /\ pc' = "eraselog" /\ UNCHANGED <<mapIdx, g_epoch>>
        /\ maps' = [maps EXCEPT ![mapIdx] = NoMap]
    BY <1>3 DEF EraseMap
  <2>2. mapIdx \in {0, 1} /\ maps \in [{0, 1} -> MapTable] /\ 1 - mapIdx # mapIdx
    BY DEF TypeOK
  <2>3. maps'[mapIdx].epoch = 0 /\ maps'[1 - mapIdx] = maps[1 - mapIdx]
    BY <2>1, <2>2 DEF NoMap
  <2> QED
    BY <2>1, <2>3 DEF TagInv
<1>4. CASE UNCHANGED <<pc, log, maps, mapIdx, g_epoch>>
  BY <1>4 DEF TagInv
<1> QED
  BY <1>1, <1>2, <1>3, <1>4, ReclaimSteps

\* What is recorded as flushed has been issued.
LEMMA HistGrows ==
  ASSUME TypeOK, [Next]_vars
  PROVE  /\ Len(hist) \in Nat /\ Len(hist') \in Nat /\ Len(hist) <= Len(hist')
         /\ pc # "idle" => hist' = hist
         /\ flushed' # flushed => flushed' = Len(hist) /\ hist' = hist
<1> USE DEF nand, wbuf, tables, chkpt, loops, gcvars, ghosts
<1>1. hist \in Seq(SUBSET Lpns) /\ Len(hist) \in Nat
  BY LenProperties DEF TypeOK
<1>2. ASSUME hist' = hist, flushed' = flushed \/ flushed' = Len(hist)
      PROVE  /\ Len(hist') \in Nat /\ Len(hist) <= Len(hist')
             /\ flushed' # flushed => flushed' = Len(hist) /\ hist' = hist
  BY <1>1, <1>2
<1>3. CASE WriteStep
  BY <1>2, <1>3 DEF WriteStep, WritePool, LookupMiss, LookupHit, CleanPool,
     CleanFound, DepFull, Written
<1>4. CASE FlushStep
  BY <1>2, <1>4 DEF FlushStep, FlushDeps, FlushBank, FlushAgain, FlushDone
<1>5. CASE GcStep
  BY <1>2, <1>5 DEF GcStep, GcSkip, GcBegin, GcCopy, GcEnd, GcRound
<1>6. CASE ChkptStep
  BY <1>2, <1>6 DEF ChkptStep, RecordMapent, RecordTag, PersistMap, EraseMap, EraseLog
<1>7. CASE SummaryPage \/ PoolStep \/ HostFlush \/ IdlePool \/ Timer
              \/ CrashAndRecover \/ UNCHANGED vars
  BY <1>2, <1>7 DEF SummaryPage, PoolStep, HostFlush, IdlePool, Timer,
     CrashAndRecover, vars
<1>8. ASSUME NEW l, NEW n, HostWrite(l, n)
      PROVE  pc = "idle" /\ Len(hist') = Len(hist) + 1 /\ flushed' = flushed
  BY <1>1, <1>8, AppendProperties DEF HostWrite
<1> QED
  BY <1>1, <1>3, <1>4, <1>5, <1>6, <1>7, <1>8 DEF Next, FtlStep

LEMMA NextFlushed ==
  ASSUME TypeOK, FlushedInv, [Next]_vars
  PROVE  FlushedInv'
BY HistGrows DEF FlushedInv, TypeOK

\* The steps that can change it.
LEMMA DurableSteps ==
  ASSUME TypeOK, [Next]_vars, pc # "recovered", pc' # "recovered"
  PROVE  \/ Durable' = Durable
         \/ FlushDone \/ RecordTag \/ PersistMap \/ EraseMap \/ EraseLog
<1> USE DEF nand, wbuf, tables, chkpt, loops, gcvars, ghosts
<1>1. ASSUME PoolWriteBuf, UNCHANGED flushed
      PROVE  Durable' = Durable
  BY <1>1, SameDurable DEF PoolWriteBuf, Dequeue, EraseVt, Program
<1>2. CASE WriteStep
  <2>1. CASE DepFull
    BY <2>1, RecordDepentDurable DEF DepFull
  <2>2. CASE LookupHit
    BY <2>2, SameDurable DEF LookupHit
  <2>3. CASE WritePool \/ CleanPool
    BY <1>1, <2>3 DEF WritePool, CleanPool
  <2>4. CASE LookupMiss \/ CleanFound \/ Written
    BY <2>4, SameDurable DEF LookupMiss, CleanFound, Written
  <2> QED
    BY <1>2, <2>1, <2>2, <2>3, <2>4 DEF WriteStep
<1>3. CASE FlushStep
  <2>1. CASE FlushDeps
    BY <2>1, RecordDepentDurable DEF FlushDeps
  <2>2. CASE FlushBank \/ FlushAgain
    BY <2>2, SameDurable DEF FlushBank, FlushAgain, Dequeue, Program
  <2> QED
    BY <1>3, <2>1, <2>2 DEF FlushStep
<1>4. CASE GcStep
  BY <1>4, SameDurable DEF GcStep, GcSkip, GcBegin, GcCopy, GcEnd, GcRound, Program
<1>5. CASE ChkptStep
  BY <1>5, RecordMapentDurable DEF ChkptStep
<1>6. CASE PoolStep
  BY <1>1, <1>6 DEF PoolStep
<1>7. CASE \/ SummaryPage \/ HostFlush \/ IdlePool \/ Timer \/ UNCHANGED vars
           \/ \E c \in WriteCmds : HostWrite(c[1], c[2])
  BY <1>7, SameDurable DEF SummaryPage, HostFlush, IdlePool, Timer, HostWrite, vars
<1>8. ASSUME CrashAndRecover
      PROVE  FALSE
  BY <1>8 DEF CrashAndRecover
<1> QED
  BY <1>2, <1>3, <1>4, <1>5, <1>6, <1>7, <1>8 DEF Next, FtlStep

\* What must survive never shrinks and has been issued; it does not grow
\* while a write takes in its pages.
LEMMA NextDurable ==
  ASSUME TypeOK, EpochInv, TagInv, FlushedInv, RoomLeft, [Next]_vars,
         pc # "recovered", pc' # "recovered"
  PROVE  /\ Durable' \in Durable..Len(hist)
         /\ Writing \/ pc = "idle" => Durable' = Durable
<1> USE DEF nand, wbuf, tables, chkpt, loops, gcvars, ghosts
<1>1. /\ flushed \in Nat /\ Len(hist) \in Nat /\ flushed <= Len(hist)
      /\ Durable \in {0, flushed}
  BY LenProperties DEF TypeOK, FlushedInv, Durable
<1>2. ASSUME Durable' = Durable
      PROVE  Durable' \in Durable..Len(hist)
  BY <1>1, <1>2
<1>3. ASSUME Checkpointed => Checkpointed', flushed' \in {flushed, Len(hist)}
      PROVE  Durable' \in Durable..Len(hist)
  BY <1>1, <1>3 DEF Durable
<1>4. ASSUME pc \in {"persist", "erasemap"}, log' = log,
             flushed' \in {flushed, Len(hist)}
      PROVE  Durable' \in Durable..Len(hist)
  <2>1. PICK e, i : i \in TagsOf(log) /\ log[i].epoch = e /\ e = EpochPred(g_epoch)
    BY <1>4 DEF TagInv
  <2>2. CASE g_epoch = 0
    <3>1. Len(hist) = 0
      BY <1>4, <2>2 DEF EpochInv, InWrite, Writing
    <3>2. flushed = 0 /\ flushed' = 0
      BY <1>1, <1>4, <3>1
    <3> QED
      BY <1>2, <3>2 DEF Durable
  <2>3. CASE g_epoch # 0
    <3>1. i \in TagsOf(log') /\ log'[i].epoch = e /\ e # EpochPred(0)
      BY <1>4, <2>1, <2>3, TagEpoch
    <3>2. Checkpointed'
      BY <3>1 DEF Checkpointed
    <3> QED
      BY <1>3, <1>4, <3>2
  <2> QED
    BY <2>2, <2>3
<1>5. CASE FlushDone
  <2>1. pc = "flush" /\ UNCHANGED <<log, maps>> /\ flushed' \in {flushed, Len(hist)}
    BY <1>5 DEF FlushDone
  <2>2. Checkpointed => Checkpointed'
    BY <2>1 DEF Checkpointed
  <2> QED
    BY <1>3, <2>1, <2>2 DEF Writing
<1>6. CASE RecordTag
  <2>1. pc = "tag" /\ UNCHANGED <<maps, flushed>>
    BY <1>6 DEF RecordTag
  <2>2. Checkpointed => Checkpointed'
    BY <1>6, <2>1, RecordTagLog, AppendDurable
  <2> QED
    BY <1>3, <2>1, <2>2 DEF Writing
<1>7. CASE PersistMap
  BY <1>4, <1>7 DEF PersistMap, Writing
<1>8. CASE EraseMap
  BY <1>4, <1>8 DEF EraseMap, Writing
<1>9. CASE EraseLog
  <2>1. pc = "eraselog" /\ UNCHANGED <<maps, flushed>>
    BY <1>9 DEF EraseLog
  <2>2. RestoredMap(maps).epoch # 0
    BY <2>1, RestoredCheckpointed DEF RoomLeft
  <2>3. Checkpointed'
    BY <2>1, <2>2 DEF Checkpointed
  <2> QED
    BY <1>3, <2>1, <2>3 DEF Writing
<1> QED
  BY <1>2, <1>5, <1>6, <1>7, <1>8, <1>9, DurableSteps

-----------------------------------------------------------------------------
(* The running write.                                                      *)

\* The pages still to come are those of the write command served.
LEMMA SamePending ==
  ASSUME TypeOK, [Next]_vars, pc # "recovered", pc' # "recovered",
         UNCHANGED w \/ pc = "idle", \A c \in WriteCmds : ~HostWrite(c[1], c[2])
  PROVE  hist' = hist /\ PendingPages' = PendingPages
<1> USE DEF nand, wbuf, tables, chkpt, loops, gcvars, ghosts
<1>0. ASSUME hist' = hist, UNCHANGED <<w, pc>>
      PROVE  hist' = hist /\ PendingPages' = PendingPages
  BY <1>0 DEF PendingPages, Writing
<1>1. ASSUME hist' = hist, UNCHANGED w, Writing, Writing'
      PROVE  hist' = hist /\ PendingPages' = PendingPages
  BY <1>1 DEF PendingPages
<1>2. ASSUME hist' = hist, ~Writing, ~Writing'
      PROVE  hist' = hist /\ PendingPages' = PendingPages
  BY <1>2 DEF PendingPages
<1>3. ASSUME NEW i, Enqueue(i), Writing
      PROVE  FALSE
  <2>1. UNCHANGED w
    BY <1>3 DEF Writing
  <2>2. PICK v, x : v = w /\ x = w.lpn /\ x \in Nat
    BY DEF TypeOK
  <2>3. w' = [v EXCEPT !.lpn = x + 1, !.remain = v.remain - 1]
    BY <1>3, <2>2 DEF Enqueue
  <2>4. w'.lpn = x + 1
    BY <2>2, <2>3 DEF TypeOK
  <2> QED
    BY <2>1, <2>2, <2>4
<1>4. CASE WriteStep
  <2>1. CASE Written
    BY <1>2, <2>1 DEF Written, EndWrite, Writing
  <2>2. CASE WritePool \/ LookupMiss
    <3>1. hist' = hist /\ UNCHANGED w /\ pc \in {"page", "lookup"} /\ pc' \in {"lookup", "clean"}
      BY <2>2 DEF WritePool, LookupMiss
    <3> QED
      BY <1>1, <3>1 DEF Writing
  <2>3. CASE CleanPool
    BY <1>0, <2>3 DEF CleanPool
  <2>4. CASE LookupHit
    <3>1. pc = "lookup" /\ hist' = hist
      BY <2>4 DEF LookupHit
    <3>2. UNCHANGED w /\ pc' = "depfull"
      BY <1>3, <2>4, <3>1 DEF LookupHit, Writing
    <3> QED
      BY <1>1, <3>1, <3>2 DEF Writing
  <2>5. CASE CleanFound \/ DepFull
    BY <1>3, <2>5 DEF CleanFound, DepFull, Writing
  <2> QED
    BY <1>4, <2>1, <2>2, <2>3, <2>4, <2>5 DEF WriteStep
<1>5. CASE FlushStep
  BY <1>2, <1>5 DEF FlushStep, FlushDeps, FlushBank, FlushAgain, FlushDone, Writing,
     TypeOK, Returns
<1>6. CASE GcStep
  BY <1>2, <1>6 DEF GcStep, GcSkip, GcBegin, GcCopy, GcEnd, GcRound, EndWrite, Writing
<1>7. CASE ChkptStep
  BY <1>2, <1>7 DEF ChkptStep, RecordMapent, RecordTag, PersistMap, EraseMap, EraseLog,
     Writing
<1>8. CASE SummaryPage \/ Timer \/ UNCHANGED vars
  BY <1>0, <1>8 DEF SummaryPage, Timer, vars
<1>9. CASE PoolStep \/ HostFlush \/ IdlePool
  BY <1>2, <1>9 DEF PoolStep, HostFlush, IdlePool, Writing
<1>10. ASSUME CrashAndRecover
       PROVE  FALSE
  BY <1>10 DEF CrashAndRecover
<1> QED
  BY <1>4, <1>5, <1>6, <1>7, <1>8, <1>9, <1>10 DEF Next, FtlStep

-----------------------------------------------------------------------------
(* The steps are those of the ordered disk.                                *)

Contents == [l \in Lpns |-> ReadView(l)]

LEMMA SameContents ==
  ASSUME \A l \in Lpns : ReadView(l)' = ReadView(l)
  PROVE  Contents' = Contents
BY DEF Contents

LEMMA PutContents ==
  ASSUME NEW x \in Lpns, NEW v,
         \A l \in Lpns : ReadView(l)' = IF l = x THEN v ELSE ReadView(l)
  PROVE  Contents' = [Contents EXCEPT ![x] = v]
BY DEF Contents

\* HostWrite issues its pages.
LEMMA IssueStep ==
  ASSUME TypeOK, NEW c \in WriteCmds, HostWrite(c[1], c[2]),
         Contents' = Contents, Durable' = Durable
  PROVE  Disk!DNext
<1>1. PICK l, n : l = c[1] /\ n = c[2]
  OBVIOUS
<1>2. /\ l \in Nat /\ n \in Nat \ {0}
      /\ l..(l + n - 1) \subseteq Lpns /\ l \in l..(l + n - 1)
  <2>1. l \in Lpns /\ n \in Nat \ {0} /\ l..(l + n - 1) \subseteq Lpns
    BY <1>1, FtlAssumption
  <2> QED
    BY <2>1, RecoveryAssumption
<1>3. /\ pc = "idle" /\ pc' = "page" /\ hist' = Append(hist, l..(l + n - 1))
      /\ w' = [lpn |-> l, remain |-> n, span |-> n]
  BY <1>1 DEF HostWrite
<1>4. PendingPages = {} /\ PendingPages' = l..(l + n - 1)
  BY <1>3 DEF PendingPages, Writing
<1>5. PICK S : S = l..(l + n - 1)
  OBVIOUS
<1>6. S \in (SUBSET Lpns) \ {{}}
  BY <1>2, <1>5
<1>7. Disk!Issue(S)
  BY <1>3, <1>4, <1>5 DEF Disk!Issue, Contents, Durable
<1> QED
  BY <1>6, <1>7 DEF Disk!DNext

\* The page that goes to the buffer is the first of the pending ones.
LEMMA PutPending ==
  ASSUME TypeOK, Buffers
  PROVE  /\ w.lpn \in PendingPages /\ w.lpn \in Lpns
         /\ PendingPages' = PendingPages \ {w.lpn}
         /\ pc' # "recovered"
<1>1. PICK i \in Bufs : Enqueue(i)
  BY DEF Buffers
<1>2. PICK x, r : x = w.lpn /\ r = w.remain
  OBVIOUS
<1>3. /\ x \in Nat /\ r \in Nat /\ r > 0 /\ x..(x + r - 1) \subseteq Lpns /\ Writing
  BY <1>2 DEF TypeOK, Buffers
<1>4. /\ w'.lpn = x + 1 /\ w'.remain = r - 1
      /\ pc' = IF r = 1 THEN "written" ELSE "page"
  BY <1>1, <1>2 DEF Enqueue, TypeOK
<1>5. PendingPages = x..(x + r - 1)
  BY <1>2, <1>3 DEF PendingPages
<1>6. PendingPages' = (x + 1)..(x + r - 1)
  <2>1. CASE r = 1
    <3>1. PendingPages' = {}
      BY <1>4, <2>1 DEF PendingPages, Writing
    <3> QED
      BY <1>3, <2>1, <3>1
  <2>2. CASE r # 1
    <3>1. PendingPages' = (x + 1)..(x + 1 + (r - 1) - 1)
      BY <1>4, <2>2 DEF PendingPages, Writing
    <3> QED
      BY <1>3, <3>1
  <2> QED
    BY <2>1, <2>2
<1>7. x \in x..(x + r - 1) /\ (x + 1)..(x + r - 1) = (x..(x + r - 1)) \ {x}
  BY <1>3
<1> QED
  BY <1>2, <1>3, <1>4, <1>5, <1>6, <1>7

LEMMA PutStep ==
  ASSUME TypeOK, EpochInv, Buffers, pc # "recovered", hist' = hist, Durable' = Durable,
         \A l \in Lpns : ReadView(l)' = IF l = w.lpn THEN g_epoch + 1 ELSE ReadView(l)
  PROVE  Disk!DNext
<1>1. PICK x, v : x = w.lpn /\ v = g_epoch + 1
  OBVIOUS
<1>2. x \in Lpns /\ Contents' = [Contents EXCEPT ![x] = v]
  BY <1>1, PutPending, PutContents
<1>3. v = Len(hist)
  BY <1>1 DEF EpochInv, InWrite, Buffers
<1>4. /\ x \in PendingPages /\ PendingPages' = PendingPages \ {x}
      /\ pc' # "recovered"
  BY <1>1, PutPending
<1>5. Disk!Put(x)
  BY <1>2, <1>3, <1>4 DEF Disk!Put, Contents, Durable
<1> QED
  BY <1>2, <1>5 DEF Disk!DNext

LEMMA DiskStep ==
  ASSUME TypeOK, EpochInv, SInv, DInv, OneBuf', RoomLeft, [Next]_vars,
         pc # "recovered", pc' # "recovered"
  PROVE  [Disk!DNext]_(Disk!dvars)
<1>1. /\ Durable' \in Durable..Len(hist)
      /\ Writing \/ pc = "idle" => Durable' = Durable
  BY NextDurable DEF DInv
<1>2. Stays \/ Stores \/ Buffers
  BY DataSteps DEF DInv, BufInv
<1>3. CASE Buffers
  <2>1. \A l \in Lpns : ReadView(l)' = IF l = w.lpn THEN g_epoch + 1 ELSE ReadView(l)
    BY <1>3, BuffersView DEF DInv, SInv
  <2>2. Writing /\ pc # "idle"
    BY <1>3 DEF Buffers, Writing
  <2>3. hist' = hist
    BY <2>2, HistGrows
  <2> QED
    BY <1>1, <1>3, <2>1, <2>2, <2>3, PutStep
<1>4. ASSUME Stays \/ Stores
      PROVE  [Disk!DNext]_(Disk!dvars)
  <2>1. \A l \in Lpns : ReadView(l)' = ReadView(l)
    BY <1>4, StaysView, StoresView DEF DInv, BufInv, SInv
  <2>2. Contents' = Contents
    BY <2>1, SameContents
  <2>3. ASSUME NEW c \in WriteCmds, HostWrite(c[1], c[2])
        PROVE  Disk!DNext
    <3>1. pc = "idle"
      BY <2>3 DEF HostWrite
    <3> QED
      BY <1>1, <2>2, <2>3, <3>1, IssueStep
  <2>4. CASE \A c \in WriteCmds : ~HostWrite(c[1], c[2])
    <3>1. UNCHANGED w \/ pc = "idle"
      BY <1>4 DEF Stays, Stores
    <3>2. hist' = hist /\ PendingPages' = PendingPages
      BY <2>4, <3>1, SamePending
    <3>3. CASE Durable' = Durable
      BY <2>2, <3>2, <3>3 DEF Disk!dvars, Contents, Durable
    <3>4. CASE Durable' # Durable
      <4>1. Disk!Sync
        BY <1>1, <2>2, <3>2, <3>4 DEF Disk!Sync, Contents, Durable
      <4> QED
        BY <4>1 DEF Disk!DNext
    <3> QED
      BY <3>3, <3>4
  <2> QED
    BY <2>3, <2>4
<1> QED
  BY <1>2, <1>3, <1>4

\* Power failure is the only way to a recovered drive.
LEMMA OnlyCrash ==
  ASSUME TypeOK, [Next]_vars, pc # "recovered", pc' = "recovered"
  PROVE  CrashAndRecover
<1> USE DEF nand, wbuf, tables, chkpt, loops, gcvars, ghosts
<1>1. ASSUME NEW i, Enqueue(i)
      PROVE  FALSE
  BY <1>1 DEF Enqueue
<1>2. ~WriteStep
  BY <1>1 DEF WriteStep, WritePool, LookupMiss, LookupHit, CleanPool, CleanFound,
     DepFull, Written, EndWrite
<1>3. ~FlushStep
  BY DEF FlushStep, FlushDeps, FlushBank, FlushAgain, FlushDone, TypeOK, Returns
<1>4. ~GcStep
  BY DEF GcStep, GcSkip, GcBegin, GcCopy, GcEnd, GcRound, EndWrite
<1>5. ~ChkptStep
  BY DEF ChkptStep, RecordMapent, RecordTag, PersistMap, EraseMap, EraseLog
<1>6. /\ ~SummaryPage /\ ~PoolStep /\ ~HostFlush /\ ~IdlePool /\ ~Timer
      /\ ~UNCHANGED vars /\ \A c \in WriteCmds : ~HostWrite(c[1], c[2])
  BY DEF SummaryPage, PoolStep, HostFlush, IdlePool, Timer, vars, HostWrite
<1> QED
  BY <1>2, <1>3, <1>4, <1>5, <1>6 DEF Next, FtlStep

\* A recovered drive only serves reads.
LEMMA RecoveredStays ==
  ASSUME [Next]_vars, pc = "recovered"
  PROVE  UNCHANGED vars
BY DEF Next, FtlStep, WriteStep, WritePool, LookupMiss, LookupHit, CleanPool, CleanFound,
   DepFull, Written, FlushStep, FlushDeps, FlushBank, FlushAgain, FlushDone, GcStep,
   GcSkip, GcBegin, GcCopy, GcEnd, GcRound, ChkptStep, RecordMapent, RecordTag,
   PersistMap, EraseMap, EraseLog, SummaryPage, NextProgram, PoolStep, HostWrite,
   HostFlush, IdlePool, Timer, CrashAndRecover

-----------------------------------------------------------------------------
(* The invariant is inductive.                                             *)

LEMMA NextDisk ==
  ASSUME TypeOK, SInv, DInv, [Next]_vars
  PROVE  DInv'
<1>1. TagInv' /\ FlushedInv' /\ MissInv'
  BY NextTag, NextFlushed, NextMiss DEF DInv, BufInv
<1>2. ASSUME CrashAndRecover
      PROVE  OneBuf' /\ CleanStored'
  <2>1. pc' = "recovered" /\ cache' = [b \in Banks |-> [i \in Bufs |-> NoEnt]]
    BY <1>2 DEF CrashAndRecover
  <2>2. OneBuf'
    BY <2>1 DEF OneBuf, NoEnt
  <2> QED
    BY <2>1, <2>2 DEF CleanStored
<1>3. CASE pc = "recovered"
  <2>1. UNCHANGED vars
    BY <1>3, RecoveredStays
  <2>2. OneBuf'
    BY <2>1 DEF vars, wbuf, DInv, BufInv, OneBuf
  <2>3. CleanStored'
    BY <1>3, <2>1 DEF vars, CleanStored
  <2> QED
    BY <1>1, <2>2, <2>3 DEF DInv, BufInv
<1>4. CASE pc # "recovered" /\ pc' = "recovered"
  <2>1. CrashAndRecover
    BY <1>4, OnlyCrash
  <2> QED
    BY <1>1, <1>2, <2>1 DEF DInv, BufInv
<1>5. CASE pc # "recovered" /\ pc' # "recovered"
  <2>1. Stays \/ Stores \/ Buffers
    BY <1>5, DataSteps DEF DInv, BufInv
  <2>2. OneBuf' /\ CleanStored'
    BY <1>5, <2>1, OneBufKept, CleanStoredKept DEF DInv, BufInv, SInv
  <2> QED
    BY <1>1, <2>2 DEF DInv, BufInv
<1> QED
  BY <1>3, <1>4, <1>5

-----------------------------------------------------------------------------
(***************************************************************************)
(* The theorems                                                            *)
(***************************************************************************)

\* As long as nothing runs out, a page is in one buffer, a clean buffer can
\* be given up without loss, and a reclaim puts the new map table in place
\* before it takes the old one and the log away.
THEOREM DiskInvariant == Spec /\ []RoomLeft => []DInv
<1>1. Init => DInv
  <2> SUFFICES ASSUME Init
               PROVE  DInv
    OBVIOUS
  <2>1. /\ cache = [b \in Banks |-> [i \in Bufs |-> NoEnt]]
        /\ pc = "idle" /\ hist = <<>> /\ flushed = 0
    BY DEF Init
  <2>2. OneBuf /\ CleanStored
    BY <2>1 DEF OneBuf, CleanStored, NoEnt
  <2> QED
    BY <2>1, <2>2 DEF DInv, BufInv, MissInv, TagInv, FlushedInv
<1>2. TypeOK /\ SInv /\ DInv /\ [Next]_vars => DInv'
  BY NextDisk
<1> QED
  BY <1>1, <1>2, TypeCorrect, SpaceInvariant, PTL DEF Spec

\* As long as nothing runs out, the firmware is an ordered disk until power
\* fails: a write is issued as a whole, its pages come in one after the other,
\* every page reads as the last write to it while dequeue, garbage collection
\* and checkpoints move the data, and what must survive a power failure only
\* grows, up to the writes issued.
THEOREM ImplementsUntilPowerFails == Spec /\ []RoomLeft => OrderedUntilPowerFails
<1>1. Init => Disk!DInit
  <2> SUFFICES ASSUME Init
               PROVE  Disk!DInit
    OBVIOUS
  <2>1. /\ cache = [b \in Banks |-> [i \in Bufs |-> NoEnt]]
        /\ pgmap = [l \in Lpns |-> NoPpn]
        /\ pc = "idle" /\ hist = <<>> /\ flushed = 0
    BY DEF Init
  <2>2. ASSUME NEW l \in Lpns
        PROVE  ReadView(l) = 0
    <3>1. Hits(l) = {}
      BY <2>1, BankType, LpnNotNone DEF Hits, NoEnt
    <3> QED
      BY <2>1, <3>1 DEF ReadView
  <2>3. PendingPages = {}
    BY <2>1 DEF PendingPages, Writing
  <2> QED
    BY <2>1, <2>2, <2>3 DEF Disk!DInit
<1>2. ASSUME TypeOK, EpochInv, SInv, DInv, DInv', RoomLeft, [Next]_vars
      PROVE  [Disk!DNext \/ pc' = "recovered"]_(Disk!dvars)
  <2>1. CASE pc # "recovered" /\ pc' # "recovered"
    BY <1>2, <2>1, DiskStep DEF DInv, BufInv
  <2>2. CASE pc' = "recovered"
    BY <2>2
  <2>3. CASE pc = "recovered"
    <3>1. UNCHANGED vars
      BY <1>2, <2>3, RecoveredStays
    <3>2. pc' = "recovered"
      BY <2>3, <3>1 DEF vars
    <3> QED
      BY <3>2
  <2> QED
    BY <2>1, <2>2, <2>3
<1>3. IInv => EpochInv
  BY DEF IInv
<1> QED
  BY <1>1, <1>2, <1>3, TypeCorrect, InductiveInvariant, SpaceInvariant, DiskInvariant, PTL
     DEF Spec, OrderedUntilPowerFails
=============================================================================
