-------------------------- MODULE InstallerProofs --------------------------
(***************************************************************************)
(* Proofs about Installer and the firmware of BadBlocks, for every number  *)
(* of banks, planes, blocks and pages, wherever the bad blocks are, and    *)
(* with the faults the constants allow: type correctness; that the log is  *)
(* erased in the blocks it is written in and never runs out of them; that  *)
(* the installer runs with the SDRAM built for; and, as long as no save of *)
(* the scan list was cut off, that the marks of the manufacturer stay and  *)
(* that a drive that starts knows its bad blocks.                          *)
(*                                                                         *)
(* The first part is about the blocks of one bank.  The search of the      *)
(* do-while loops finds the next good block, whether it skips by the       *)
(* bitmap (get_log_blk) or by the valid counts (erase_all_log_blks), so    *)
(* both go through the same blocks, those of the ranks that init_blk_list  *)
(* gave to the log.                                                        *)
(*                                                                         *)
(* AnyInv is the invariant of every reachable state.  Of the log it says   *)
(* that all banks are in the same block, or the next one, at most one page *)
(* apart, and that the pages left are enough for what may be written       *)
(* before the next check.                                                  *)
(*                                                                         *)
(* Safe is the invariant as long as no save was cut off: complete lists in *)
(* the files, in memory and in block zero, and a boot bank that starts     *)
(* only when every bank has its list.  An erase of block zero whose        *)
(* failure is not looked at is the one step that can leave a bootable      *)
(* drive in the middle of an install; FewFaults is what then keeps the     *)
(* drive from being stopped there.                                         *)
(***************************************************************************)
EXTENDS Integers, Installer, FiniteSetTheorems, WellFoundedInduction, TLAPS

\* What \div and % are, in a form the provers use.
LEMMA Quotient ==
  ASSUME NEW n \in Nat, NEW d \in Nat \ {0}
  PROVE  /\ n \div d \in Nat /\ n % d \in 0 .. d - 1
         /\ n = ((n \div d) * d) + (n % d)
<1>1. n \div d \in Int /\ n % d \in 0 .. d - 1 /\ n = (d * (n \div d)) + (n % d)
  OBVIOUS
<1>2. n \div d >= 0
  OBVIOUS
<1> QED BY <1>1, <1>2

\* Nonlinear arithmetic of the constants in a form the provers use.
LEMMA Sizes ==
  /\ NUM_BANKS \in Nat \ {0} /\ PBLKS_PER_BANK \in Nat \ {0}
  /\ PlanesPerVblk \in Nat \ {0} /\ NumFwPages \in Nat \ {0}
  /\ NUM_LOG_BLKS_PER_BANK \in Nat /\ NUM_LOG_BLKS_PER_BANK > 1
  /\ PAGES_PER_VBLK \in Nat /\ PAGES_PER_VBLK > 1
  /\ VBLKS_PER_BANK \in Nat /\ PBLKS_PER_BANK = VBLKS_PER_BANK * PlanesPerVblk
  /\ VBLKS_PER_BANK <= PBLKS_PER_BANK
  /\ Bank = 0 .. NUM_BANKS - 1 /\ 0 \in Bank
<1>1. {NUM_BANKS, PBLKS_PER_BANK, PlanesPerVblk, NumFwPages} \subseteq Nat \ {0}
      /\ NUM_LOG_BLKS_PER_BANK \in Nat
      /\ PAGES_PER_VBLK \in Nat /\ PAGES_PER_VBLK > 1
  BY BadBlocksAssumption DEF BadBlocksConstants
<1>2. (NUM_LOG_BLKS_PER_BANK - 1) * NUM_BANKS >= 3
  BY BadBlocksAssumption DEF BadBlocksConstants
<1>3. NUM_LOG_BLKS_PER_BANK > 1
  <2> SUFFICES ASSUME NUM_LOG_BLKS_PER_BANK - 1 <= 0
               PROVE  FALSE
    BY <1>1
  <2>1. (NUM_LOG_BLKS_PER_BANK - 1) * NUM_BANKS <= 0
    BY <1>1
  <2> QED BY <1>1, <1>2, <2>1
<1>4. PBLKS_PER_BANK % PlanesPerVblk = 0
  BY BadBlocksAssumption DEF BadBlocksConstants
<1>5. VBLKS_PER_BANK \in Nat /\ PBLKS_PER_BANK = VBLKS_PER_BANK * PlanesPerVblk
  <2>1. PBLKS_PER_BANK \in Nat /\ PlanesPerVblk \in Nat \ {0}
    BY <1>1
  <2>2. /\ VBLKS_PER_BANK \in Nat
        /\ PBLKS_PER_BANK = (VBLKS_PER_BANK * PlanesPerVblk) + (PBLKS_PER_BANK % PlanesPerVblk)
    BY <2>1, Quotient DEF VBLKS_PER_BANK
  <2>3. VBLKS_PER_BANK * PlanesPerVblk \in Nat
    BY <2>1, <2>2
  <2> QED BY <1>4, <2>2, <2>3
<1>6. VBLKS_PER_BANK <= PBLKS_PER_BANK
  BY <1>1, <1>5
<1> QED BY <1>1, <1>3, <1>5, <1>6 DEF Bank

\* The least of a set of numbers.
LEMMA Least ==
  ASSUME NEW T \in SUBSET Nat, T # {}
  PROVE  /\ First(T) \in T /\ \A j \in T : First(T) <= j
<1>1. PICK i \in T : \A j \in T : <<j, i>> \notin OpToRel(<, Nat)
  BY WFMin, NatLessThanWellFounded
<1>2. \A j \in T : ~ (j < i)
  BY <1>1 DEF OpToRel
<1>3. \E x \in T : \A j \in T : x <= j
  BY <1>2
<1> QED BY <1>3, Zenon DEF First

-----------------------------------------------------------------------------
(***************************************************************************)
(* The blocks of a bank: the search for the next one, and their ranks.     *)
(***************************************************************************)

\* The do-while loops find the one block that is not skipped.
LEMMA NextBlkFinds ==
  ASSUME NEW v \in Nat, NEW skip, NEW u \in (v + 1) .. VBLKS_PER_BANK,
         u \notin skip, \A x \in (v + 1) .. (u - 1) : x \in skip
  PROVE  NextBlk(v, skip) = u
<1>1. VBLKS_PER_BANK \in Nat
  BY Sizes
<1> DEFINE Is(w) == w \notin skip /\ \A x \in (v + 1) .. (w - 1) : x \in skip
<1>2. Is(u)
  OBVIOUS
<1>3. ASSUME NEW w \in (v + 1) .. VBLKS_PER_BANK, Is(w)
      PROVE  w = u
  <2>1. CASE w < u
    BY <1>1, <1>3, <2>1
  <2>2. CASE u < w
    BY <1>1, <1>3, <2>2
  <2> QED BY <1>1, <2>1, <2>2
<1>4. NextBlk(v, skip) = CHOOSE w \in (v + 1) .. VBLKS_PER_BANK : Is(w)
  BY DEF NextBlk
<1> HIDE DEF Is
<1> QED BY <1>2, <1>3, <1>4

\* A rank is a number, at most the size of the set.
LEMMA RankType ==
  ASSUME NEW S \in SUBSET Nat, IsFiniteSet(S), NEW v
  PROVE  Rank(S, v) \in Nat /\ Rank(S, v) <= Cardinality(S)
<1>1. {w \in S : w <= v} \in SUBSET S
  OBVIOUS
<1>2. IsFiniteSet({w \in S : w <= v})
      /\ Cardinality({w \in S : w <= v}) <= Cardinality(S)
  BY <1>1, FS_Subset
<1> QED BY <1>2, FS_CardinalityType DEF Rank

\* From one number to the next one in the set the rank grows by one.
LEMMA RankStep ==
  ASSUME NEW S \in SUBSET Nat, IsFiniteSet(S), NEW v \in Int, NEW u \in S,
         v < u, \A x \in S : x > v => x >= u
  PROVE  Rank(S, u) = Rank(S, v) + 1
<1> DEFINE low == {w \in S : w <= v}
<1>1. {w \in S : w <= u} = low \cup {u}
  <2>1. \A w \in S : w <= u <=> (w <= v \/ w = u)
    OBVIOUS
  <2> QED BY <2>1
<1>2. IsFiniteSet(low)
  <2>1. low \in SUBSET S
    OBVIOUS
  <2> QED BY <2>1, FS_Subset
<1>3. u \notin low
  OBVIOUS
<1>4. Cardinality(low \cup {u}) = Cardinality(low) + 1
  BY <1>2, <1>3, FS_AddElement
<1> QED BY <1>1, <1>4 DEF Rank

\* Ranks grow with the numbers.
LEMMA RankGrows ==
  ASSUME NEW S \in SUBSET Nat, IsFiniteSet(S), NEW v \in S, NEW u \in S, v < u
  PROVE  Rank(S, v) < Rank(S, u)
<1> DEFINE low == {w \in S : w <= v}
           high == {w \in S : w <= u}
<1>1. low \in SUBSET high /\ u \in high /\ u \notin low
  <2>1. \A w \in S : w <= v => w <= u
    OBVIOUS
  <2>2. u <= u /\ ~ (u <= v)
    OBVIOUS
  <2> QED BY <2>1, <2>2
<1>2. IsFiniteSet(low) /\ IsFiniteSet(high)
  <2>1. low \in SUBSET S /\ high \in SUBSET S
    OBVIOUS
  <2> QED BY <2>1, FS_Subset
<1>3. Cardinality(low) <= Cardinality(high) /\ (Cardinality(high) = Cardinality(low) => high = low)
  BY <1>1, <1>2, FS_Subset
<1>4. Cardinality(low) \in Nat /\ Cardinality(high) \in Nat
  BY <1>2, FS_CardinalityType
<1>5. Cardinality(low) < Cardinality(high)
  BY <1>1, <1>3, <1>4
<1> QED BY <1>5 DEF Rank

\* Every rank up to the size of the set is taken.
LEMMA RankTaken ==
  ASSUME NEW S \in SUBSET Nat, IsFiniteSet(S), NEW k \in 1 .. Cardinality(S)
  PROVE  \E v \in S : Rank(S, v) = k
<1>1. Cardinality(S) \in Nat
  BY FS_CardinalityType
<1> DEFINE Free == {j \in 1 .. Cardinality(S) : \A v \in S : Rank(S, v) # j}
<1> SUFFICES ASSUME Free # {}
             PROVE  FALSE
  OBVIOUS
<1>2. Free \in SUBSET Nat
  BY <1>1
<1>3. PICK j \in Free : \A i \in Free : j <= i
  BY <1>2, Least
<1>4. PICK v \in Int : Rank(S, v) = j - 1
  <2>1. CASE j = 1
    <3>0. \A w \in S : ~ (w <= -1)
      OBVIOUS
    <3>1. {w \in S : w <= -1} = {}
      BY <3>0
    <3>2. Rank(S, -1) = 0
      BY <3>1, FS_EmptySet DEF Rank
    <3> QED BY <2>1, <3>2
  <2>2. CASE j # 1
    <3>1. j - 1 \in 1 .. Cardinality(S) /\ j - 1 \notin Free
      BY <1>1, <1>3, <2>2
    <3>2. \E v \in S : Rank(S, v) = j - 1
      BY <3>1
    <3> QED BY <3>2
  <2> QED BY <2>1, <2>2
<1> DEFINE above == {w \in S : w > v}
<1>5. above # {}
  <2> SUFFICES ASSUME above = {}
               PROVE  FALSE
    OBVIOUS
  <2>0. \A w \in S : w <= v
    OBVIOUS
  <2>1. {w \in S : w <= v} = S
    BY <2>0
  <2>2. Rank(S, v) = Cardinality(S)
    BY <2>1 DEF Rank
  <2> QED BY <1>1, <1>3, <1>4, <2>2
<1>6. PICK u \in above : \A w \in above : u <= w
  <2>1. above \in SUBSET Nat
    OBVIOUS
  <2> QED BY <1>5, <2>1, Least
<1>7. Rank(S, u) = Rank(S, v) + 1
  <2>1. u \in S /\ v < u /\ \A x \in S : x > v => x >= u
    BY <1>6
  <2> QED BY <2>1, RankStep
<1>8. Rank(S, u) = j /\ u \in S
  BY <1>1, <1>3, <1>4, <1>6, <1>7
<1> QED BY <1>3, <1>8

\* The k-th of the blocks of S.
At(S, k) == CHOOSE v \in S : Rank(S, v) = k

\* The member of rank k is the one member of that rank.
LEMMA AtRank ==
  ASSUME NEW S \in SUBSET Nat, IsFiniteSet(S), NEW k \in 1 .. Cardinality(S)
  PROVE  /\ At(S, k) \in S /\ Rank(S, At(S, k)) = k
         /\ \A v \in S : Rank(S, v) = k => v = At(S, k)
<1>1. \E v \in S : Rank(S, v) = k
  BY RankTaken
<1>2. At(S, k) \in S /\ Rank(S, At(S, k)) = k
  BY <1>1 DEF At
<1>3. ASSUME NEW v \in S, Rank(S, v) = k, v # At(S, k)
      PROVE  FALSE
  <2>0. v \in Nat /\ At(S, k) \in Nat
    BY <1>2
  <2>1. v < At(S, k) \/ At(S, k) < v
    BY <1>3, <2>0
  <2>2. Rank(S, v) < Rank(S, At(S, k)) \/ Rank(S, At(S, k)) < Rank(S, v)
    BY <1>2, <2>1, RankGrows
  <2>3. Cardinality(S) \in Nat
    BY FS_CardinalityType
  <2> QED BY <1>2, <1>3, <2>2, <2>3
<1> QED BY <1>2, <1>3

\* Members come in the order of their ranks.
LEMMA AtOrder ==
  ASSUME NEW S \in SUBSET Nat, IsFiniteSet(S),
         NEW j \in 1 .. Cardinality(S), NEW k \in 1 .. Cardinality(S), j < k
  PROVE  At(S, j) < At(S, k)
<1>1. /\ At(S, j) \in S /\ Rank(S, At(S, j)) = j
      /\ At(S, k) \in S /\ Rank(S, At(S, k)) = k
  BY AtRank
<1>2. Cardinality(S) \in Nat
  BY FS_CardinalityType
<1>3. CASE At(S, k) < At(S, j)
  <2>1. Rank(S, At(S, k)) < Rank(S, At(S, j))
    BY <1>1, <1>3, RankGrows
  <2> QED BY <1>1, <1>2, <2>1
<1>4. CASE At(S, k) = At(S, j)
  BY <1>1, <1>2, <1>4
<1>5. At(S, j) \in Nat /\ At(S, k) \in Nat
  BY <1>1
<1> QED BY <1>3, <1>4, <1>5

\* Nothing of the set lies between two of its members that follow each other.
LEMMA AtFollows ==
  ASSUME NEW S \in SUBSET Nat, IsFiniteSet(S),
         NEW k \in 1 .. Cardinality(S), k + 1 \in 1 .. Cardinality(S)
  PROVE  \A x \in S : x > At(S, k) => x >= At(S, k + 1)
<1>1. PICK u : u = At(S, k + 1)
  OBVIOUS
<1>2. At(S, k) \in S /\ Rank(S, At(S, k)) = k /\ u \in S /\ Rank(S, u) = k + 1
  BY <1>1, AtRank
<1> SUFFICES ASSUME NEW x \in S, x > At(S, k), x < u
             PROVE  FALSE
  BY <1>1, <1>2
<1>3. Rank(S, At(S, k)) < Rank(S, x) /\ Rank(S, x) < Rank(S, u)
  BY <1>2, RankGrows
<1>4. Rank(S, x) \in Nat /\ Cardinality(S) \in Nat
  BY RankType, FS_CardinalityType
<1> QED BY <1>2, <1>3, <1>4

\* The blocks a bank can give a role, and when they are enough.
Good(bad) == (2 .. VBLKS_PER_BANK - 1) \ bad
Enough(bad) == Cardinality(Good(bad)) >= 2 + NUM_LOG_BLKS_PER_BANK

\* The good blocks are finitely many numbers.
LEMMA GoodBlks ==
  ASSUME NEW bad
  PROVE  Good(bad) \in SUBSET Nat /\ IsFiniteSet(Good(bad)) /\ Cardinality(Good(bad)) \in Nat
<1>1. Good(bad) \in SUBSET (2 .. VBLKS_PER_BANK - 1)
  BY DEF Good
<1>2. IsFiniteSet(2 .. VBLKS_PER_BANK - 1)
  BY Sizes, FS_Interval
<1>3. IsFiniteSet(Good(bad))
  BY <1>1, <1>2, FS_Subset
<1> QED BY <1>1, <1>3, Sizes, FS_CardinalityType

\* From a good block the search goes to the next good one, whether it skips by
\* the bitmap or by the valid counts.
LEMMA NextGood ==
  ASSUME NEW bad, NEW skip,
         skip \cap (2 .. VBLKS_PER_BANK - 1) = bad \cap (2 .. VBLKS_PER_BANK - 1),
         NEW k \in 1 .. Cardinality(Good(bad)), k + 1 \in 1 .. Cardinality(Good(bad))
  PROVE  NextBlk(At(Good(bad), k), skip) = At(Good(bad), k + 1)
<1>1. PICK S : S = Good(bad)
  OBVIOUS
<1>2. PICK v, u : v = At(S, k) /\ u = At(S, k + 1)
  OBVIOUS
<1>3. S \in SUBSET Nat /\ IsFiniteSet(S) /\ Cardinality(S) \in Nat
  BY <1>1, GoodBlks
<1>4. v \in S /\ u \in S /\ v < u
  BY <1>1, <1>2, <1>3, AtRank, AtOrder
<1>5. \A x \in S : x > v => x >= u
  BY <1>1, <1>2, <1>3, AtFollows
<1>6. S \subseteq 2 .. VBLKS_PER_BANK - 1 /\ VBLKS_PER_BANK \in Nat
  BY <1>1, Sizes DEF Good
<1>7. u \notin skip
  BY <1>1, <1>4, <1>6 DEF Good
<1>8. \A x \in (v + 1) .. (u - 1) : x \in skip
  <2> SUFFICES ASSUME NEW x \in (v + 1) .. (u - 1)
               PROVE  x \in skip
    OBVIOUS
  <2>1. x \in 2 .. VBLKS_PER_BANK - 1 /\ x > v /\ x < u
    BY <1>4, <1>6
  <2>2. x \notin S
    BY <1>5, <2>1, <1>4, <1>6
  <2> QED BY <1>1, <2>1, <2>2 DEF Good
<1>9. v \in Nat /\ u \in (v + 1) .. VBLKS_PER_BANK
  BY <1>4, <1>6
<1>10. NextBlk(v, skip) = u
  BY <1>7, <1>8, <1>9, NextBlkFinds
<1> QED BY <1>1, <1>2, <1>10

LogBlks(bad, n) == {At(Good(bad), k) : k \in 3 .. 2 + n}

\* The first n blocks of the log: the least, the last, the next one.
LEMMA LogEnds ==
  ASSUME NEW bad, Enough(bad), NEW n \in 1 .. NUM_LOG_BLKS_PER_BANK
  PROVE  /\ First(LogBlks(bad, n)) = At(Good(bad), 3)
         /\ Last(LogBlks(bad, n)) = At(Good(bad), 2 + n)
<1>1. PICK S : S = Good(bad)
  OBVIOUS
<1>2. S \in SUBSET Nat /\ IsFiniteSet(S) /\ Cardinality(S) \in Nat
  BY <1>1, GoodBlks
<1>3. n \in Nat /\ n >= 1 /\ 2 + n <= Cardinality(S) /\ 3 .. 2 + n \subseteq 1 .. Cardinality(S)
  BY <1>1, <1>2, Sizes DEF Enough
<1>4. \A k \in 3 .. 2 + n : At(S, k) \in Nat /\ At(S, 3) <= At(S, k) /\ At(S, k) <= At(S, 2 + n)
  <2> SUFFICES ASSUME NEW k \in 3 .. 2 + n
               PROVE  At(S, k) \in Nat /\ At(S, 3) <= At(S, k) /\ At(S, k) <= At(S, 2 + n)
    OBVIOUS
  <2>1. k \in 1 .. Cardinality(S) /\ 3 \in 1 .. Cardinality(S) /\ 2 + n \in 1 .. Cardinality(S)
    BY <1>2, <1>3
  <2>2. At(S, k) \in Nat /\ At(S, 3) \in Nat /\ At(S, 2 + n) \in Nat
    BY <1>2, <2>1, AtRank
  <2>3. 3 < k => At(S, 3) < At(S, k)
    BY <1>2, <2>1, AtOrder
  <2>4. k < 2 + n => At(S, k) < At(S, 2 + n)
    BY <1>2, <2>1, AtOrder
  <2>5. k = 3 \/ 3 < k
    BY <1>3
  <2>6. k = 2 + n \/ k < 2 + n
    BY <1>3
  <2> QED BY <2>2, <2>3, <2>4, <2>5, <2>6
<1>5. 3 \in 3 .. 2 + n /\ 2 + n \in 3 .. 2 + n
  BY <1>3
<1> DEFINE T == {At(S, k) : k \in 3 .. 2 + n}
<1>6. /\ At(S, 3) \in T /\ \A w \in T : At(S, 3) <= w
      /\ At(S, 2 + n) \in T /\ \A w \in T : At(S, 2 + n) >= w
      /\ T \subseteq Nat
  BY <1>4, <1>5
<1> HIDE DEF T
<1>6a. PICK a, z : a = At(S, 3) /\ z = At(S, 2 + n)
  OBVIOUS
<1>6b. a \in T /\ z \in T /\ T \subseteq Nat /\ \A w \in T : a <= w /\ z >= w
  BY <1>6, <1>6a
<1>7. First(T) = At(S, 3)
  <2>1. \A w \in T : (\A x \in T : w <= x) => w = a
    BY <1>6b
  <2> QED BY <1>6a, <1>6b, <2>1 DEF First
<1>8. Last(T) = At(S, 2 + n)
  <2>1. \A w \in T : (\A x \in T : w >= x) => w = z
    BY <1>6b
  <2> QED BY <1>6a, <1>6b, <2>1 DEF Last
<1> QED BY <1>1, <1>7, <1>8 DEF T, LogBlks

\* What init_blk_list gives to the log.
LEMMA RoleOfLog ==
  ASSUME NEW bad, Enough(bad)
  PROVE  /\ Roles(bad).log = LogBlks(bad, NUM_LOG_BLKS_PER_BANK)
         /\ Roles(bad).map \subseteq Good(bad) /\ Roles(bad).log \subseteq Good(bad)
         /\ Roles(bad).data \subseteq Good(bad)
<1>1. PICK S : S = Good(bad)
  OBVIOUS
<1>2. S \in SUBSET Nat /\ IsFiniteSet(S) /\ Cardinality(S) \in Nat
  BY <1>1, GoodBlks
<1>3. 3 .. 2 + NUM_LOG_BLKS_PER_BANK \subseteq 1 .. Cardinality(S)
  BY <1>1, <1>2, Sizes DEF Enough
<1>4. /\ Roles(bad).log = {v \in S : Rank(S, v) \in 3 .. 2 + NUM_LOG_BLKS_PER_BANK}
      /\ Roles(bad).map \subseteq S /\ Roles(bad).log \subseteq S /\ Roles(bad).data \subseteq S
  BY <1>1 DEF Roles, Good
<1>5. \A k \in 3 .. 2 + NUM_LOG_BLKS_PER_BANK :
        /\ At(S, k) \in S /\ Rank(S, At(S, k)) = k
        /\ \A v \in S : Rank(S, v) = k => v = At(S, k)
  BY <1>2, <1>3, AtRank
<1>6. {v \in S : Rank(S, v) \in 3 .. 2 + NUM_LOG_BLKS_PER_BANK}
        = {At(S, k) : k \in 3 .. 2 + NUM_LOG_BLKS_PER_BANK}
  BY <1>5
<1> QED BY <1>1, <1>4, <1>6 DEF LogBlks

\* The step of erase_all_log_blks after the blocks S of a bank.
ErasedWith(b, n, S) ==
  IF n = 0 THEN {}
  ELSE IF n = 1 THEN {First(role[b].log)}
  ELSE S \cup {NextBlk(Last(S), vcmax[b])}

\* What the firmware knows of the blocks of a bank while it runs.
BlksKnown(b) ==
  /\ Enough(bmp[b])
  /\ role[b] = Roles(bmp[b])
  /\ vcmax[b] \cap (2 .. VBLKS_PER_BANK - 1) = bmp[b] \cap (2 .. VBLKS_PER_BANK - 1)

\* erase_all_log_blks goes from the first block of the log, by the valid
\* counts, to those that init_blk_list found by the bitmap.
LEMMA ErasesTheLog ==
  ASSUME \A b \in Bank : BlksKnown(b)
  PROVE  \A b \in Bank : LogErased(b) = role[b].log
<1> DEFINE N == NUM_LOG_BLKS_PER_BANK
           F == [n \in 0 .. N |-> [b \in Bank |-> LogBlks(bmp[b], n)]]
<1>1. \A b \in Bank : \A n \in 0 .. N :
        LogBlks(bmp[b], n) = ErasedWith(b, n, LogBlks(bmp[b], n - 1))
  <2> SUFFICES ASSUME NEW b \in Bank, NEW n \in 0 .. N
               PROVE  LogBlks(bmp[b], n) = ErasedWith(b, n, LogBlks(bmp[b], n - 1))
    OBVIOUS
  <2>1. CASE n = 0
    <3>1. 3 .. 2 + n = {}
      BY <2>1
    <3> QED BY <2>1, <3>1 DEF ErasedWith, LogBlks
  <2>2. CASE n = 1
    <3>1. 3 .. 2 + n = {3}
      BY <2>2
    <3>2. role[b].log = LogBlks(bmp[b], N) /\ Enough(bmp[b])
      BY RoleOfLog DEF BlksKnown
    <3>3. N \in 1 .. N
      BY Sizes
    <3>4. First(role[b].log) = At(Good(bmp[b]), 3)
      BY <3>2, <3>3, LogEnds
    <3> QED BY <2>2, <3>1, <3>4 DEF ErasedWith, LogBlks
  <2>3. CASE n # 0 /\ n # 1
    <3>1. n \in Nat /\ n - 1 \in 1 .. N /\ 2 + (n - 1) = n + 1 /\ N \in Nat
      BY <2>3, Sizes
    <3>2. Enough(bmp[b])
      BY DEF BlksKnown
    <3>3. Last(LogBlks(bmp[b], n - 1)) = At(Good(bmp[b]), n + 1)
      BY <3>1, <3>2, LogEnds
    <3>4. PICK c : c = Cardinality(Good(bmp[b]))
      OBVIOUS
    <3>5. c \in Nat /\ c >= 2 + N
      BY <3>2, <3>4, GoodBlks DEF Enough
    <3>6. n + 1 \in 1 .. c /\ (n + 1) + 1 \in 1 .. c
      BY <3>1, <3>5
    <3>7. vcmax[b] \cap (2 .. VBLKS_PER_BANK - 1) = bmp[b] \cap (2 .. VBLKS_PER_BANK - 1)
      BY DEF BlksKnown
    <3>8. NextBlk(At(Good(bmp[b]), n + 1), vcmax[b]) = At(Good(bmp[b]), (n + 1) + 1)
      BY <3>4, <3>6, <3>7, NextGood
    <3>9. 3 .. 2 + n = (3 .. 2 + (n - 1)) \cup {(n + 1) + 1}
      BY <3>1
    <3> QED BY <2>3, <3>3, <3>8, <3>9 DEF ErasedWith, LogBlks
  <2> QED BY <2>1, <2>2, <2>3
<1>2. F = [n \in 0 .. N |-> [b \in Bank |-> ErasedWith(b, n, F[n - 1][b])]]
  <2> SUFFICES ASSUME NEW b \in Bank, NEW n \in 0 .. N
               PROVE  LogBlks(bmp[b], n) = ErasedWith(b, n, F[n - 1][b])
    OBVIOUS
  <2>1. CASE n \in {0, 1}
    BY <1>1, <2>1 DEF ErasedWith
  <2>2. CASE n \notin {0, 1}
    <3>1. n - 1 \in 0 .. N
      BY <2>2, Sizes
    <3>2. F[n - 1][b] = LogBlks(bmp[b], n - 1)
      BY <3>1
    <3> QED BY <1>1, <3>2
  <2> QED BY <2>1, <2>2
<1>3. LogErase = [n \in 0 .. N |-> [b \in Bank |-> ErasedWith(b, n, LogErase[n - 1][b])]]
  BY <1>2, Zenon DEF LogErase, ErasedWith
<1>4. \A b \in Bank : \A n \in 0 .. N : LogErase[n][b] = ErasedWith(b, n, LogErase[n - 1][b])
  <2> SUFFICES ASSUME NEW b \in Bank, NEW n \in 0 .. N
               PROVE  LogErase[n][b] = ErasedWith(b, n, LogErase[n - 1][b])
    OBVIOUS
  <2> DEFINE G(m) == [c \in Bank |-> ErasedWith(c, m, LogErase[m - 1][c])]
  <2>1. LogErase = [m \in 0 .. N |-> G(m)]
    BY <1>3
  <2> HIDE DEF G
  <2>2. LogErase[n] = G(n)
    BY <2>1
  <2> QED BY <2>2 DEF G
<1>5. \A b \in Bank : \A n \in 0 .. N : LogErase[n][b] = LogBlks(bmp[b], n)
  <2> SUFFICES ASSUME NEW b \in Bank
               PROVE  \A n \in 0 .. N : LogErase[n][b] = LogBlks(bmp[b], n)
    OBVIOUS
  <2> DEFINE Off == {n \in 0 .. N : LogErase[n][b] # LogBlks(bmp[b], n)}
  <2> SUFFICES ASSUME Off # {}
               PROVE  FALSE
    OBVIOUS
  <2>1. Off \in SUBSET Nat /\ N \in Nat
    BY Sizes
  <2>2. PICK n \in Off : \A m \in Off : n <= m
    BY <2>1, Least
  <2>3. n \in 0 .. N /\ LogErase[n][b] # LogBlks(bmp[b], n)
    OBVIOUS
  <2>4. CASE n = 0
    BY <1>1, <1>4, <2>3, <2>4 DEF ErasedWith
  <2>5. CASE n # 0
    <3>1. n - 1 \in 0 .. N /\ n - 1 \notin Off
      BY <2>1, <2>2, <2>3, <2>5
    <3>2. LogErase[n - 1][b] = LogBlks(bmp[b], n - 1)
      BY <3>1
    <3> QED BY <1>1, <1>4, <2>3, <3>2
  <2> QED BY <2>4, <2>5
<1>6. N \in 0 .. N
  BY Sizes
<1>7. \A b \in Bank : LogErased(b) = LogBlks(bmp[b], N)
  BY <1>5, <1>6 DEF LogErased
<1>8. \A b \in Bank : role[b].log = LogBlks(bmp[b], N)
  BY RoleOfLog DEF BlksKnown
<1> QED BY <1>7, <1>8

-----------------------------------------------------------------------------
(***************************************************************************)
(* The invariant.                                                          *)
(***************************************************************************)

ListOf(S)      == [num |-> Cardinality(S), list |-> S]
ListPageOf(S)  == Page("list", "normal", ListOf(S))
Lists(b)       == {ListOf(S) : S \in SUBSET defects[b]}
InstallPlaces  == {"erase", "lists", "compare", "fill", "stamp", "image"}
Places         == {"idle", "init", "scan", "mkdir", "save", "load", "install"} \cup InstallPlaces

ListType == [num : Nat, list : SUBSET Entry]
PageType == [kind : {"blank", "torn", "list", "fill", "stamp", "fw", "mark"},
             ecc : {"normal", "strong"}, list : ListType]
RoleType == [map : SUBSET VBlk, log : SUBSET VBlk, data : SUBSET VBlk]

NandType ==
  /\ defects \in DefectChoices
  /\ marks \in [Bank -> SUBSET Entry] /\ \A b \in Bank : marks[b] \subseteq defects[b]
  /\ blk0 \in [Bank -> [BlockZero -> PageType]]

FwType ==
  /\ mode \in {"off", "open", "run", "stuck"}
  /\ bmp \in [Bank -> SUBSET VBlk] /\ vcmax \in [Bank -> SUBSET VBlk]
  /\ role \in [Bank -> RoleType]
  /\ blk_log \in [Bank -> Nat] /\ log_ppn \in [Bank -> Nat \X Nat]
  /\ log_blk_cnt \in Int /\ bank_active \in Bank /\ used \in Nat

ProgType ==
  /\ hc \in [up : BOOLEAN, loaded : BOOLEAN, lists : [Bank -> ListType]]
  /\ filled \subseteq Bank /\ pc \in Places /\ bank \in Bank /\ cmd \in {0, 1}
  /\ ecc \in {"normal", "strong"}
  /\ files \in [Bank -> [state : {"absent", "short", "saved"}, list : ListType]]
  /\ dir \in BOOLEAN /\ sdram \in {16, 32, 64} /\ faults \in Nat /\ faults <= MaxFaults

TypeOK == NandType /\ FwType /\ ProgType

\* Whatever the installer keeps of a bank are entries for defects of that bank.
ListInv ==
  \A b \in Bank :
    /\ hc.lists[b] \in Lists(b) /\ files[b].list \in Lists(b)
    /\ blk0[b][SCAN_LIST_PAGE_OFFSET]
         \in {Blank, Torn} \cup {Page("list", "normal", l) : l \in Lists(b)}

\* What the firmware has found out of the blocks, once it has started.
FwInv ==
  mode # "off" => \A b \in Bank :
    /\ bmp[b] \subseteq BadVBlks(b, defects[b])
    /\ role[b] = Roles(bmp[b])
    /\ mode = "run" =>
         vcmax[b] \cap (2 .. VBLKS_PER_BANK - 1) = bmp[b] \cap (2 .. VBLKS_PER_BANK - 1)

\* The banks go through their log blocks in step.  k is the block, counted from
\* zero, in which the last bank writes, and p the page.
LogBlk(b, k) == At(Good(bmp[b]), 3 + k)
PagesLeft(k, p) ==
  ((NUM_LOG_BLKS_PER_BANK - 1 - k) * (NUM_BANKS * (PAGES_PER_VBLK - 1)))
    + (NUM_BANKS * (PAGES_PER_VBLK - 1 - p)) - bank_active

LogAt(k, p) ==
  /\ \A b \in Bank : log_ppn[b] =
       IF b >= bank_active THEN <<LogBlk(b, k), p>>
       ELSE IF p < PAGES_PER_VBLK - 1 THEN <<LogBlk(b, k), p + 1>>
       ELSE <<LogBlk(b, k + 1), 1>>
  /\ p = PAGES_PER_VBLK - 1 /\ k = NUM_LOG_BLKS_PER_BANK - 1 => bank_active = 0
  /\ log_blk_cnt = ((NUM_LOG_BLKS_PER_BANK - 1 - k) * NUM_BANKS)
                     - (IF p < PAGES_PER_VBLK - 1 THEN 0 ELSE bank_active)
  /\ used + PagesLeft(k, p) >= EpochPages

LogInv ==
  mode # "off" =>
    /\ mode # "stuck"
    /\ \A b \in Bank : blk_log[b] = NextBlk(log_ppn[b][1], bmp[b])
    /\ \E k \in 0 .. NUM_LOG_BLKS_PER_BANK - 1, p \in 0 .. PAGES_PER_VBLK - 1 : LogAt(k, p)

\* The files are written once, before anything is installed.
OrderInv ==
  /\ pc # "idle" => mode = "off" /\ sdram = DRAM_SIZE
  /\ ~dir => \A b \in Bank : files[b].state = "absent"
  /\ pc = "save" => dir /\ \A b \in Bank :
       files[b].state = IF b < bank THEN "saved" ELSE "absent"
  /\ pc \in {"load", "install"} /\ hc.loaded => dir
  /\ pc \in {"init", "scan"} => ~hc.loaded /\ hc.lists = NoHc.lists
  /\ pc \in InstallPlaces => dir
  /\ ~dir \/ pc = "save" => mode = "off" /\ blk0 = [b \in Bank |-> [pg \in BlockZero |-> Blank]]

AnyInv == TypeOK /\ ListInv /\ FwInv /\ LogInv /\ OrderInv

-----------------------------------------------------------------------------
\* What holds as long as no save was cut off: the complete list of a bank.
Full(b) == ListOf(defects[b])
HasList(b) == blk0[b][SCAN_LIST_PAGE_OFFSET] = ListPageOf(defects[b])
AllLists == \A b \in Bank : HasList(b)

\* The lists in the files and in memory name every defect.
FullInv ==
  \A b \in Bank :
    /\ files[b].state = "saved" => files[b].list = Full(b)
    /\ pc \in {"mkdir", "install"} /\ hc.loaded => hc.lists[b] = Full(b)
    /\ pc \in InstallPlaces \cup {"save"} => hc.lists[b] = Full(b)
    /\ pc = "load" /\ b < bank => hc.lists[b] = Full(b)
    /\ blk0[b][SCAN_LIST_PAGE_OFFSET] \in {Blank, Torn, ListPageOf(defects[b])}
    /\ mode # "off" => BadVBlks(b, defects[b]) \ {0} \subseteq bmp[b]

\* The erase of the boot bank has failed, and nothing else may fail any more.
EraseFailed ==
  /\ faults = MaxFaults
  /\ \A b \in Bank : blk0[b][SCAN_LIST_PAGE_OFFSET] \in {Blank, ListPageOf(defects[b])}
  /\ \A b \in Bank : pc = "compare" \/ (pc = "lists" /\ b < bank) => HasList(b)

\* A boot bank that starts goes with a list in every bank, but between the
\* erase of block zero and the comparison of the lists after an erase that failed.
BootInv ==
  /\ faults = 0 => \A b \in Bank :
       blk0[b][SCAN_LIST_PAGE_OFFSET] \in {Blank, ListPageOf(defects[b])}
  /\ pc \in {"fill", "stamp", "image"} => AllLists
  /\ Bootable =>
       IF pc \in {"lists", "compare"} \/ (pc = "erase" /\ bank > 0)
         THEN EraseFailed ELSE AllLists

\* Everything that holds but for a save that was cut off.
Safe == marks = defects /\ FullInv /\ BootInv

\* erase_flash returns OK whatever became of the erase (installer.c:913): when
\* one may fail, at most one step fails.
FewFaults == MaxFaults \in Nat /\ ("erase" \in FaultKinds => MaxFaults <= 1)

-----------------------------------------------------------------------------
(***************************************************************************)
(* What the definitions come to.                                           *)
(***************************************************************************)

\* A physical block belongs to the one vblk the division gives.
LEMMA BlkOf ==
  ASSUME NEW x \in PBlk
  PROVE  /\ x \div PlanesPerVblk \in VBlk
         /\ \A v \in VBlk : x \in Planes(v) <=> v = x \div PlanesPerVblk
<1>1. PICK d \in Nat \ {0} : d = PlanesPerVblk
  BY Sizes
<1>2. PICK n \in Nat : n = VBLKS_PER_BANK
  BY Sizes
<1>3. x \in Nat /\ x < n * d
  BY <1>1, <1>2, Sizes DEF PBlk
<1>4. PICK q \in Nat, r \in 0 .. d - 1 : q = x \div d /\ x = (q * d) + r
  BY <1>3, Quotient
<1>5. q < n
  <2> SUFFICES ASSUME q >= n
               PROVE  FALSE
    OBVIOUS
  <2>1. q * d >= n * d
    BY <1>1, <1>2, <1>4
  <2>2. q * d \in Nat /\ n * d \in Nat
    BY <1>1, <1>2, <1>4
  <2> QED BY <1>3, <1>4, <2>1, <2>2
<1>6. ASSUME NEW v \in Nat, NEW p \in 0 .. d - 1, x = (v * d) + p
      PROVE  v = q
  <2>1. v * d \in Nat /\ q * d \in Nat
    BY <1>1, <1>4
  <2>2. CASE v < q
    <3>1. (v + 1) * d <= q * d /\ (v + 1) * d = (v * d) + d
      BY <2>2
    <3> QED BY <1>4, <1>6, <2>1, <3>1
  <2>3. CASE q < v
    <3>1. (q + 1) * d <= v * d /\ (q + 1) * d = (q * d) + d
      BY <2>3
    <3> QED BY <1>4, <1>6, <2>1, <3>1
  <2> QED BY <2>2, <2>3
<1>7. x \in Planes(q)
  BY <1>1, <1>4 DEF Planes
<1>8. \A v \in VBlk : x \in Planes(v) => v = q
  BY <1>1, <1>6 DEF Planes, VBlk
<1> QED BY <1>1, <1>2, <1>4, <1>5, <1>7, <1>8 DEF VBlk

\* A drive leaves the factory with good blocks enough, and block zero among them.
LEMMA DefectsUsable ==
  ASSUME defects \in DefectChoices, NEW b \in Bank
  PROVE  /\ defects[b] \in SUBSET Entry /\ IsFiniteSet(defects[b])
         /\ Cardinality(defects[b]) \in Nat /\ Cardinality(defects[b]) <= SCAN_LIST_ITEMS
         /\ \A e \in defects[b] : e[1] > 0 /\ e[1] < PBLKS_PER_BANK
         /\ Enough(BadVBlks(b, defects[b]))
<1>1. /\ DefectChoices \subseteq [Bank -> SUBSET Entry]
      /\ \A ds \in DefectChoices, c \in Bank : Usable(c, ds[c])
  BY BadBlocksAssumption DEF BadBlocksConstants
<1>2. defects[b] \in SUBSET Entry /\ Usable(b, defects[b])
  BY <1>1
<1>3. IsFiniteSet(Entry)
  <2>1. IsFiniteSet(PBlk)
    BY Sizes, FS_Interval DEF PBlk
  <2>2. IsFiniteSet(Chip)
    <3>1. Chip = {"high"} \cup {"low"}
      BY DEF Chip
    <3>2. IsFiniteSet({"high"}) /\ IsFiniteSet({"low"})
      BY FS_Singleton
    <3> QED BY <3>1, <3>2, FS_Union
  <2> QED BY <2>1, <2>2, FS_Product DEF Entry
<1>4. IsFiniteSet(defects[b])
  BY <1>2, <1>3, FS_Subset
<1>5. \A e \in defects[b] : e[1] > 0 /\ e[1] < PBLKS_PER_BANK
  <2>1. \A e \in Entry : e[1] \in PBlk
    BY DEF Entry
  <2> QED BY <1>2, <2>1, Sizes DEF Usable, PBlk
<1>6. Enough(BadVBlks(b, defects[b]))
  BY <1>2 DEF Usable, Enough, Good
<1> QED BY <1>2, <1>4, <1>5, <1>6, FS_CardinalityType DEF Usable

\* Whatever part of the bad blocks is known, every role has its blocks.
LEMMA EnoughGood ==
  ASSUME defects \in DefectChoices, NEW b \in Bank, NEW bad \in SUBSET BadVBlks(b, defects[b])
  PROVE  Enough(bad)
<1>1. PICK S : S = BadVBlks(b, defects[b])
  OBVIOUS
<1>2. Enough(S) /\ bad \subseteq S
  BY <1>1, DefectsUsable
<1>3. Good(S) \in SUBSET Good(bad)
  BY <1>2 DEF Good
<1>4. /\ IsFiniteSet(Good(bad)) /\ Cardinality(Good(bad)) \in Nat
      /\ Cardinality(Good(S)) \in Nat
  BY GoodBlks
<1>5. Cardinality(Good(S)) <= Cardinality(Good(bad))
  BY <1>3, <1>4, FS_Subset
<1> QED BY <1>2, <1>4, <1>5, Sizes DEF Enough

\* A list of defects has the type of a list.
LEMMA ListsTyped ==
  ASSUME defects \in DefectChoices, NEW b \in Bank
  PROVE  /\ NoList \in Lists(b) /\ Lists(b) \subseteq ListType
         /\ Full(b) \in Lists(b)
<1>1. defects[b] \in SUBSET Entry /\ IsFiniteSet(defects[b])
  BY DefectsUsable
<1>2. NoList = ListOf({})
  BY FS_EmptySet DEF NoList, ListOf
<1>3. ASSUME NEW S \in SUBSET defects[b]
      PROVE  ListOf(S) \in ListType
  <2>1. IsFiniteSet(S)
    BY <1>1, FS_Subset
  <2>2. Cardinality(S) \in Nat
    BY <2>1, FS_CardinalityType
  <2> QED BY <1>1, <2>2 DEF ListOf, ListType
<1> QED BY <1>2, <1>3 DEF Lists, Full

\* The blocks build_bad_blk_list takes from the page of a list.
LEMMA ScannedOfList ==
  ASSUME defects \in DefectChoices, NEW b \in Bank, NEW S \in SUBSET defects[b]
  PROVE  ScannedBad(ListPageOf(S)) = {v \in VBlk \ {0} : \E e \in S : e[1] \in Planes(v)}
<1>1. /\ IsFiniteSet(defects[b]) /\ Cardinality(defects[b]) \in Nat
      /\ Cardinality(defects[b]) <= SCAN_LIST_ITEMS
      /\ \A e \in defects[b] : e[1] > 0 /\ e[1] < PBLKS_PER_BANK
  BY DefectsUsable
<1>2. Cardinality(S) <= Cardinality(defects[b]) /\ IsFiniteSet(S)
  BY <1>1, FS_Subset
<1>3. Cardinality(S) \in Nat /\ SCAN_LIST_ITEMS \in Nat
  BY <1>2, FS_CardinalityType, BadBlocksAssumption DEF BadBlocksConstants
<1> DEFINE pg == ListPageOf(S)
<1>4. /\ pg.kind = "list" /\ pg.ecc = "normal"
      /\ pg.list.num = Cardinality(S) /\ pg.list.list = S
  BY DEF ListPageOf, Page, ListOf
<1> HIDE DEF pg
<1>5. ScanListRead(pg) = pg.list /\ ~Corrupted(pg)
  BY <1>4 DEF ScanListRead, Corrupted
<1>6. Trusted(pg)
  BY <1>1, <1>2, <1>3, <1>4, <1>5 DEF Trusted
<1>7. ScannedBad(pg) = {v \in VBlk \ {0} : \E e \in S : e[1] \in Planes(v)}
  BY <1>4, <1>5, <1>6 DEF ScannedBad
<1> QED BY <1>7 DEF pg

\* A page that holds no list has no block: the number that the search still
\* sees is none of a block.
LEMMA ScannedOfNone ==
  ScannedBad(Blank) = {} /\ ScannedBad(Torn) = {}
<1>1. /\ SCAN_LIST_ITEMS \in Nat /\ SCAN_LIST_ITEMS < 65535 /\ PBLKS_PER_BANK <= 32768
      /\ PBLKS_PER_BANK \in Nat
  BY Sizes, BadBlocksAssumption DEF BadBlocksConstants
<1>2. \A v \in VBlk : \A x \in Planes(v) : x \in PBlk /\ (x = 0 => v = 0)
  <2> SUFFICES ASSUME NEW v \in VBlk, NEW x \in Planes(v)
               PROVE  x \in PBlk /\ (x = 0 => v = 0)
    OBVIOUS
  <2>1. PICK d \in Nat \ {0} : d = PlanesPerVblk
    BY Sizes
  <2>2. PICK n \in Nat : n = VBLKS_PER_BANK
    BY Sizes
  <2>3. PICK p \in 0 .. d - 1 : x = (v * d) + p
    BY <2>1 DEF Planes
  <2>4. v \in Nat /\ v + 1 <= n
    BY <2>2 DEF VBlk
  <2>5. (v + 1) * d <= n * d /\ (v + 1) * d = (v * d) + d /\ v * d \in Nat
    BY <2>4
  <2>6. v > 0 => v * d > 0
    BY <2>4
  <2>7. PBLKS_PER_BANK = n * d
    BY <2>1, <2>2, Sizes
  <2> QED BY <2>3, <2>4, <2>5, <2>6, <2>7 DEF PBlk
<1>3. \A v \in VBlk \ {0} : 65535 \notin Planes(v) /\ 0 \notin Planes(v)
  BY <1>1, <1>2 DEF PBlk
<1>4. /\ Blank.kind = "blank"
      /\ Torn.kind = "torn" /\ Torn.list.num = 0
  BY DEF Blank, Torn, Page, NoList
<1>5. /\ ScanListRead(Blank).num = 65535 /\ ScanListRead(Torn).num = 0
      /\ Corrupted(Torn)
  BY <1>4 DEF ScanListRead, Corrupted
<1>6. ~Trusted(Blank) /\ ~Trusted(Torn)
  BY <1>1, <1>5 DEF Trusted
<1>7. /\ \A v \in VBlk \ {0} : ScanListRead(Blank).num \notin Planes(v)
      /\ \A v \in VBlk \ {0} : ScanListRead(Torn).num \notin Planes(v)
  BY <1>3, <1>5
<1>8. /\ ScannedBad(Blank) = {v \in VBlk \ {0} : ScanListRead(Blank).num \in Planes(v)}
      /\ ScannedBad(Torn) = {v \in VBlk \ {0} : ScanListRead(Torn).num \in Planes(v)}
  BY <1>6 DEF ScannedBad
<1> QED BY <1>7, <1>8

\* What the firmware takes for bad blocks are defects.
LEMMA FoundAreBad ==
  ASSUME NandType, ListInv, NEW b \in Bank
  PROVE  BuildBadBlkList(b) \in SUBSET BadVBlks(b, defects[b])
<1>1. defects \in DefectChoices
  BY DEF NandType
<1>2. PICK pg : pg = blk0[b][SCAN_LIST_PAGE_OFFSET]
  OBVIOUS
<1>3. pg \in {Blank, Torn} \/ \E S \in SUBSET defects[b] : pg = ListPageOf(S)
  BY <1>2 DEF ListInv, Lists, ListPageOf
<1>4. ScannedBad(pg) \subseteq BadVBlks(b, defects[b])
  <2>1. CASE pg \in {Blank, Torn}
    BY <2>1, ScannedOfNone
  <2>2. ASSUME NEW S \in SUBSET defects[b], pg = ListPageOf(S)
        PROVE  ScannedBad(pg) \subseteq BadVBlks(b, defects[b])
    BY <1>1, <2>2, ScannedOfList DEF BadVBlks
  <2> QED BY <1>3, <2>1, <2>2
<1> QED BY <1>2, <1>4 DEF BuildBadBlkList, BadVBlks

\* With a complete list in block zero it finds them all.
LEMMA AllAreFound ==
  ASSUME defects \in DefectChoices, NEW b \in Bank, HasList(b)
  PROVE  BadVBlks(b, defects[b]) \ {0} \subseteq BuildBadBlkList(b)
<1>1. ScannedBad(ListPageOf(defects[b])) =
         {v \in VBlk \ {0} : \E e \in defects[b] : e[1] \in Planes(v)}
  BY ScannedOfList
<1> QED BY <1>1 DEF HasList, BuildBadBlkList, BadVBlks

-----------------------------------------------------------------------------
(***************************************************************************)
(* The firmware: erases, the search for a block, and the log.              *)
(***************************************************************************)

\* An erase of good blocks loses no mark, when the bad ones are known.
LEMMA ErasesNoBad ==
  ASSUME NandType, NEW b \in Bank, NEW bad, BadVBlks(b, defects[b]) \ {0} \subseteq bad,
         NEW S \in SUBSET (VBlk \ {0}), S \cap bad = {}
  PROVE  Erased(b, S) = marks[b]
<1>1. marks[b] \subseteq defects[b] /\ defects[b] \subseteq Entry
  BY DefectsUsable DEF NandType
<1>2. ASSUME NEW e \in marks[b], e \in (UNION {Planes(v) : v \in S}) \X Chip
      PROVE  FALSE
  <2>1. PICK v \in S : e[1] \in Planes(v)
    BY <1>2
  <2>2. v \in BadVBlks(b, defects[b])
    BY <1>1, <2>1 DEF BadVBlks
  <2> QED BY <2>2
<1> QED BY <1>2 DEF Erased

\* The search ends at the last block or behind it.
LEMMA NextBlkType ==
  ASSUME NEW v \in VBlk, NEW skip \in SUBSET VBlk
  PROVE  NextBlk(v, skip) \in (v + 1) .. VBLKS_PER_BANK
<1>1. VBLKS_PER_BANK \in Nat /\ VBLKS_PER_BANK \notin VBlk /\ v \in Nat
  BY Sizes DEF VBlk
<1> DEFINE T == {w \in (v + 1) .. VBLKS_PER_BANK : w \notin skip}
<1>2. T \in SUBSET Nat /\ VBLKS_PER_BANK \in T
  BY <1>1 DEF VBlk
<1>3. PICK u \in T : \A w \in T : u <= w
  BY <1>2, Least
<1>4. \A x \in (v + 1) .. (u - 1) : x \in skip
  BY <1>1, <1>2, <1>3
<1>5. NextBlk(v, skip) = u
  BY <1>1, <1>3, <1>4, NextBlkFinds
<1> QED BY <1>5

\* The blocks of the log, one after the other.
LEMMA LogBlkType ==
  ASSUME defects \in DefectChoices, NEW b \in Bank, NEW bad \in SUBSET BadVBlks(b, defects[b]),
         NEW k \in 0 .. NUM_LOG_BLKS_PER_BANK - 1
  PROVE  /\ At(Good(bad), 3 + k) \in VBlk
         /\ At(Good(bad), 3 + k) <= Last(Roles(bad).log)
         /\ k + 1 < NUM_LOG_BLKS_PER_BANK =>
              NextBlk(At(Good(bad), 3 + k), bad) = At(Good(bad), 3 + (k + 1))
<1>1. PICK S : S = Good(bad)
  OBVIOUS
<1>2. PICK N \in Nat : N = NUM_LOG_BLKS_PER_BANK /\ N > 1
  BY Sizes
<1>3. Enough(bad)
  BY EnoughGood
<1>4. S \in SUBSET Nat /\ IsFiniteSet(S) /\ Cardinality(S) \in Nat /\ Cardinality(S) >= 2 + N
  BY <1>1, <1>2, <1>3, GoodBlks DEF Enough
<1>5. PICK j \in Nat : j = 3 + k
  BY <1>2
<1>6. j \in 1 .. Cardinality(S) /\ 2 + N \in 1 .. Cardinality(S) /\ j <= 2 + N
  BY <1>2, <1>4, <1>5
<1>7. At(S, j) \in S /\ At(S, 2 + N) \in S
  BY <1>4, <1>6, AtRank
<1>8. At(S, j) <= At(S, 2 + N)
  <2>1. PICK m \in 1 .. Cardinality(S) : m = 2 + N
    BY <1>6
  <2>2. PICK a \in Nat, z \in Nat : a = At(S, j) /\ z = At(S, m)
    BY <1>4, <1>7, <2>1
  <2>3. j < m => a < z
    BY <1>4, <1>6, <2>2, AtOrder
  <2>4. j = m => a = z
    BY <2>2
  <2>5. a <= z
    BY <1>6, <2>1, <2>3, <2>4
  <2> QED BY <2>1, <2>2, <2>5
<1>9. Last(Roles(bad).log) = At(S, 2 + N)
  <2>1. N \in 1 .. NUM_LOG_BLKS_PER_BANK
    BY <1>2
  <2> QED BY <1>1, <1>2, <1>3, <2>1, RoleOfLog, LogEnds
<1>10. S \subseteq VBlk
  BY <1>1, Sizes DEF Good, VBlk
<1>11. ASSUME k + 1 < NUM_LOG_BLKS_PER_BANK
       PROVE  NextBlk(At(S, j), bad) = At(S, j + 1)
  <2>1. j + 1 \in 1 .. Cardinality(S)
    BY <1>2, <1>4, <1>5, <1>11
  <2> QED BY <1>1, <1>6, <2>1, NextGood
<1>12. j + 1 = 3 + (k + 1)
  BY <1>2, <1>5
<1> QED BY <1>1, <1>5, <1>7, <1>8, <1>9, <1>10, <1>11, <1>12

\* The log after a start, or after a reclaim.
LogStart ==
  /\ defects \in DefectChoices /\ mode \in {"open", "run"}
  /\ \A b \in Bank :
       /\ bmp[b] \in SUBSET VBlk /\ bmp[b] \in SUBSET BadVBlks(b, defects[b])
       /\ role[b] = Roles(bmp[b])
       /\ log_ppn[b] = <<First(role[b].log), 0>>
       /\ blk_log[b] = NextBlk(First(role[b].log), bmp[b])
  /\ log_blk_cnt = NUM_LOG_BLKS_PER_BANK * NUM_BANKS - NUM_BANKS
  /\ bank_active = 0 /\ used = 0

LogTyped ==
  /\ \A b \in Bank : blk_log[b] \in Nat /\ log_ppn[b] \in Nat \X Nat
  /\ log_blk_cnt \in Int /\ bank_active \in Bank /\ used \in Nat

\* With the log as init_pgmap or the end of reclaim leave it, all pages are left.
LEMMA LogStarts ==
  LogStart => LogInv /\ LogTyped
<1> SUFFICES ASSUME LogStart
             PROVE  LogInv /\ LogTyped
  OBVIOUS
<1> USE DEF LogStart
<1>1. PICK N \in Nat, B \in Nat \ {0}, P \in Nat :
        /\ N = NUM_LOG_BLKS_PER_BANK /\ B = NUM_BANKS /\ P = PAGES_PER_VBLK
        /\ N > 1 /\ P > 1
  BY Sizes
<1>2. 0 \in Bank /\ \A b \in Bank : b \in Nat
  BY Sizes
<1>3. \A b \in Bank : First(role[b].log) = LogBlk(b, 0) /\ LogBlk(b, 0) \in VBlk
  <2> SUFFICES ASSUME NEW b \in Bank
               PROVE  First(role[b].log) = LogBlk(b, 0) /\ LogBlk(b, 0) \in VBlk
    OBVIOUS
  <2>1. PICK bad \in SUBSET BadVBlks(b, defects[b]) : bad = bmp[b]
    OBVIOUS
  <2>2. Enough(bad)
    BY <2>1, EnoughGood
  <2>3. 0 \in 0 .. NUM_LOG_BLKS_PER_BANK - 1 /\ N \in 1 .. NUM_LOG_BLKS_PER_BANK /\ 3 + 0 = 3
    BY <1>1
  <2>4. At(Good(bad), 3 + 0) \in VBlk
    BY <2>1, <2>3, LogBlkType
  <2>5. First(Roles(bad).log) = At(Good(bad), 3)
    BY <1>1, <2>2, <2>3, RoleOfLog, LogEnds
  <2> QED BY <2>1, <2>3, <2>4, <2>5 DEF LogBlk
<1>4. \A b \in Bank : blk_log[b] \in Nat
  <2> SUFFICES ASSUME NEW b \in Bank
               PROVE  blk_log[b] \in Nat
    OBVIOUS
  <2>1. PICK v \in VBlk, bad \in SUBSET VBlk : v = LogBlk(b, 0) /\ bad = bmp[b]
    BY <1>3
  <2>2. NextBlk(v, bad) \in (v + 1) .. VBLKS_PER_BANK /\ v \in Nat
    BY <2>1, NextBlkType DEF VBlk
  <2> QED BY <1>3, <2>1, <2>2, Sizes
<1>5. N * B \in Nat /\ (N - 1) * B = N * B - B
  BY <1>1
<1>6. LogTyped
  <2>1. \A b \in Bank : LogBlk(b, 0) \in Nat
    BY <1>3 DEF VBlk
  <2>2. \A b \in Bank : log_ppn[b] \in Nat \X Nat
    <3> SUFFICES ASSUME NEW b \in Bank
                 PROVE  log_ppn[b] \in Nat \X Nat
      OBVIOUS
    <3>1. PICK v \in Nat : v = LogBlk(b, 0)
      BY <2>1
    <3>2. log_ppn[b] = <<v, 0>>
      BY <1>3, <3>1
    <3> QED BY <3>2
  <2>3. log_blk_cnt \in Int
    BY <1>1, <1>5
  <2> QED BY <1>2, <1>4, <2>2, <2>3 DEF LogTyped
<1>7. PagesLeft(0, 0) >= EpochPages
  <2>1. PICK W \in Nat : W = NUM_BANKS * (PAGES_PER_VBLK - 1)
    BY <1>1
  <2>2. EpochPages \in Nat /\ EpochPages <= W
    BY <2>1, BadBlocksAssumption DEF BadBlocksConstants
  <2>3. PagesLeft(0, 0) = ((N - 1) * W) + W
    <3>1. NUM_LOG_BLKS_PER_BANK - 1 - 0 = N - 1 /\ PAGES_PER_VBLK - 1 - 0 = PAGES_PER_VBLK - 1
      BY <1>1
    <3> QED BY <1>1, <2>1, <3>1 DEF PagesLeft
  <2>4. (N - 1) * W >= 0
    BY <1>1, <2>1
  <2> QED BY <1>1, <2>1, <2>2, <2>3, <2>4
<1>8. LogAt(0, 0)
  <2>1. \A b \in Bank : b >= bank_active /\ log_ppn[b] = <<LogBlk(b, 0), 0>>
    BY <1>2, <1>3
  <2>2. log_blk_cnt = ((NUM_LOG_BLKS_PER_BANK - 1 - 0) * NUM_BANKS) - 0
    BY <1>1, <1>5
  <2>3. used + PagesLeft(0, 0) >= EpochPages
    <3>1. PagesLeft(0, 0) \in Int
      BY <1>1 DEF PagesLeft
    <3> QED BY <1>7, <3>1
  <2>4. 0 < PAGES_PER_VBLK - 1
    BY <1>1
  <2> QED BY <2>1, <2>2, <2>3, <2>4 DEF LogAt
<1>9. /\ 0 \in 0 .. NUM_LOG_BLKS_PER_BANK - 1 /\ 0 \in 0 .. PAGES_PER_VBLK - 1
  BY <1>1
<1>10. \A b \in Bank : log_ppn[b][1] = First(role[b].log)
  OBVIOUS
<1> QED BY <1>6, <1>8, <1>9, <1>10 DEF LogInv

\* The firmware writes nothing but the mark of format, and forgets no defect.
LEMMA FwNand ==
  ASSUME NandType, Firmware
  PROVE  NandType'
<1>1. defects' = defects
  BY DEF Firmware, InitBlkmgr, Format, GetLogPpn, RecordTag, CheckThreshold, PowerOff,
         EraseInUse, nand, roles, logvars
<1>2. marks' \in [Bank -> SUBSET Entry] /\ \A b \in Bank : marks'[b] \subseteq marks[b]
  <2>1. \A b \in Bank : \A S : Erased(b, S) \subseteq marks[b] /\ Erased(b, S) \subseteq Entry
    BY DEF NandType, Erased
  <2>2. CASE UNCHANGED marks
    BY <2>2 DEF NandType
  <2>3. CASE InitBlkmgr
    BY <2>1, <2>3 DEF InitBlkmgr
  <2>4. CASE Format
    BY <2>1, <2>4 DEF Format
  <2>5. CASE RecordTag
    <3>1. CASE ReachReclaim
      BY <2>1, <2>5, <3>1 DEF RecordTag
    <3>2. CASE ~ReachReclaim
      BY <2>2, <2>5, <3>2 DEF RecordTag
    <3> QED BY <3>1, <3>2
  <2>6. ASSUME NEW c \in Bank, EraseInUse(c)
        PROVE  marks' \in [Bank -> SUBSET Entry] /\ \A b \in Bank : marks'[b] \subseteq marks[b]
    BY <2>1, <2>6 DEF EraseInUse, NandType
  <2>7. CASE GetLogPpn \/ CheckThreshold \/ PowerOff
    BY <2>2, <2>7 DEF GetLogPpn, CheckThreshold, PowerOff, nand
  <2> QED BY <2>3, <2>4, <2>5, <2>6, <2>7 DEF Firmware
<1>3. blk0' \in [Bank -> [BlockZero -> PageType]]
  <2>1. CASE UNCHANGED blk0
    BY <2>1 DEF NandType
  <2>2. CASE Format
    <3>1. PICK new : new = Page("mark", "normal", NoList)
      OBVIOUS
    <3>2. new \in PageType /\ Torn \in PageType
      <4>1. NoList \in ListType
        BY DEF NoList, ListType
      <4> QED BY <3>1, <4>1 DEF Torn, Page, PageType
    <3>3. \A old : Programmed(old, new) \in PageType
      BY <3>2 DEF Programmed
    <3>4. blk0' = [blk0 EXCEPT ![0][FormatMarkPage] = Programmed(@, new)]
      BY <2>2, <3>1 DEF Format
    <3>5. blk0 \in [Bank -> [BlockZero -> PageType]]
      BY DEF NandType
    <3> QED BY <3>3, <3>4, <3>5
  <2> QED BY <2>1, <2>2
          DEF Firmware, InitBlkmgr, GetLogPpn, RecordTag, CheckThreshold, PowerOff, EraseInUse, nand
<1> QED BY <1>1, <1>2, <1>3 DEF NandType

\* The start: every bank has enough blocks, and an empty log.
LEMMA StartStep ==
  ASSUME NandType, FwType, ListInv, InitBlkmgr
  PROVE  FwType' /\ FwInv' /\ LogInv'
<1>1. /\ defects' = defects /\ defects \in DefectChoices /\ mode' = "open"
      /\ bmp' = [b \in Bank |-> BuildBadBlkList(b)]
      /\ vcmax' = [b \in Bank |-> {0, 1}]
      /\ role' = [b \in Bank |-> Roles(bmp'[b])]
      /\ log_ppn' = [b \in Bank |-> <<First(role'[b].log), 0>>]
      /\ blk_log' = [b \in Bank |-> NextBlk(First(role'[b].log), bmp'[b])]
      /\ log_blk_cnt' = NUM_LOG_BLKS_PER_BANK * NUM_BANKS - NUM_BANKS
      /\ bank_active' = 0 /\ used' = 0
  BY DEF InitBlkmgr, NandType
<1>2. \A b \in Bank : /\ bmp'[b] \in SUBSET VBlk
                      /\ bmp'[b] \in SUBSET BadVBlks(b, defects'[b])
  <2>1. \A b \in Bank : BadVBlks(b, defects[b]) \subseteq VBlk
    BY BadBlocksAssumption DEF BadVBlks, BadBlocksConstants
  <2> QED BY <1>1, <2>1, FoundAreBad
<1>3. LogStart'
  BY <1>1, <1>2 DEF LogStart
<1>4. LogInv' /\ LogTyped'
  BY <1>3, LogStarts, PTL
<1>5. FwInv'
  BY <1>1, <1>2 DEF FwInv
<1>6. {0, 1} \subseteq VBlk
  <2>1. 0 \in Bank
    BY Sizes
  <2>2. PICK bad \in SUBSET BadVBlks(0, defects[0]) : bad = {}
    OBVIOUS
  <2>3. Enough(bad)
    BY <1>1, <2>1, EnoughGood
  <2>4. Cardinality(Good(bad)) > 0 /\ Cardinality(Good(bad)) \in Nat
    BY <2>3, GoodBlks, Sizes DEF Enough
  <2>5. Good(bad) # {}
    BY <2>4, FS_EmptySet
  <2> QED BY <2>5, Sizes DEF Good, VBlk
<1>7. \A b \in Bank : Roles(bmp'[b]) \in RoleType
  <2> SUFFICES ASSUME NEW b \in Bank, NEW bad, bad = bmp'[b]
               PROVE  Roles(bad) \in RoleType
    OBVIOUS
  <2>1. Good(bad) \subseteq VBlk
    BY Sizes DEF Good, VBlk
  <2> QED BY <2>1 DEF Roles, RoleType, Good
<1>8. FwType'
  <2>1. bmp' \in [Bank -> SUBSET VBlk] /\ vcmax' \in [Bank -> SUBSET VBlk]
    BY <1>1, <1>2, <1>6
  <2>2. role' \in [Bank -> RoleType]
    BY <1>1, <1>7
  <2>3. blk_log' \in [Bank -> Nat] /\ log_ppn' \in [Bank -> Nat \X Nat]
    BY <1>1, <1>4 DEF LogTyped
  <2> QED BY <1>1, <1>4, <2>1, <2>2, <2>3 DEF FwType, LogTyped
<1> QED BY <1>4, <1>5, <1>8

\* Nothing of the log depends on what is in memory otherwise.
LEMMA LogKept ==
  ASSUME LogInv, mode # "off", mode' \in {"open", "run"},
         UNCHANGED <<bmp, blk_log, log_ppn, log_blk_cnt, bank_active, used>>
  PROVE  LogInv'
BY DEF LogInv, LogAt, PagesLeft, LogBlk

\* format finds the bad blocks through the valid counts too.
LEMMA FormatStep ==
  ASSUME NandType, FwType, FwInv, LogInv, Format
  PROVE  FwType' /\ FwInv' /\ LogInv'
<1>1. /\ mode = "open" /\ mode' = "run"
      /\ vcmax' = [b \in Bank |-> (vcmax[b] \cap {0}) \cup bmp[b]]
      /\ UNCHANGED <<defects, bmp, role, blk_log, log_ppn, log_blk_cnt, bank_active, used>>
  BY DEF Format, logvars
<1>2. FwType'
  <2>1. vcmax' \in [Bank -> SUBSET VBlk]
    BY <1>1 DEF FwType
  <2> QED BY <1>1, <2>1 DEF FwType
<1>3. FwInv'
  <2>1. \A b \in Bank :
          vcmax'[b] \cap (2 .. VBLKS_PER_BANK - 1) = bmp[b] \cap (2 .. VBLKS_PER_BANK - 1)
    BY <1>1
  <2> QED BY <1>1, <2>1 DEF FwInv
<1> QED BY <1>1, <1>2, <1>3, LogKept

\* The pages left, with products of constants only.
LEMMA PagesLeftIs ==
  ASSUME NEW k \in 0 .. NUM_LOG_BLKS_PER_BANK - 1, NEW p \in 0 .. PAGES_PER_VBLK - 1,
         NEW W \in Nat, W = NUM_BANKS * (PAGES_PER_VBLK - 1)
  PROVE  /\ NUM_BANKS * p \in Nat /\ ((NUM_LOG_BLKS_PER_BANK - 1 - k) * W) \in Nat
         /\ NUM_BANKS * p <= W
         /\ PagesLeft(k, p) =
              ((NUM_LOG_BLKS_PER_BANK - 1 - k) * W) + (W - (NUM_BANKS * p)) - bank_active
<1>1. PICK N \in Nat, B \in Nat \ {0}, P \in Nat :
        /\ N = NUM_LOG_BLKS_PER_BANK /\ B = NUM_BANKS /\ P = PAGES_PER_VBLK
        /\ N > 1 /\ P > 1
  BY Sizes
<1>2. B * (P - 1 - p) = W - (B * p) /\ B * p \in Nat
  BY <1>1
<1>3. B * p <= B * (P - 1)
  BY <1>1
<1>4. (N - 1 - k) * W \in Nat
  BY <1>1
<1> QED BY <1>1, <1>2, <1>3, <1>4 DEF PagesLeft

\* A pair with its second part changed.
LEMMA PairExcept ==
  ASSUME NEW x, NEW y, NEW z
  PROVE  [<<x, y>> EXCEPT ![2] = z] = <<x, z>>
OBVIOUS

\* A page of a block that has another one.
LEMMA NextPage ==
  ASSUME FwType, LogInv, mode = "run", GetLogPpn,
         NEW k \in 0 .. NUM_LOG_BLKS_PER_BANK - 1, NEW p \in 0 .. PAGES_PER_VBLK - 1,
         LogAt(k, p), p < PAGES_PER_VBLK - 1
  PROVE  FwType' /\ LogInv'
<1>1. PICK N \in Nat, B \in Nat \ {0}, P \in Nat :
        /\ N = NUM_LOG_BLKS_PER_BANK /\ B = NUM_BANKS /\ P = PAGES_PER_VBLK
        /\ N > 1 /\ P > 1
  BY Sizes
<1>2. PICK W \in Nat : W = NUM_BANKS * (PAGES_PER_VBLK - 1)
  BY <1>1
<1>3. PICK a \in Bank : a = bank_active
  BY DEF FwType
<1>4. a \in 0 .. B - 1
  BY <1>1, <1>3, Sizes
<1>5. log_ppn[a] = <<LogBlk(a, k), p>>
  <2>1. \A b \in Bank : log_ppn[b] = IF b >= bank_active THEN <<LogBlk(b, k), p>>
                                   ELSE IF p < PAGES_PER_VBLK - 1 THEN <<LogBlk(b, k), p + 1>>
                                   ELSE <<LogBlk(b, k + 1), 1>>
    BY DEF LogAt
  <2>2. a >= bank_active
    BY <1>3, <1>4
  <2> QED BY <2>1, <2>2
<1>6. /\ log_ppn' = [log_ppn EXCEPT ![a][2] = @ + 1]
      /\ UNCHANGED <<mode, blk_log, log_blk_cnt, bmp, vcmax, role, defects>>
      /\ bank_active' = (a + 1) % B /\ used' = used + 1
  BY <1>1, <1>3, <1>5 DEF GetLogPpn, roles, nand
<1>7. \A c \in Bank : log_ppn'[c] = IF c = a THEN <<LogBlk(a, k), p + 1>> ELSE log_ppn[c]
  <2>1. log_ppn'[a] = [log_ppn[a] EXCEPT ![2] = log_ppn[a][2] + 1]
        /\ \A c \in Bank \ {a} : log_ppn'[c] = log_ppn[c]
    BY <1>6 DEF FwType
  <2>2. log_ppn[a][2] + 1 = p + 1
    BY <1>5
  <2>3. log_ppn'[a] = <<LogBlk(a, k), p + 1>>
    BY <1>5, <2>1, <2>2, PairExcept
  <2> QED BY <2>1, <2>3
<1>8. bank_active' = IF a = B - 1 THEN 0 ELSE a + 1
  <2>1. CASE a = B - 1
    BY <1>1, <1>4, <1>6, <2>1
  <2>2. CASE a # B - 1
    BY <1>1, <1>4, <1>6, <2>2
  <2> QED BY <2>1, <2>2
<1>9. bank_active' \in Bank
  BY <1>1, <1>4, <1>8, Sizes
<1>10. FwType'
  <2>1. log_ppn' \in [Bank -> Nat \X Nat]
    <3>1. log_ppn[a] \in Nat \X Nat
      BY DEF FwType
    <3>2. <<LogBlk(a, k), p + 1>> \in Nat \X Nat
      BY <1>1, <1>5, <3>1
    <3> QED BY <1>6, <1>7, <3>2 DEF FwType
  <2> QED BY <1>6, <1>9, <2>1 DEF FwType
<1>11. \A c \in Bank : blk_log'[c] = NextBlk(log_ppn'[c][1], bmp'[c])
  <2>1. \A c \in Bank : log_ppn'[c][1] = log_ppn[c][1]
    BY <1>5, <1>7
  <2> QED BY <1>6, <2>1 DEF LogInv
<1>12. \A c \in Bank : \A j : LogBlk(c, j)' = LogBlk(c, j)
  BY <1>6 DEF LogBlk
<1>13. /\ \A c \in Bank : c \in Nat
       /\ \A c \in Bank : log_ppn[c] =
              IF c >= a THEN <<LogBlk(c, k), p>> ELSE <<LogBlk(c, k), p + 1>>
       /\ log_blk_cnt = (N - 1 - k) * B
       /\ used + PagesLeft(k, p) >= EpochPages
  <2>1. log_blk_cnt = ((N - 1 - k) * B) - 0
    BY <1>1 DEF LogAt
  <2>2. (N - 1 - k) * B \in Int
    BY <1>1
  <2> QED BY <1>1, <1>3, <2>1, <2>2, Sizes DEF LogAt
<1>14. /\ PagesLeft(k, p) = ((N - 1 - k) * W) + (W - (B * p)) - a
       /\ (N - 1 - k) * W \in Nat /\ B * p \in Nat
  BY <1>1, <1>2, <1>3, PagesLeftIs
<1>15. used \in Nat /\ EpochPages \in Nat
  BY BadBlocksAssumption DEF FwType, BadBlocksConstants
<1>16. CASE a # B - 1
  <2>1. \A c \in Bank : log_ppn'[c] =
         IF c >= a + 1 THEN <<LogBlk(c, k), p>> ELSE <<LogBlk(c, k), p + 1>>
    BY <1>3, <1>4, <1>7, <1>13
  <2>2. PagesLeft(k, p)' = ((N - 1 - k) * W) + (W - (B * p)) - (a + 1)
    <3>1. PagesLeft(k, p)' = PagesLeft(k, p) + bank_active - bank_active'
      BY <1>1, <1>4, <1>3, <1>8, <1>14 DEF PagesLeft
    <3> QED BY <1>1, <1>3, <1>4, <1>8, <1>14, <1>16, <3>1
  <2>3. used' + PagesLeft(k, p)' >= EpochPages
    BY <1>1, <1>4, <1>6, <1>13, <1>14, <1>15, <2>2
  <2>4. log_blk_cnt' = ((N - 1 - k) * B) - 0
    <3>1. (N - 1 - k) * B \in Int
      BY <1>1
    <3> QED BY <1>6, <1>13, <3>1
  <2>5. LogAt(k, p)'
    BY <1>1, <1>8, <1>12, <1>16, <2>1, <2>3, <2>4 DEF LogAt
  <2> QED BY <1>6, <1>10, <1>11, <2>5 DEF LogInv
<1>17. CASE a = B - 1
  <2>1. \A c \in Bank : c >= 0 /\ log_ppn'[c] = <<LogBlk(c, k), p + 1>>
    <3>1. \A c \in Bank : c >= 0 /\ (c = a \/ ~ (c >= a))
      BY <1>1, <1>4, <1>17, Sizes
    <3> QED BY <1>7, <1>13, <3>1
  <2>2. p + 1 \in 0 .. PAGES_PER_VBLK - 1
    BY <1>1
  <2>3. PagesLeft(k, p + 1)' = ((N - 1 - k) * W) + (W - (B * p)) - B
    <3>1. PagesLeft(k, p + 1) = ((N - 1 - k) * W) + (W - (B * (p + 1))) - a
      BY <1>1, <1>2, <1>3, <2>2, PagesLeftIs
    <3>2. B * (p + 1) = (B * p) + B
      BY <1>1
    <3>3. PagesLeft(k, p + 1)' = PagesLeft(k, p + 1) + bank_active - bank_active'
      BY <1>1, <1>3, <1>4, <1>8, <1>14, <3>1, <3>2 DEF PagesLeft
    <3> QED BY <1>1, <1>3, <1>4, <1>8, <1>14, <1>17, <3>1, <3>2, <3>3
  <2>4. used' + PagesLeft(k, p + 1)' >= EpochPages
    BY <1>1, <1>4, <1>6, <1>13, <1>14, <1>15, <1>17, <2>3
  <2>5. log_blk_cnt' = ((N - 1 - k) * B) - 0
    <3>1. (N - 1 - k) * B \in Int
      BY <1>1
    <3> QED BY <1>6, <1>13, <3>1
  <2>6. LogAt(k, p + 1)'
    BY <1>1, <1>8, <1>12, <1>17, <2>1, <2>4, <2>5 DEF LogAt
  <2> QED BY <1>6, <1>10, <1>11, <2>2, <2>6 DEF LogInv
<1> QED BY <1>16, <1>17

\* The last page of a block is for the next one: there is one, or the pages
\* between two checks would have been too many.
LEMMA NextBlock ==
  ASSUME NandType, FwType, FwInv, LogInv, mode = "run", GetLogPpn,
         NEW k \in 0 .. NUM_LOG_BLKS_PER_BANK - 1, LogAt(k, PAGES_PER_VBLK - 1)
  PROVE  FwType' /\ LogInv'
<1>1. PICK N \in Nat, B \in Nat \ {0}, P \in Nat :
        /\ N = NUM_LOG_BLKS_PER_BANK /\ B = NUM_BANKS /\ P = PAGES_PER_VBLK
        /\ N > 1 /\ P > 1
  BY Sizes
<1>2. PICK W \in Nat : W = NUM_BANKS * (PAGES_PER_VBLK - 1)
  BY <1>1
<1>3. PICK a \in Bank : a = bank_active
  BY DEF FwType
<1>4. a \in 0 .. B - 1
  BY <1>1, <1>3, Sizes
<1>5. PICK p \in 0 .. PAGES_PER_VBLK - 1 : p = PAGES_PER_VBLK - 1
  BY <1>1
<1>6. /\ \A c \in Bank : c \in Nat
      /\ \A c \in Bank : log_ppn[c] =
           IF c >= a THEN <<LogBlk(c, k), p>> ELSE <<LogBlk(c, k + 1), 1>>
      /\ k = N - 1 => a = 0
      /\ log_blk_cnt = ((N - 1 - k) * B) - a
      /\ used + PagesLeft(k, p) >= EpochPages
  <2>1. \A c \in Bank : log_ppn[c] =
          IF c >= bank_active THEN <<LogBlk(c, k), PAGES_PER_VBLK - 1>>
          ELSE IF PAGES_PER_VBLK - 1 < PAGES_PER_VBLK - 1
               THEN <<LogBlk(c, k), (PAGES_PER_VBLK - 1) + 1>>
          ELSE <<LogBlk(c, k + 1), 1>>
    BY DEF LogAt
  <2>2. ~ (PAGES_PER_VBLK - 1 < PAGES_PER_VBLK - 1)
    BY <1>1
  <2>3. \A c \in Bank : log_ppn[c] = IF c >= a THEN <<LogBlk(c, k), p>> ELSE <<LogBlk(c, k + 1), 1>>
    BY <1>3, <1>5, <2>1, <2>2
  <2>4. /\ k = N - 1 => a = 0
        /\ log_blk_cnt = ((N - 1 - k) * B) - a
    BY <1>1, <1>3, <2>2 DEF LogAt
  <2>5. used + PagesLeft(k, p) >= EpochPages
    BY <1>5 DEF LogAt
  <2>6. \A c \in Bank : c \in Nat
    BY Sizes
  <2> QED BY <2>3, <2>4, <2>5, <2>6, Zenon
<1>7. /\ PagesLeft(k, p) = ((N - 1 - k) * W) - a
      /\ (N - 1 - k) * W \in Nat
  <2>1. /\ PagesLeft(k, p) = ((N - 1 - k) * W) + (W - (B * p)) - a
        /\ (N - 1 - k) * W \in Nat
    BY <1>1, <1>2, <1>3, PagesLeftIs
  <2>2. B * p = W
    BY <1>1, <1>2, <1>5
  <2> QED BY <1>2, <1>3, <1>4, <2>1, <2>2
<1>8. used \in Nat /\ EpochPages \in Nat /\ used < EpochPages
  BY BadBlocksAssumption DEF FwType, GetLogPpn, BadBlocksConstants
<1>9. k < N - 1
  <2> SUFFICES ASSUME k = N - 1
               PROVE  FALSE
    BY <1>1
  <2>1. (N - 1 - k) * W = 0
    BY <1>1, <1>2
  <2> QED BY <1>4, <1>6, <1>7, <1>8, <2>1
<1>10. log_ppn[a] = <<LogBlk(a, k), p>>
  <2>1. a >= a
    BY <1>4
  <2> QED BY <1>6, <2>1
<1>11. \A c \in Bank : /\ LogBlk(c, k) \in VBlk /\ LogBlk(c, k + 1) \in VBlk
                       /\ LogBlk(c, k + 1) <= Last(role[c].log)
                       /\ NextBlk(LogBlk(c, k), bmp[c]) = LogBlk(c, k + 1)
  <2> SUFFICES ASSUME NEW c \in Bank
               PROVE  /\ LogBlk(c, k) \in VBlk /\ LogBlk(c, k + 1) \in VBlk
                      /\ LogBlk(c, k + 1) <= Last(role[c].log)
                      /\ NextBlk(LogBlk(c, k), bmp[c]) = LogBlk(c, k + 1)
    OBVIOUS
  <2>1. PICK bad \in SUBSET BadVBlks(c, defects[c]) : bad = bmp[c]
    BY DEF FwInv
  <2>2. role[c] = Roles(bad)
    BY <2>1 DEF FwInv
  <2>3. defects \in DefectChoices
    BY DEF NandType
  <2>4. k + 1 \in 0 .. NUM_LOG_BLKS_PER_BANK - 1 /\ k + 1 < NUM_LOG_BLKS_PER_BANK
    BY <1>1, <1>9
  <2>5. PICK j \in 0 .. NUM_LOG_BLKS_PER_BANK - 1 : j = k + 1
    BY <2>4
  <2>6. /\ At(Good(bad), 3 + k) \in VBlk
        /\ NextBlk(At(Good(bad), 3 + k), bad) = At(Good(bad), 3 + (k + 1))
    BY <2>1, <2>3, <2>4, LogBlkType
  <2>7. At(Good(bad), 3 + j) \in VBlk /\ At(Good(bad), 3 + j) <= Last(Roles(bad).log)
    BY <2>1, <2>3, LogBlkType
  <2> QED BY <2>1, <2>2, <2>5, <2>6, <2>7 DEF LogBlk
<1>12. blk_log[a] = LogBlk(a, k + 1)
  BY <1>10, <1>11 DEF LogInv
<1>13. ~ (blk_log[a] > Last(role[a].log))
  <2>1. role[a].log \subseteq Nat
    BY DEF FwType, RoleType, VBlk
  <2>2. PICK u, z : u \in VBlk /\ u = blk_log[a] /\ z = Last(role[a].log) /\ u <= z
    BY <1>11, <1>12
  <2>3. z \in role[a].log
    <3>1. PICK bad \in SUBSET BadVBlks(a, defects[a]) : bad = bmp[a] /\ role[a] = Roles(bad)
      BY DEF FwInv
    <3>2. Enough(bad)
      BY EnoughGood DEF NandType
    <3>3. NUM_LOG_BLKS_PER_BANK \in 1 .. NUM_LOG_BLKS_PER_BANK
      BY <1>1
    <3>4. z = At(Good(bad), 2 + NUM_LOG_BLKS_PER_BANK)
      BY <2>2, <3>1, <3>2, <3>3, RoleOfLog, LogEnds
    <3> QED BY <1>1, <3>1, <3>2, <3>4, RoleOfLog DEF LogBlks
  <2> QED BY <2>1, <2>2, <2>3 DEF VBlk
<1>14. /\ log_ppn' = [log_ppn EXCEPT ![a] = <<LogBlk(a, k + 1), 1>>]
       /\ blk_log' = [blk_log EXCEPT ![a] = NextBlk(LogBlk(a, k + 1), bmp[a])]
       /\ log_blk_cnt' = log_blk_cnt - 1
       /\ UNCHANGED <<mode, bmp, vcmax, role, defects>>
       /\ bank_active' = (a + 1) % B /\ used' = used + 1
  <2>1. log_ppn[a][2] = PAGES_PER_VBLK - 1
    BY <1>5, <1>10
  <2>2. /\ GetLogBlk(a) /\ log_blk_cnt' = log_blk_cnt - 1
        /\ UNCHANGED <<bmp, vcmax, role, defects>>
        /\ bank_active' = (a + 1) % B /\ used' = used + 1
    BY <1>1, <1>3, <2>1 DEF GetLogPpn, roles, nand
  <2> QED BY <1>12, <1>13, <2>2 DEF GetLogBlk, FwType
<1>15. \A c \in Bank :
         log_ppn'[c] = IF c > a THEN <<LogBlk(c, k), p>> ELSE <<LogBlk(c, k + 1), 1>>
  <2>1. \A c \in Bank : log_ppn'[c] = IF c = a THEN <<LogBlk(a, k + 1), 1>> ELSE log_ppn[c]
    BY <1>14 DEF FwType
  <2>2. \A c \in Bank : c = a \/ (c > a /\ c >= a) \/ (~ (c > a) /\ ~ (c >= a))
    BY <1>4, <1>6
  <2>3. ~ (a > a)
    BY <1>4
  <2> QED BY <1>6, <2>1, <2>2, <2>3
<1>16. bank_active' = IF a = B - 1 THEN 0 ELSE a + 1
  <2>1. CASE a = B - 1
    BY <1>1, <1>4, <1>14, <2>1
  <2>2. CASE a # B - 1
    BY <1>1, <1>4, <1>14, <2>2
  <2> QED BY <2>1, <2>2
<1>17. FwType'
  <2>1. NextBlk(LogBlk(a, k + 1), bmp[a]) \in Nat
    <3>1. PICK v \in VBlk, bad \in SUBSET VBlk : v = LogBlk(a, k + 1) /\ bad = bmp[a]
      BY <1>11 DEF FwType
    <3>2. NextBlk(v, bad) \in (v + 1) .. VBLKS_PER_BANK /\ v \in Nat
      BY NextBlkType DEF VBlk
    <3> QED BY <3>1, <3>2, Sizes
  <2>2. blk_log' \in [Bank -> Nat]
    BY <1>14, <2>1 DEF FwType
  <2>3. log_ppn' \in [Bank -> Nat \X Nat]
    <3>1. PICK v \in Nat : v = LogBlk(a, k + 1)
      BY <1>11 DEF VBlk
    <3>2. <<v, 1>> \in Nat \X Nat
      OBVIOUS
    <3> QED BY <1>14, <3>1, <3>2 DEF FwType
  <2>4. bank_active' \in Bank
    BY <1>1, <1>4, <1>16, Sizes
  <2> QED BY <1>14, <2>2, <2>3, <2>4 DEF FwType
<1>18. \A c \in Bank : blk_log'[c] = NextBlk(log_ppn'[c][1], bmp'[c])
  <2>1. \A c \in Bank : c # a => log_ppn'[c] = log_ppn[c] /\ blk_log'[c] = blk_log[c]
    BY <1>14 DEF FwType
  <2>2. log_ppn'[a] = <<LogBlk(a, k + 1), 1>> /\ blk_log'[a] = NextBlk(LogBlk(a, k + 1), bmp[a])
    BY <1>14 DEF FwType
  <2>3. \A c \in Bank : blk_log[c] = NextBlk(log_ppn[c][1], bmp[c])
    BY DEF LogInv
  <2> QED BY <1>14, <2>1, <2>2, <2>3
<1>19. \A c \in Bank : \A j : LogBlk(c, j)' = LogBlk(c, j)
  BY <1>14 DEF LogBlk
<1>20. (N - 1 - k) * B \in Nat /\ (N - 1 - (k + 1)) * B = ((N - 1 - k) * B) - B
  BY <1>1, <1>9
<1>21. CASE a # B - 1
  <2>1. \A c \in Bank : log_ppn'[c] =
         IF c >= a + 1 THEN <<LogBlk(c, k), p>> ELSE <<LogBlk(c, k + 1), 1>>
    <3>1. \A c \in Bank : c > a <=> c >= a + 1
      BY <1>4, <1>6
    <3> QED BY <1>15, <3>1
  <2>2. PagesLeft(k, p)' = ((N - 1 - k) * W) - (a + 1)
    <3>1. PagesLeft(k, p)' = PagesLeft(k, p) + bank_active - bank_active'
      BY <1>1, <1>3, <1>4, <1>7, <1>16 DEF PagesLeft
    <3> QED BY <1>1, <1>3, <1>4, <1>7, <1>16, <1>21, <3>1
  <2>3. used' + PagesLeft(k, p)' >= EpochPages
    BY <1>1, <1>4, <1>6, <1>7, <1>8, <1>14, <2>2
  <2>4. log_blk_cnt' = ((N - 1 - k) * B) - (a + 1)
    BY <1>4, <1>6, <1>14, <1>20
  <2>5. k # N - 1
    BY <1>1, <1>9
  <2>6. LogAt(k, p)'
    BY <1>1, <1>5, <1>16, <1>19, <1>21, <2>1, <2>3, <2>4, <2>5 DEF LogAt
  <2> QED BY <1>14, <1>17, <1>18, <2>6 DEF LogInv
<1>22. CASE a = B - 1
  <2>1. \A c \in Bank : c >= 0 /\ log_ppn'[c] = <<LogBlk(c, k + 1), 1>>
    <3>1. \A c \in Bank : c >= 0 /\ ~ (c > a)
      BY <1>1, <1>4, <1>22, Sizes
    <3> QED BY <1>15, <3>1
  <2>2. k + 1 \in 0 .. NUM_LOG_BLKS_PER_BANK - 1 /\ 1 \in 0 .. PAGES_PER_VBLK - 1
    BY <1>1, <1>9
  <2>3. PagesLeft(k + 1, 1)' = ((N - 1 - k) * W) - B
    <3>1. PagesLeft(k + 1, 1) = ((N - 1 - (k + 1)) * W) + (W - (B * 1)) - a
      BY <1>1, <1>2, <1>3, <2>2, PagesLeftIs
    <3>2. (N - 1 - (k + 1)) * W = ((N - 1 - k) * W) - W
      BY <1>1, <1>9
    <3>3. PagesLeft(k + 1, 1)' = PagesLeft(k + 1, 1) + bank_active - bank_active'
      BY <1>1, <1>2, <1>3, <1>4, <1>7, <1>16, <3>1, <3>2 DEF PagesLeft
    <3> QED BY <1>1, <1>2, <1>3, <1>4, <1>7, <1>16, <1>22, <3>1, <3>2, <3>3
  <2>4. used' + PagesLeft(k + 1, 1)' >= EpochPages
    BY <1>1, <1>4, <1>6, <1>7, <1>8, <1>14, <1>22, <2>3
  <2>5. log_blk_cnt' = ((N - 1 - (k + 1)) * B) - 0
    BY <1>1, <1>4, <1>6, <1>14, <1>20, <1>22
  <2>6. LogAt(k + 1, 1)'
    BY <1>1, <1>16, <1>19, <1>22, <2>1, <2>4, <2>5 DEF LogAt
  <2> QED BY <1>14, <1>17, <1>18, <2>2, <2>6 DEF LogInv
<1> QED BY <1>21, <1>22

\* get_log_ppn: the next page of a block, or the next block.
LEMMA GetLogPpnStep ==
  ASSUME NandType, FwType, FwInv, LogInv, GetLogPpn
  PROVE  FwType' /\ FwInv' /\ LogInv'
<1>1. mode = "run"
  BY DEF GetLogPpn
<1>2. FwType' /\ LogInv'
  <2>1. PICK k \in 0 .. NUM_LOG_BLKS_PER_BANK - 1, p \in 0 .. PAGES_PER_VBLK - 1 : LogAt(k, p)
    BY <1>1 DEF LogInv
  <2>2. p < PAGES_PER_VBLK - 1 \/ p = PAGES_PER_VBLK - 1
    BY Sizes
  <2> QED BY <1>1, <2>1, <2>2, NextPage, NextBlock
<1>3. mode' # "stuck" /\ mode' \in {"run", "stuck"}
  <2>1. mode' \in {"run", "stuck"}
    BY <1>1 DEF GetLogPpn, GetLogBlk
  <2> QED BY <1>2, <2>1 DEF LogInv
<1>4. UNCHANGED <<defects, bmp, vcmax, role>>
  BY DEF GetLogPpn, roles, nand
<1> QED BY <1>1, <1>2, <1>3, <1>4 DEF FwInv

\* A log that is not low has room for what may come before the next check.
LEMMA RoomAtCheck ==
  ASSUME FwType, NEW k \in 0 .. NUM_LOG_BLKS_PER_BANK - 1, NEW p \in 0 .. PAGES_PER_VBLK - 1,
         LogAt(k, p), ~ReachReclaim
  PROVE  PagesLeft(k, p) >= EpochPages
<1>1. PICK N \in Nat, B \in Nat \ {0}, P \in Nat :
        /\ N = NUM_LOG_BLKS_PER_BANK /\ B = NUM_BANKS /\ P = PAGES_PER_VBLK
        /\ N > 1 /\ P > 1
  BY Sizes
<1>2. PICK W \in Nat : W = NUM_BANKS * (PAGES_PER_VBLK - 1)
  BY <1>1
<1>3. PICK a \in Bank : a = bank_active
  BY DEF FwType
<1>4. a \in 0 .. B - 1
  BY <1>1, <1>3, Sizes
<1>5. EpochPages \in Nat /\ EpochPages <= W /\ EpochPages + B <= W + 3
  BY <1>1, <1>2, BadBlocksAssumption DEF BadBlocksConstants
<1>6. PICK m \in Nat : m = N - 1 - k
  BY <1>1
<1>7. /\ PagesLeft(k, p) = (m * W) + (W - (B * p)) - a
      /\ m * W \in Nat /\ B * p \in Nat /\ B * p <= W
  BY <1>1, <1>2, <1>3, <1>6, PagesLeftIs
<1>8. log_blk_cnt \in Int /\ log_blk_cnt >= 3
  BY DEF FwType, ReachReclaim
<1>9. m * B \in Nat /\ W >= B
  <2>1. B * (P - 1) >= B
    BY <1>1
  <2> QED BY <1>1, <1>2, <1>6, <2>1
<1>10. m > 0
  <2>1. log_blk_cnt <= m * B
    <3>1. log_blk_cnt = (m * B) - (IF p < PAGES_PER_VBLK - 1 THEN 0 ELSE a)
      BY <1>1, <1>3, <1>6 DEF LogAt
    <3> QED BY <1>4, <1>9, <3>1
  <2> QED BY <1>6, <1>8, <1>9, <2>1
<1>11. m * W >= W /\ (m > 1 => m * W >= W + W)
  <2>1. (m - 1) * W >= 0 /\ (m - 1) * W = (m * W) - W
    BY <1>2, <1>6, <1>10
  <2>2. m > 1 => (m - 2) * W >= 0 /\ (m - 2) * W = (m * W) - W - W
    BY <1>2, <1>6, <1>10
  <2> QED BY <1>2, <1>7, <2>1, <2>2
<1>12. CASE p < PAGES_PER_VBLK - 1
  <2>1. B * (p + 1) <= W /\ B * (p + 1) = (B * p) + B
    BY <1>1, <1>2, <1>12
  <2> QED BY <1>4, <1>5, <1>7, <1>11, <2>1
<1>13. CASE p = PAGES_PER_VBLK - 1
  <2>1. B * p = W
    BY <1>1, <1>2, <1>13
  <2>2. log_blk_cnt = (m * B) - a
    BY <1>1, <1>3, <1>6, <1>13 DEF LogAt
  <2>3. CASE m = 1
    BY <1>4, <1>5, <1>7, <1>8, <2>1, <2>2, <2>3
  <2>4. CASE m > 1
    BY <1>4, <1>5, <1>7, <1>9, <1>11, <2>1, <2>4
  <2> QED BY <1>10, <2>3, <2>4
<1> QED BY <1>1, <1>12, <1>13

\* Between two checks the count of pages starts again.
LEMMA CountAgain ==
  ASSUME FwType, LogInv, mode = "run", ~ReachReclaim, used' = 0,
         UNCHANGED <<mode, bmp, blk_log, log_ppn, log_blk_cnt, bank_active>>
  PROVE  LogInv'
<1>1. PICK k \in 0 .. NUM_LOG_BLKS_PER_BANK - 1, p \in 0 .. PAGES_PER_VBLK - 1 : LogAt(k, p)
  BY DEF LogInv
<1>2. PagesLeft(k, p) >= EpochPages
  BY <1>1, RoomAtCheck
<1>3. PICK W \in Nat, a \in Nat : W = NUM_BANKS * (PAGES_PER_VBLK - 1) /\ a = bank_active
  BY Sizes DEF FwType
<1>4. PagesLeft(k, p) \in Int
  <2>1. /\ PagesLeft(k, p) = ((NUM_LOG_BLKS_PER_BANK - 1 - k) * W) + (W - (NUM_BANKS * p)) - a
        /\ (NUM_LOG_BLKS_PER_BANK - 1 - k) * W \in Nat /\ NUM_BANKS * p \in Nat
    BY <1>3, PagesLeftIs
  <2> QED BY <1>3, <2>1
<1>5. PagesLeft(k, p)' = PagesLeft(k, p)
  BY DEF PagesLeft
<1>6. used' + PagesLeft(k, p)' >= EpochPages
  BY <1>2, <1>4, <1>5
<1>7. LogAt(k, p)'
  BY <1>1, <1>6 DEF LogAt, LogBlk
<1> QED BY <1>7 DEF LogInv

\* record_tag: the log starts again when it is low.
LEMMA RecordTagStep ==
  ASSUME NandType, FwType, FwInv, LogInv, RecordTag
  PROVE  FwType' /\ FwInv' /\ LogInv'
<1>1. /\ mode = "run" /\ used' = 0
      /\ UNCHANGED <<defects, mode, bmp, vcmax, role>>
  BY DEF RecordTag, roles
<1>2. FwInv'
  BY <1>1 DEF FwInv
<1>3. CASE ReachReclaim
  <2>1. /\ log_ppn' = [b \in Bank |-> <<First(role[b].log), 0>>]
        /\ blk_log' = [b \in Bank |-> NextBlk(First(role[b].log), bmp[b])]
        /\ log_blk_cnt' = NUM_LOG_BLKS_PER_BANK * NUM_BANKS - NUM_BANKS
        /\ bank_active' = 0
    BY <1>3 DEF RecordTag
  <2>2. LogStart'
    <3>1. defects' \in DefectChoices /\ mode' = "run"
      BY <1>1 DEF NandType
    <3>2. \A b \in Bank : /\ bmp'[b] \in SUBSET VBlk /\ bmp'[b] \in SUBSET BadVBlks(b, defects'[b])
                          /\ role'[b] = Roles(bmp'[b])
      BY <1>1 DEF FwInv, FwType
    <3> QED BY <1>1, <2>1, <3>1, <3>2 DEF LogStart
  <2>3. LogInv' /\ LogTyped'
    BY <2>2, LogStarts, PTL
  <2>4. FwType'
    <3>1. blk_log' \in [Bank -> Nat] /\ log_ppn' \in [Bank -> Nat \X Nat]
      BY <2>1, <2>3 DEF LogTyped
    <3> QED BY <1>1, <2>3, <3>1 DEF FwType, LogTyped
  <2> QED BY <1>2, <2>3, <2>4
<1>4. CASE ~ReachReclaim
  <2>1. UNCHANGED <<log_ppn, blk_log, log_blk_cnt, bank_active>>
    BY <1>4 DEF RecordTag
  <2>2. FwType'
    BY <1>1, <2>1 DEF FwType
  <2> QED BY <1>1, <1>2, <1>4, <2>1, <2>2, CountAgain
<1> QED BY <1>3, <1>4

\* Every step of the firmware keeps the invariant of the log.
LEMMA FirmwareKeeps ==
  ASSUME NandType, FwType, ListInv, FwInv, LogInv, Firmware
  PROVE  NandType' /\ FwType' /\ FwInv' /\ LogInv'
<1>1. NandType'
  BY FwNand
<1>2. CASE CheckThreshold
  <2>1. /\ mode = "run" /\ ~ReachReclaim /\ used' = 0
        /\ UNCHANGED <<defects, mode, bmp, vcmax, role, blk_log, log_ppn, log_blk_cnt, bank_active>>
    BY <1>2 DEF CheckThreshold, nand, roles
  <2>2. FwType' /\ FwInv'
    BY <2>1 DEF FwType, FwInv
  <2> QED BY <1>1, <2>1, <2>2, CountAgain
<1>3. CASE PowerOff
  <2>1. FwType'
    BY <1>3, Sizes DEF PowerOff, FwType, RoleType
  <2> QED BY <1>1, <1>3, <2>1 DEF PowerOff, FwInv, LogInv
<1>4. ASSUME NEW c \in Bank, EraseInUse(c)
      PROVE  FwType' /\ FwInv' /\ LogInv'
  <2>1. /\ mode = "run"
        /\ UNCHANGED <<defects, mode, bmp,
                     vcmax, role, blk_log, log_ppn, log_blk_cnt, bank_active, used>>
    BY <1>4 DEF EraseInUse, fwvars, roles, logvars
  <2>2. FwType' /\ FwInv'
    BY <2>1 DEF FwType, FwInv
  <2> QED BY <2>1, <2>2, LogKept
<1> QED BY <1>1, <1>2, <1>3, <1>4, StartStep, FormatStep, GetLogPpnStep, RecordTagStep DEF Firmware

-----------------------------------------------------------------------------
(***************************************************************************)
(* The installer.                                                          *)
(***************************************************************************)

\* Block zero: the list, the stamp, the image, the mark of format.
LEMMA Pages ==
  /\ SCAN_LIST_PAGE_OFFSET = 0 /\ 0 \in BlockZero
  /\ STAMP_PAGE_OFFSET \in BlockZero /\ STAMP_PAGE_OFFSET # 0
  /\ FwPages \subseteq BlockZero /\ 0 \notin FwPages /\ STAMP_PAGE_OFFSET \notin FwPages
  /\ FormatMarkPage \in BlockZero /\ FormatMarkPage # 0
  /\ FormatMarkPage \notin FwPages /\ FormatMarkPage # STAMP_PAGE_OFFSET
  /\ 1 .. STAMP_PAGE_OFFSET - 1 \subseteq BlockZero
  /\ STAMP_PAGE_OFFSET \in Nat
<1>1. /\ STAMP_PAGE_OFFSET \in Nat /\ FW_PAGE_OFFSET \in Nat /\ NumFwPages \in Nat \ {0}
      /\ 0 < STAMP_PAGE_OFFSET /\ STAMP_PAGE_OFFSET < FW_PAGE_OFFSET
  BY Sizes, BadBlocksAssumption DEF BadBlocksConstants
<1>2. SCAN_LIST_PAGE_OFFSET = 0 /\ FormatMarkPage = FW_PAGE_OFFSET + NumFwPages
  BY DEF SCAN_LIST_PAGE_OFFSET, FormatMarkPage
<1> QED BY <1>1, <1>2 DEF BlockZero, FwPages

\* The pages the installer writes have the type of a page.
LEMMA PagesTyped ==
  /\ NoList \in ListType /\ Blank \in PageType /\ Torn \in PageType
  /\ \A kind \in {"fill", "stamp", "fw"}, e \in {"normal", "strong"} :
          Page(kind, e, NoList) \in PageType
  /\ \A l \in ListType : Page("list", "normal", l) \in PageType
<1>1. NoList \in ListType
  BY DEF NoList, ListType
<1> QED BY <1>1 DEF Blank, Torn, Page, PageType

\* Pages of different kinds differ.
LEMMA PagesDiffer ==
  /\ Blank # Torn
  /\ \A kind \in {"list", "fill", "stamp", "fw", "mark"} : \A e, l :
       Page(kind, e, l) # Blank /\ Page(kind, e, l) # Torn
  /\ \A kind \in {"list", "fill", "stamp", "fw", "mark"} : \A e, l : Page(kind, e, l).kind = kind
  /\ Blank.kind = "blank" /\ Torn.kind = "torn"
<1>1. \A kind, e, l : Page(kind, e, l).kind = kind
  BY DEF Page
<1>2. Blank.kind = "blank" /\ Torn.kind = "torn"
  BY DEF Page, Blank, Torn
<1> QED BY <1>1, <1>2

\* What holds of the installer and of the NAND.
InstInv == NandType /\ ProgType /\ ListInv /\ OrderInv

\* One page is written, or torn by a fault; the others stay.
LEMMA OnePage ==
  ASSUME InstallerConstants, NandType, ProgType,
         NEW pg \in BlockZero, NEW data \in PageType, ProgramPage(pg, data)
  PROVE  /\ blk0' \in [Bank -> [BlockZero -> PageType]]
         /\ \A c \in Bank : \A q \in BlockZero : c # bank \/ q # pg => blk0'[c][q] = blk0[c][q]
         /\ blk0'[bank][pg] \in {data, Torn}
         /\ faults' \in Nat /\ faults' <= MaxFaults
         /\ \/ faults' = faults /\ blk0'[bank][pg] = Programmed(blk0[bank][pg], data)
            \/ faults < MaxFaults /\ faults' = faults + 1 /\ blk0'[bank][pg] = Torn
<1>1. PICK new : /\ blk0' = [blk0 EXCEPT ![bank][pg] = new]
                 /\ \/ faults' = faults /\ new = Programmed(blk0[bank][pg], data)
                    \/ faults < MaxFaults /\ faults' = faults + 1 /\ new = Torn
  BY DEF ProgramPage, Fault, NoFault, NandType, ProgType
<1>2. new \in {data, Torn}
  BY <1>1 DEF Programmed
<1>3. new \in PageType
  BY <1>2, PagesTyped
<1>4. bank \in Bank /\ blk0 \in [Bank -> [BlockZero -> PageType]]
      /\ faults \in Nat /\ faults <= MaxFaults
  BY DEF ProgType, NandType
<1>5. /\ blk0' \in [Bank -> [BlockZero -> PageType]]
      /\ \A c \in Bank : \A q \in BlockZero : c # bank \/ q # pg => blk0'[c][q] = blk0[c][q]
      /\ blk0'[bank][pg] = new
  BY <1>1, <1>3, <1>4
<1>6. faults' \in Nat /\ faults' <= MaxFaults
  BY <1>1, <1>4 DEF InstallerConstants
<1> QED BY <1>1, <1>2, <1>4, <1>5, <1>6

\* The count of faults stays in its bound.
LEMMA FaultTyped ==
  ASSUME InstallerConstants, ProgType, NoFault \/ \E kind : Fault(kind)
  PROVE  faults' \in Nat /\ faults' <= MaxFaults
BY DEF InstallerConstants, ProgType, NoFault, Fault

\* What names only defects depends on the defects alone.
LEMMA ListsSame ==
  ASSUME UNCHANGED defects
  PROVE  \A b \in Bank : Lists(b)' = Lists(b)
BY DEF Lists

\* The installer starts with empty lists.
LEMMA NoHcTyped ==
  /\ NoHc \in [up : BOOLEAN, loaded : BOOLEAN, lists : [Bank -> ListType]]
  /\ NoHc.loaded = FALSE /\ \A b \in Bank : NoHc.lists[b] = NoList
BY PagesTyped DEF NoHc

\* A step that leaves the NAND and the files alone, and ends the installer.
LEMMA Exits ==
  ASSUME InstallerConstants, InstInv, Exit, NoFault \/ \E kind : Fault(kind),
         UNCHANGED <<nand, fwvars, disk, sdram>>, pc # "save"
  PROVE  InstInv'
<1>1. /\ pc' = "idle" /\ bank' = 0 /\ cmd' = 0 /\ hc' = NoHc /\ filled' = {} /\ ecc' = ecc
      /\ UNCHANGED <<defects, marks, blk0, mode, files, dir, sdram>>
  BY DEF Exit, nand, fwvars, disk
<1>2. NandType'
  BY <1>1 DEF InstInv, NandType
<1>3. ProgType'
  BY <1>1, FaultTyped, NoHcTyped, Sizes DEF InstInv, ProgType, Places
<1>4. ListInv'
  BY <1>1, ListsSame, ListsTyped, NoHcTyped DEF InstInv, ListInv, NandType
<1>5. OrderInv'
  BY <1>1 DEF InstInv, OrderInv, InstallPlaces
<1> QED BY <1>2, <1>3, <1>4, <1>5 DEF InstInv

\* A step that leaves the NAND and the files alone, and what it keeps.
LEMMA Moves ==
  ASSUME InstallerConstants, InstInv, NoFault \/ \E kind : Fault(kind),
         UNCHANGED <<nand, fwvars, disk, sdram, hc, filled, cmd>>, ecc' \in {"normal", "strong"},
         pc' \in Places, bank' \in Bank, pc # "save", pc' # "save",
         pc # "idle", pc' \in {"init", "scan"} => pc' = pc,
         pc' \in {"load", "install"} => pc \in {"load", "install"},
         pc' \in InstallPlaces => pc \in InstallPlaces \/ (pc = "install" /\ hc.loaded)
  PROVE  InstInv'
<1>1. UNCHANGED <<defects, marks, blk0, mode, files, dir, sdram, hc, filled, cmd>>
  BY DEF nand, fwvars, disk
<1>2. NandType'
  BY <1>1 DEF InstInv, NandType
<1>3. ProgType'
  BY <1>1, FaultTyped DEF InstInv, ProgType
<1>4. ListInv'
  BY <1>1, ListsSame DEF InstInv, ListInv
<1>5. OrderInv'
  BY <1>1 DEF InstInv, OrderInv
<1> QED BY <1>2, <1>3, <1>4, <1>5 DEF InstInv

\* A step that writes one page of block zero.
LEMMA Writes ==
  ASSUME InstallerConstants, InstInv, NEW pg \in BlockZero, NEW data \in PageType,
         ProgramPage(pg, data),
         pg = 0 => \E l \in Lists(bank) : data = Page("list", "normal", l),
         UNCHANGED <<defects, marks, fwvars, disk, sdram>>, pc \in InstallPlaces,
         \/ Exit
         \/ /\ UNCHANGED <<hc, filled, cmd>> /\ ecc' \in {"normal", "strong"}
            /\ pc' \in InstallPlaces /\ bank' \in Bank
  PROVE  InstInv'
<1>1. UNCHANGED <<defects, marks, mode, files, dir, sdram>>
  BY DEF fwvars, disk
<1>2. /\ blk0' \in [Bank -> [BlockZero -> PageType]]
      /\ \A c \in Bank : \A q \in BlockZero : c # bank \/ q # pg => blk0'[c][q] = blk0[c][q]
      /\ blk0'[bank][pg] \in {data, Torn}
      /\ faults' \in Nat /\ faults' <= MaxFaults
  BY OnePage DEF InstInv
<1>3. NandType'
  BY <1>1, <1>2 DEF InstInv, NandType
<1>4. ProgType' /\ \A b \in Bank : hc'.lists[b] \in {hc.lists[b], NoList}
  <2>1. CASE Exit
    BY <1>1, <1>2, <2>1, NoHcTyped, Sizes DEF InstInv, ProgType, Exit, Places
  <2>2. CASE /\ UNCHANGED <<hc, filled, cmd>> /\ ecc' \in {"normal", "strong"}
             /\ pc' \in InstallPlaces /\ bank' \in Bank
    BY <1>1, <1>2, <2>2 DEF InstInv, ProgType, Places
  <2> QED BY <2>1, <2>2
<1>5. ListInv'
  <2> SUFFICES ASSUME NEW b \in Bank
               PROVE  /\ hc'.lists[b] \in Lists(b) /\ files'[b].list \in Lists(b)
                      /\ blk0'[b][SCAN_LIST_PAGE_OFFSET]
                           \in {Blank, Torn} \cup {Page("list", "normal", l) : l \in Lists(b)}
    BY <1>1, ListsSame DEF ListInv
  <2>1. hc'.lists[b] \in Lists(b) /\ files'[b].list \in Lists(b)
    BY <1>1, <1>4, ListsTyped DEF InstInv, ListInv, NandType
  <2>2. CASE b = bank /\ pg = 0
    BY <1>2, <2>1, <2>2, Pages
  <2>3. CASE ~ (b = bank /\ pg = 0)
    BY <1>2, <2>1, <2>3, Pages DEF InstInv, ListInv
  <2> QED BY <2>1, <2>2, <2>3
<1>6. OrderInv'
  <2>1. dir /\ dir' /\ mode = "off" /\ sdram = DRAM_SIZE
    BY <1>1 DEF InstInv, OrderInv, InstallPlaces
  <2>2. pc' = "idle" \/ pc' \in InstallPlaces
    BY DEF Exit
  <2> QED BY <1>1, <2>1, <2>2 DEF OrderInv, InstallPlaces
<1> QED BY <1>3, <1>4, <1>5, <1>6 DEF InstInv

\* From one bank to the next one, or on to another place.
LEMMA NextBankIs ==
  ASSUME ProgType, NEW w, NextBankOr(w)
  PROVE  \/ bank \in Nat /\ bank < NUM_BANKS - 1 /\ bank' = bank + 1 /\ bank' \in Bank /\ pc' = pc
         \/ bank = NUM_BANKS - 1 /\ bank' = 0 /\ bank' \in Bank /\ pc' = w
BY Sizes DEF ProgType, NextBankOr, Goto

\* The steps of the installer, one lemma for each.
LEMMA OpenStep ==
  ASSUME InstallerConstants, InstInv, NEW c \in {0, 1}, Open(c)
  PROVE  InstInv' /\ UNCHANGED <<defects, fwvars>>
<1>1. /\ pc = "idle" /\ mode = "off" /\ hc' = NoHc /\ filled' = {} /\ faults' = faults
      /\ UNCHANGED <<defects, marks, blk0, mode, fwvars, files, dir, sdram, ecc>>
  BY DEF Open, NoFault, nand, fwvars, disk
<1>2. \/ UNCHANGED <<pc, bank, cmd>>
      \/ pc' = "init" /\ bank' = 0 /\ cmd' = c /\ sdram = DRAM_SIZE
  <2>1. \A hole : DetectSdramSize(sdram, hole) = DRAM_SIZE => sdram = DRAM_SIZE
    BY DEF InstInv, ProgType, DetectSdramSize, Aliases, Holds
  <2> QED BY <2>1 DEF Open, Goto
<1>3. NandType'
  BY <1>1 DEF InstInv, NandType
<1>4. ProgType'
  BY <1>1, <1>2, NoHcTyped, Sizes DEF InstInv, ProgType, Places
<1>5. ListInv'
  BY <1>1, ListsSame, ListsTyped, NoHcTyped DEF InstInv, ListInv, NandType
<1>6. OrderInv'
  BY <1>1, <1>2, NoHcTyped DEF InstInv, OrderInv, InstallPlaces
<1> QED BY <1>1, <1>3, <1>4, <1>5, <1>6 DEF InstInv

LEMMA InitStep ==
  ASSUME InstallerConstants, InstInv, Init_
  PROVE  InstInv' /\ UNCHANGED <<defects, fwvars>>
<1>1. /\ pc = "init" /\ ecc' = "normal" /\ bank' = 0
      /\ pc' \in {"scan", "load"}
      /\ UNCHANGED <<defects, marks, blk0, mode, fwvars, files, dir, sdram, cmd, filled>>
      /\ NoFault \/ \E kind : Fault(kind)
  BY DEF Init_, Goto, nand, fwvars, disk
<1>2. \E u \in BOOLEAN : hc' = [hc EXCEPT !.up = u]
  BY DEF Init_
<1>3. /\ hc' \in [up : BOOLEAN, loaded : BOOLEAN, lists : [Bank -> ListType]]
      /\ hc'.lists = hc.lists /\ hc'.loaded = hc.loaded
  BY <1>2 DEF InstInv, ProgType
<1>4. NandType'
  BY <1>1 DEF InstInv, NandType
<1>5. ProgType'
  BY <1>1, <1>3, FaultTyped, Sizes DEF InstInv, ProgType, Places
<1>6. ListInv'
  BY <1>1, <1>3, ListsSame DEF InstInv, ListInv
<1>7. OrderInv'
  BY <1>1, <1>3 DEF InstInv, OrderInv, InstallPlaces
<1> QED BY <1>1, <1>4, <1>5, <1>6, <1>7 DEF InstInv

LEMMA ScanStep ==
  ASSUME InstallerConstants, InstInv, Scan
  PROVE  InstInv' /\ UNCHANGED <<defects, fwvars>>
<1>1. /\ pc = "scan" /\ pc' = "mkdir" /\ bank' = 0 /\ faults' = faults
      /\ UNCHANGED <<defects, marks, blk0, mode, fwvars, files, dir, sdram, cmd, ecc>>
  BY DEF Scan, Goto, NoFault, nand, fwvars, disk
<1>2. \A b \in Bank : hc.lists[b] = NoList
  BY <1>1, NoHcTyped DEF InstInv, OrderInv
<1>3. \A b \in Bank : ScanResult(b) \in SUBSET defects[b]
  BY DEF InstInv, NandType, ScanResult
<1>4. \A b \in Bank : ListOf(ScanResult(b)) \in Lists(b) /\ ListOf(ScanResult(b)) \in ListType
  BY <1>3, ListsTyped DEF InstInv, NandType, Lists
<1>5. /\ hc' \in [up : BOOLEAN, loaded : BOOLEAN, lists : [Bank -> ListType]]
      /\ \A b \in Bank : hc'.lists[b] \in Lists(b)
      /\ filled' \subseteq Bank
  <2>1. CASE hc.up
    <3>1. \A b \in Bank : /\ hc.lists[b].num + Cardinality(ScanResult(b))
                                   = Cardinality(ScanResult(b))
                          /\ hc.lists[b].list \cup ScanResult(b) = ScanResult(b)
      <4>1. \A b \in Bank : Cardinality(ScanResult(b)) \in Nat
        BY <1>4 DEF ListOf, ListType
      <4> QED BY <1>2, <4>1 DEF NoList
    <3> DEFINE L == [b \in Bank |-> ListOf(ScanResult(b))]
    <3>2. hc' = [hc EXCEPT !.loaded = TRUE, !.lists = L]
      BY <2>1, <3>1 DEF Scan, ListOf
    <3>3. L \in [Bank -> ListType] /\ \A b \in Bank : L[b] \in Lists(b)
      BY <1>4
    <3> HIDE DEF L
    <3>4. /\ hc' \in [up : BOOLEAN, loaded : BOOLEAN, lists : [Bank -> ListType]]
          /\ hc'.lists = L
      BY <3>2, <3>3 DEF InstInv, ProgType
    <3> QED BY <2>1, <3>3, <3>4 DEF Scan
  <2>2. CASE ~hc.up
    BY <2>2 DEF Scan, InstInv, ProgType, ListInv
  <2> QED BY <2>1, <2>2
<1>6. NandType'
  BY <1>1 DEF InstInv, NandType
<1>7. ProgType'
  BY <1>1, <1>5, Sizes DEF InstInv, ProgType, Places
<1>8. ListInv'
  BY <1>1, <1>5, ListsSame DEF InstInv, ListInv
<1>9. OrderInv'
  BY <1>1 DEF InstInv, OrderInv, InstallPlaces
<1> QED BY <1>1, <1>6, <1>7, <1>8, <1>9 DEF InstInv

LEMMA MakeDirStep ==
  ASSUME InstallerConstants, InstInv, MakeDir
  PROVE  InstInv' /\ UNCHANGED <<defects, fwvars>>
<1>1. pc = "mkdir" /\ NoFault /\ UNCHANGED <<nand, defects, fwvars, files, sdram>>
  BY DEF MakeDir, nand
<1>2. CASE hc.loaded /\ ~dir
  <2>1. /\ dir' = TRUE /\ pc' = "save" /\ bank' = 0 /\ faults' = faults
        /\ UNCHANGED <<defects, marks, blk0, mode, hc, filled, cmd, ecc, files, sdram>>
    BY <1>1, <1>2 DEF MakeDir, Goto, NoFault, nand, fwvars
  <2>2. NandType'
    BY <2>1 DEF InstInv, NandType
  <2>3. ProgType'
    BY <2>1, Sizes DEF InstInv, ProgType, Places
  <2>4. ListInv'
    BY <2>1, ListsSame DEF InstInv, ListInv
  <2>5. OrderInv'
    <3>1. \A b \in Bank : ~ (b < 0)
      BY Sizes
    <3> QED BY <1>1, <1>2, <2>1, <3>1 DEF InstInv, OrderInv, InstallPlaces
  <2> QED BY <1>1, <2>2, <2>3, <2>4, <2>5 DEF InstInv
<1>3. CASE ~ (hc.loaded /\ ~dir)
  <2>1. Exit /\ UNCHANGED <<nand, fwvars, disk, sdram>>
    BY <1>1, <1>3 DEF MakeDir, disk
  <2> QED BY <1>1, <2>1, Exits
<1> QED BY <1>2, <1>3

LEMMA SaveStep ==
  ASSUME InstallerConstants, InstInv, SaveFile \/ StopInSave
  PROVE  InstInv' /\ UNCHANGED <<defects, fwvars>>
<1>1. /\ pc = "save"
      /\ NoFault \/ \E kind : Fault(kind)
      /\ UNCHANGED <<defects, marks, blk0, mode, fwvars, dir, sdram>>
  BY DEF SaveFile, StopInSave, nand, fwvars
<1>2. /\ \/ files' = files
         \/ files' = [files EXCEPT ![bank] = Short]
         \/ files' = [files EXCEPT ![bank] = Saved(hc.lists[bank])]
      /\ \/ Exit
         \/ /\ bank < NUM_BANKS - 1 /\ bank' = bank + 1 /\ UNCHANGED <<pc, hc, filled, cmd, ecc>>
            /\ files' = [files EXCEPT ![bank] = Saved(hc.lists[bank])]
  BY DEF SaveFile, StopInSave
<1>3. bank \in Bank /\ bank \in Nat /\ hc.lists[bank] \in ListType /\ hc.lists[bank] \in Lists(bank)
  BY Sizes DEF InstInv, ProgType, ListInv
<1>4. /\ files' \in [Bank -> [state : {"absent", "short", "saved"}, list : ListType]]
      /\ \A b \in Bank : files'[b].list \in {files[b].list, NoList}
           \cup {l \in {hc.lists[bank]} : b = bank}
      /\ \A b \in Bank : b # bank => files'[b] = files[b]
  BY <1>2, <1>3, PagesTyped DEF InstInv, ProgType, Short, Saved
<1>5. NandType'
  BY <1>1 DEF InstInv, NandType
<1>6. /\ hc' \in [up : BOOLEAN, loaded : BOOLEAN, lists : [Bank -> ListType]]
      /\ \A b \in Bank : hc'.lists[b] \in {hc.lists[b], NoList}
  BY <1>2, NoHcTyped DEF InstInv, ProgType, Exit
<1>7. ProgType'
  <2>1. /\ filled' \subseteq Bank /\ pc' \in {"idle", "save"}
        /\ cmd' \in {0, 1} /\ ecc' \in {"normal", "strong"}
    BY <1>1, <1>2 DEF InstInv, ProgType, Exit
  <2>2. bank' \in Bank
    BY <1>2, <1>3, Sizes DEF Exit
  <2> QED BY <1>1, <1>4, <1>6, <2>1, <2>2, FaultTyped DEF InstInv, ProgType, Places
<1>8. ListInv'
  BY <1>1, <1>3, <1>4, <1>6, ListsSame, ListsTyped DEF InstInv, ListInv, NandType
<1>9. OrderInv'
  <2>1. /\ dir' /\ mode = "off" /\ sdram = DRAM_SIZE
        /\ blk0 = [b \in Bank |-> [pg \in BlockZero |-> Blank]]
    BY <1>1 DEF InstInv, OrderInv
  <2>2. CASE Exit
    BY <1>1, <2>1, <2>2 DEF OrderInv, Exit, InstallPlaces
  <2>3. CASE /\ bank' = bank + 1 /\ UNCHANGED <<pc, hc, filled, cmd, ecc>>
             /\ files' = [files EXCEPT ![bank] = Saved(hc.lists[bank])]
    <3>1. \A b \in Bank : files'[b].state = IF b < bank' THEN "saved" ELSE "absent"
      <4>1. files'[bank].state = "saved"
        BY <2>3, <1>3 DEF InstInv, ProgType, Saved
      <4>2. \A b \in Bank : b # bank => (b < bank + 1 <=> b < bank)
        BY <1>3, Sizes
      <4>3. \A b \in Bank : b # bank => files'[b].state = IF b < bank THEN "saved" ELSE "absent"
        BY <1>1, <1>4 DEF InstInv, OrderInv
      <4>4. bank < bank + 1
        BY <1>3
      <4> QED BY <2>3, <4>1, <4>2, <4>3, <4>4
    <3> QED BY <1>1, <2>1, <2>3, <3>1 DEF OrderInv, InstallPlaces
  <2> QED BY <1>2, <2>2, <2>3
<1> QED BY <1>1, <1>5, <1>7, <1>8, <1>9 DEF InstInv

LEMMA LoadStep ==
  ASSUME InstallerConstants, InstInv, LoadFile
  PROVE  InstInv' /\ UNCHANGED <<defects, fwvars>>
<1>1. /\ pc = "load" /\ NoFault
      /\ UNCHANGED <<nand, defects, marks, blk0, mode, fwvars, disk, files, dir, sdram, cmd, ecc>>
  BY DEF LoadFile, nand, fwvars, disk
<1>2. CASE files[bank].state = "absent"
  <2>1. pc' = "install" /\ bank' = 0 /\ UNCHANGED <<hc, filled>>
    BY <1>2 DEF LoadFile, Goto
  <2>2. ecc' \in {"normal", "strong"} /\ pc' \in Places /\ bank' \in Bank
    BY <1>1, <2>1, Sizes DEF InstInv, ProgType, Places
  <2> QED BY <1>1, <2>1, <2>2, Moves DEF InstallPlaces
<1>3. CASE files[bank].state # "absent"
  <2>1. PICK l : /\ hc' = [hc EXCEPT !.loaded = TRUE, !.lists[bank] = l]
                 /\ l = files[bank].list \/ l = hc.lists[bank]
    BY <1>3 DEF LoadFile, InstInv, ProgType
  <2>2. bank \in Bank /\ l \in ListType /\ l \in Lists(bank)
    BY <2>1 DEF InstInv, ProgType, ListInv
  <2>3. /\ hc' \in [up : BOOLEAN, loaded : BOOLEAN, lists : [Bank -> ListType]]
        /\ \A b \in Bank : hc'.lists[b] \in Lists(b)
    <3> DEFINE L == [hc.lists EXCEPT ![bank] = l]
    <3>2. L \in [Bank -> ListType] /\ \A b \in Bank : L[b] \in Lists(b)
      BY <2>2 DEF InstInv, ProgType, ListInv
    <3>3. hc' = [hc EXCEPT !.loaded = TRUE, !.lists = L]
      BY <2>1 DEF InstInv, ProgType
    <3> HIDE DEF L
    <3> QED BY <3>2, <3>3 DEF InstInv, ProgType
  <2>4. filled' \subseteq Bank
    BY <1>3, <2>2 DEF LoadFile, InstInv, ProgType
  <2>5. bank' \in Bank /\ pc' \in {"load", "install"}
    <3>1. NextBankOr("install")
      BY <1>3 DEF LoadFile
    <3> QED BY <1>1, <3>1, NextBankIs DEF InstInv
  <2>6. NandType'
    BY <1>1 DEF InstInv, NandType
  <2>7. ProgType'
    BY <1>1, <2>3, <2>4, <2>5, FaultTyped DEF InstInv, ProgType, Places
  <2>8. ListInv'
    BY <1>1, <2>3, ListsSame DEF InstInv, ListInv
  <2>9. dir
    BY <1>3, <2>2 DEF InstInv, OrderInv
  <2>10. OrderInv'
    BY <1>1, <2>5, <2>9 DEF InstInv, OrderInv, InstallPlaces
  <2> QED BY <1>1, <2>6, <2>7, <2>8, <2>10 DEF InstInv
<1> QED BY <1>2, <1>3

LEMMA InstallStep ==
  ASSUME InstallerConstants, InstInv, Install
  PROVE  InstInv' /\ UNCHANGED <<defects, fwvars>>
<1>1. /\ pc = "install"
      /\ NoFault \/ \E kind : Fault(kind)
      /\ UNCHANGED <<nand, defects, fwvars, disk, sdram>>
  BY DEF Install, nand
<1>2. \/ Exit
      \/ /\ pc' = "erase" /\ bank' = 0 /\ hc.loaded
         /\ UNCHANGED <<hc, filled, cmd, ecc>>
  BY DEF Install, Goto, InstallAllowed
<1>3. CASE Exit
  BY <1>1, <1>3, Exits
<1>4. CASE /\ pc' = "erase" /\ bank' = 0 /\ hc.loaded
           /\ UNCHANGED <<hc, filled, cmd, ecc>>
  <2>1. ecc' \in {"normal", "strong"} /\ pc' \in Places /\ bank' \in Bank
    BY <1>4, Sizes DEF InstInv, ProgType, Places, InstallPlaces
  <2> QED BY <1>1, <1>4, <2>1, Moves
<1> QED BY <1>2, <1>3, <1>4

\* Block zero is in no list: it is erased, on both chips, or not at all.
LEMMA EraseIs ==
  ASSUME InstInv, EraseZero
  PROVE  /\ marks' = marks
         /\ \/ /\ faults' = faults
               /\ blk0' = [blk0 EXCEPT ![bank] = [pg \in BlockZero |-> Blank]]
            \/ faults < MaxFaults /\ faults' = faults + 1 /\ "erase" \in FaultKinds /\ blk0' = blk0
<1>1. bank \in Bank /\ defects \in DefectChoices
  BY DEF InstInv, ProgType, NandType
<1>2. \A e \in defects[bank] : e[1] > 0
  BY <1>1, DefectsUsable
<1>3. hc.lists[bank].list \subseteq defects[bank]
  BY <1>1 DEF InstInv, ListInv, Lists, ListOf
<1>4. ErasedChips(hc.lists[bank], 0) = Chip
  BY <1>2, <1>3 DEF ErasedChips
<1>5. marks[bank] \ ({0} \X Chip) = marks[bank]
  BY <1>1, <1>2 DEF InstInv, NandType
<1>6. marks \in [Bank -> SUBSET Entry]
  BY DEF InstInv, NandType
<1>7. [marks EXCEPT ![bank] = marks[bank]] = marks
  BY <1>1, <1>6
<1> QED BY <1>4, <1>5, <1>7 DEF EraseZero, NoFault, Fault

LEMMA EraseStep ==
  ASSUME InstallerConstants, InstInv, EraseZero
  PROVE  InstInv' /\ UNCHANGED <<defects, fwvars>>
<1>1. /\ pc = "erase" /\ NextBankOr("lists")
      /\ NoFault \/ \E kind : Fault(kind)
      /\ UNCHANGED <<defects, mode, fwvars, disk, files, dir, sdram, hc, filled, cmd, ecc>>
  BY DEF EraseZero, fwvars, disk
<1>2. bank' \in Bank /\ pc' \in {"erase", "lists"}
  BY <1>1, NextBankIs DEF InstInv
<1>3. UNCHANGED marks /\ \/ UNCHANGED blk0
                         \/ blk0' = [blk0 EXCEPT ![bank] = [pg \in BlockZero |-> Blank]]
  BY EraseIs
<1>4. NandType'
  BY <1>1, <1>3, PagesTyped DEF InstInv, NandType
<1>5. ProgType'
  BY <1>1, <1>2, FaultTyped DEF InstInv, ProgType, Places, InstallPlaces
<1>6. ListInv'
  <2>1. \A b \in Bank : blk0'[b][SCAN_LIST_PAGE_OFFSET] \in {blk0[b][SCAN_LIST_PAGE_OFFSET], Blank}
    BY <1>3, Pages DEF InstInv, NandType
  <2> QED BY <1>1, <2>1, ListsSame DEF InstInv, ListInv
<1>7. OrderInv'
  BY <1>1, <1>2 DEF InstInv, OrderInv, InstallPlaces
<1> QED BY <1>1, <1>4, <1>5, <1>6, <1>7 DEF InstInv

LEMMA WriteListsStep ==
  ASSUME InstallerConstants, InstInv, WriteLists
  PROVE  InstInv' /\ UNCHANGED <<defects, fwvars>>
<1>1. /\ pc = "lists" /\ ecc' = "normal" /\ ProgramPage(0, ListPage(bank)) /\ NextBankOr("compare")
      /\ UNCHANGED <<defects, marks, fwvars, disk, sdram, hc, filled, cmd>>
  BY Pages DEF WriteLists
<1>2. bank' \in Bank /\ pc' \in InstallPlaces
  BY <1>1, NextBankIs DEF InstInv, InstallPlaces
<1>3. PICK l \in Lists(bank) : l = hc.lists[bank] /\ l \in ListType
  BY DEF InstInv, ListInv, ProgType
<1>4. ListPage(bank) = Page("list", "normal", l)
  BY <1>3 DEF ListPage
<1>5. ListPage(bank) \in PageType
  BY <1>3, <1>4, PagesTyped
<1>6. pc \in InstallPlaces /\ 0 \in BlockZero
  BY <1>1, Pages DEF InstallPlaces
<1> QED BY <1>1, <1>2, <1>4, <1>5, <1>6, Writes

LEMMA CompareStep ==
  ASSUME InstallerConstants, InstInv, CompareLists
  PROVE  InstInv' /\ UNCHANGED <<defects, fwvars>>
<1>1. pc = "compare" /\ NoFault /\ UNCHANGED <<nand, defects, fwvars, disk, sdram>>
  BY DEF CompareLists, nand
<1>2. CASE Exit
  BY <1>1, <1>2, Exits
<1>3. CASE pc' = "fill" /\ bank' = 0 /\ UNCHANGED <<hc, filled, cmd, ecc>>
  <2>1. ecc' \in {"normal", "strong"} /\ pc' \in Places /\ bank' \in Bank
    BY <1>3, Sizes DEF InstInv, ProgType, Places, InstallPlaces
  <2> QED BY <1>1, <1>3, <2>1, Moves DEF InstallPlaces
<1> QED BY <1>2, <1>3 DEF CompareLists, Goto

\* The first page that is still to be written.
LEMMA FirstOf ==
  ASSUME NEW T \in SUBSET BlockZero, T # {}
  PROVE  First(T) \in T
<1>1. T \in SUBSET Nat
  <2>1. FormatMarkPage \in Nat
    BY BadBlocksAssumption, Sizes DEF FormatMarkPage, BadBlocksConstants
  <2> QED BY <2>1, Pages DEF BlockZero
<1> QED BY <1>1, Least

LEMMA FillStep ==
  ASSUME InstallerConstants, InstInv, FillPages
  PROVE  InstInv' /\ UNCHANGED <<defects, fwvars>>
<1> DEFINE todo == {pg \in SCAN_LIST_PAGE_OFFSET + 1 .. STAMP_PAGE_OFFSET - 1 :
                      blk0[bank][pg] # Page("fill", "normal", NoList)}
<1>1. /\ pc = "fill" /\ pc \in InstallPlaces
      /\ UNCHANGED <<defects, marks, fwvars, disk, sdram>>
  BY DEF FillPages, InstallPlaces
<1>2. CASE todo = {}
  <2>1. /\ NextBankOr("stamp") /\ NoFault
        /\ ecc' \in {"strong", ecc} /\ UNCHANGED <<nand, hc, filled, cmd>>
    BY <1>1, <1>2 DEF FillPages, nand
  <2>2. pc' \in {"fill", "stamp"} /\ bank' \in Bank
    BY <1>1, <2>1, NextBankIs DEF InstInv
  <2>3. ecc' \in {"normal", "strong"} /\ pc' \in Places
    BY <2>1, <2>2 DEF InstInv, ProgType, Places, InstallPlaces
  <2> QED BY <1>1, <2>1, <2>2, <2>3, Moves DEF InstallPlaces
<1>3. CASE todo # {}
  <2>1. PICK pg : pg = First(todo)
    OBVIOUS
  <2>2. pg \in 1 .. STAMP_PAGE_OFFSET - 1
    <3>1. \A q \in SCAN_LIST_PAGE_OFFSET + 1 .. STAMP_PAGE_OFFSET - 1 :
            q \in 1 .. STAMP_PAGE_OFFSET - 1
      BY Pages
    <3>2. todo \in SUBSET BlockZero
      BY <3>1, Pages
    <3>3. pg \in todo
      BY <1>3, <2>1, <3>2, FirstOf
    <3> QED BY <3>1, <3>3
  <2>3. /\ ProgramPage(pg, Page("fill", "normal", NoList))
        /\ Exit \/ UNCHANGED prog
    BY <1>3, <2>1 DEF FillPages
  <2>4. pg \in BlockZero /\ pg # 0
    BY <2>2, Pages
  <2>5. Page("fill", "normal", NoList) \in PageType
    BY PagesTyped
  <2>6. UNCHANGED prog => /\ UNCHANGED <<hc, filled, cmd>> /\ ecc' \in {"normal", "strong"}
                          /\ pc' \in InstallPlaces /\ bank' \in Bank
    BY <1>1 DEF prog, InstInv, ProgType
  <2> QED BY <1>1, <2>3, <2>4, <2>5, <2>6, Writes
<1> QED BY <1>2, <1>3

LEMMA StampStep ==
  ASSUME InstallerConstants, InstInv, WriteStamp
  PROVE  InstInv' /\ UNCHANGED <<defects, fwvars>>
<1>1. /\ pc = "stamp" /\ pc \in InstallPlaces
      /\ UNCHANGED <<defects, marks, fwvars, disk, sdram>>
      /\ ProgramPage(STAMP_PAGE_OFFSET, Page("stamp", ecc, NoList))
  BY DEF WriteStamp, InstallPlaces
<1>2. /\ STAMP_PAGE_OFFSET \in BlockZero /\ STAMP_PAGE_OFFSET # 0
      /\ Page("stamp", ecc, NoList) \in PageType
  BY Pages, PagesTyped DEF InstInv, ProgType
<1>3. \/ Exit
      \/ /\ UNCHANGED <<hc, filled, cmd>> /\ ecc' \in {"normal", "strong"}
         /\ pc' \in InstallPlaces /\ bank' \in Bank
  <2>1. \/ Exit
        \/ bank < NUM_BANKS - 1 /\ bank' = bank + 1 /\ UNCHANGED <<pc, hc, filled, cmd, ecc>>
        \/ pc' = "image" /\ bank' = 0 /\ UNCHANGED <<hc, filled, cmd, ecc>>
    BY DEF WriteStamp, Goto
  <2> QED BY <1>1, <2>1, Sizes DEF InstInv, ProgType, InstallPlaces
<1> QED BY <1>1, <1>2, <1>3, Writes

LEMMA ImageStep ==
  ASSUME InstallerConstants, InstInv, WriteImage
  PROVE  InstInv' /\ UNCHANGED <<defects, fwvars>>
<1> DEFINE todo == {pg \in FwPages : blk0[bank][pg] # Page("fw", ecc, NoList)}
<1>1. /\ pc = "image" /\ pc \in InstallPlaces
      /\ UNCHANGED <<defects, marks, fwvars, disk, sdram>>
  BY DEF WriteImage, InstallPlaces
<1>2. CASE todo = {}
  <2>1. /\ NoFault /\ UNCHANGED nand
        /\ \/ Exit
           \/ bank < NUM_BANKS - 1 /\ bank' = bank + 1 /\ UNCHANGED <<pc, hc, filled, cmd, ecc>>
    BY <1>1, <1>2 DEF WriteImage, nand
  <2>2. CASE Exit
    BY <1>1, <2>1, <2>2, Exits
  <2>3. CASE bank < NUM_BANKS - 1 /\ bank' = bank + 1 /\ UNCHANGED <<pc, hc, filled, cmd, ecc>>
    <3>1. ecc' \in {"normal", "strong"} /\ pc' \in Places /\ bank' \in Bank
      BY <1>1, <2>3, Sizes DEF InstInv, ProgType, Places
    <3> QED BY <1>1, <2>1, <2>3, <3>1, Moves DEF InstallPlaces
  <2> QED BY <2>1, <2>2, <2>3
<1>3. CASE todo # {}
  <2>1. PICK pg : pg = First(todo)
    OBVIOUS
  <2>2. pg \in FwPages
    <3>1. todo \in SUBSET BlockZero
      BY Pages
    <3>2. pg \in todo
      BY <1>3, <2>1, <3>1, FirstOf
    <3> QED BY <3>2
  <2>3. /\ ProgramPage(pg, Page("fw", ecc, NoList))
        /\ Exit \/ UNCHANGED prog
    BY <1>3, <2>1 DEF WriteImage
  <2>4. pg \in BlockZero /\ pg # 0 /\ Page("fw", ecc, NoList) \in PageType
    BY <2>2, Pages, PagesTyped DEF InstInv, ProgType
  <2>5. UNCHANGED prog => /\ UNCHANGED <<hc, filled, cmd>> /\ ecc' \in {"normal", "strong"}
                          /\ pc' \in InstallPlaces /\ bank' \in Bank
    BY <1>1 DEF prog, InstInv, ProgType
  <2> QED BY <1>1, <2>3, <2>4, <2>5, Writes
<1> QED BY <1>2, <1>3

LEMMA StopStep ==
  ASSUME InstallerConstants, InstInv, Stop
  PROVE  InstInv' /\ UNCHANGED <<defects, fwvars>>
<1>1. /\ pc # "save" /\ Exit /\ UNCHANGED <<nand, defects, fwvars, disk, sdram>>
      /\ NoFault \/ \E kind : Fault(kind)
  BY DEF Stop, nand
<1> QED BY <1>1, Exits

\* The firmware leaves the files, the installer and the page of the list alone,
\* and a drive whose list was never saved does not start.
LEMMA FirmwareLeaves ==
  ASSUME InstInv, FwType, FirmwareStep
  PROVE  InstInv'
<1>1. /\ pc = "idle" /\ Firmware
      /\ UNCHANGED <<hc, filled, pc, bank, cmd, ecc, files, dir, sdram, faults>>
  BY DEF FirmwareStep, prog, disk
<1>2. defects' = defects
  BY <1>1 DEF Firmware, InitBlkmgr, Format, GetLogPpn, RecordTag, CheckThreshold, PowerOff,
              EraseInUse, nand, roles, logvars
<1>3. NandType'
  BY <1>1, FwNand DEF InstInv
<1>4. ProgType'
  BY <1>1 DEF InstInv, ProgType
<1>5. \/ UNCHANGED blk0
      \/ /\ mode # "off"
         /\ \A b \in Bank : \A q \in BlockZero : q # FormatMarkPage => blk0'[b][q] = blk0[b][q]
  <2>1. CASE Format
    <3>1. mode = "open"
      BY <2>1 DEF Format
    <3>2. PICK new : blk0' = [blk0 EXCEPT ![0][FormatMarkPage] = new]
      BY <2>1 DEF Format
    <3> QED BY <3>1, <3>2 DEF InstInv, NandType
  <2>2. CASE ~Format
    BY <1>1, <2>2
       DEF Firmware, InitBlkmgr, GetLogPpn, RecordTag, CheckThreshold, PowerOff, EraseInUse, nand
  <2> QED BY <2>1, <2>2
<1>6. ListInv'
  <2>1. \A b \in Bank : blk0'[b][SCAN_LIST_PAGE_OFFSET] = blk0[b][SCAN_LIST_PAGE_OFFSET]
    BY <1>5, Pages
  <2> QED BY <1>1, <1>2, <2>1, ListsSame DEF InstInv, ListInv
<1>7. OrderInv'
  <2>1. CASE dir
    BY <1>1, <2>1 DEF InstInv, OrderInv, InstallPlaces
  <2>2. CASE ~dir
    <3>1. mode = "off" /\ blk0 = [b \in Bank |-> [pg \in BlockZero |-> Blank]]
      BY <2>2 DEF InstInv, OrderInv
    <3>2. ~Bootable
      <4>1. blk0[BootBank][STAMP_PAGE_OFFSET] = Blank
        BY <3>1, Pages, Sizes DEF BootBank
      <4> QED BY <4>1, PagesDiffer DEF Bootable
    <3>3. FALSE
      BY <1>1, <3>1, <3>2 DEF Firmware, InitBlkmgr, Format, GetLogPpn, RecordTag, CheckThreshold,
                              PowerOff, EraseInUse
    <3> QED BY <3>3
  <2> QED BY <2>1, <2>2
<1> QED BY <1>3, <1>4, <1>6, <1>7 DEF InstInv

-----------------------------------------------------------------------------
\* The initial states satisfy the invariant.
LEMMA InitAny ==
  ASSUME InstallerConstants, Init
  PROVE  AnyInv
<1>1. /\ defects \in DefectChoices /\ marks = defects
      /\ blk0 = [b \in Bank |-> [pg \in BlockZero |-> Blank]] /\ mode = "off"
      /\ hc = NoHc /\ filled = {} /\ pc = "idle" /\ bank = 0 /\ cmd = 0 /\ ecc = "normal"
      /\ files = [b \in Bank |-> Absent] /\ dir = FALSE
      /\ sdram \in {16, 32, 64} /\ faults = 0
  BY DEF Init, FwInit
<1>2. NandType
  <2>1. defects \in [Bank -> SUBSET Entry]
    BY <1>1, BadBlocksAssumption DEF BadBlocksConstants
  <2> QED BY <1>1, <2>1, PagesTyped DEF NandType
<1>3. FwType
  BY Sizes DEF Init, FwInit, FwType, RoleType
<1>4. ProgType
  <2>1. files \in [Bank -> [state : {"absent", "short", "saved"}, list : ListType]]
    BY <1>1, PagesTyped DEF Absent
  <2>2. faults \in Nat /\ faults <= MaxFaults
    BY <1>1 DEF InstallerConstants
  <2>3. hc \in [up : BOOLEAN, loaded : BOOLEAN, lists : [Bank -> ListType]]
    BY <1>1, NoHcTyped
  <2>4. /\ filled \subseteq Bank /\ pc \in Places /\ bank \in Bank /\ cmd \in {0, 1}
        /\ ecc \in {"normal", "strong"} /\ dir \in BOOLEAN
    BY <1>1, Sizes DEF Places
  <2> QED BY <1>1, <2>1, <2>2, <2>3, <2>4 DEF ProgType
<1>5. ListInv
  <2>1. \A b \in Bank : files[b].list = NoList /\ blk0[b][SCAN_LIST_PAGE_OFFSET] = Blank
    BY <1>1, Pages DEF Absent
  <2> QED BY <1>1, <2>1, NoHcTyped, ListsTyped DEF ListInv
<1>6. FwInv /\ LogInv
  BY <1>1 DEF FwInv, LogInv
<1>7. OrderInv
  <2>1. \A b \in Bank : files[b].state = "absent"
    BY <1>1 DEF Absent
  <2> QED BY <1>1, <2>1 DEF OrderInv, InstallPlaces
<1> QED BY <1>2, <1>3, <1>4, <1>5, <1>6, <1>7 DEF AnyInv, TypeOK

\* Every step keeps it.
LEMMA StepAny ==
  ASSUME InstallerConstants, AnyInv, [Next]_vars
  PROVE  AnyInv'
<1> USE DEF AnyInv, TypeOK
<1>1. InstInv
  BY DEF InstInv
<1>2. CASE UNCHANGED vars
  <2>1. /\ UNCHANGED <<defects, marks, blk0>>
        /\ UNCHANGED <<mode, bmp, vcmax, role, blk_log, log_ppn, log_blk_cnt, bank_active, used>>
        /\ UNCHANGED <<hc, filled, pc, bank, cmd, ecc, files, dir, sdram, faults>>
    BY <1>2 DEF vars, nand, fwvars, roles, logvars, prog, disk
  <2>2. NandType' /\ FwType' /\ ProgType' /\ OrderInv'
    BY <2>1 DEF NandType, FwType, ProgType, OrderInv
  <2>3. ListInv'
    BY <2>1, ListsSame DEF ListInv
  <2>4. FwInv' /\ LogInv'
    BY <2>1 DEF FwInv, LogInv, LogAt, PagesLeft, LogBlk
  <2> QED BY <2>2, <2>3, <2>4
<1>3. CASE FirmwareStep
  <2>1. InstInv'
    BY <1>1, <1>3, FirmwareLeaves
  <2>2. FwType' /\ FwInv' /\ LogInv'
    BY <1>3, FirmwareKeeps DEF FirmwareStep
  <2> QED BY <2>1, <2>2 DEF InstInv
<1>4. CASE Next /\ ~FirmwareStep
  <2>1. InstInv' /\ UNCHANGED <<defects, fwvars>>
    BY <1>1, <1>4, OpenStep, InitStep, ScanStep, MakeDirStep, SaveStep, LoadStep, InstallStep,
       EraseStep, WriteListsStep, CompareStep, FillStep, StampStep, ImageStep, StopStep
       DEF Next, InstallerStep
  <2>2. FwType' /\ FwInv' /\ LogInv'
    <3>1. UNCHANGED <<defects, mode, bmp,
                       vcmax, role, blk_log, log_ppn, log_blk_cnt, bank_active, used>>
      BY <2>1 DEF fwvars, roles, logvars
    <3> QED BY <3>1 DEF FwType, FwInv, LogInv, LogAt, PagesLeft, LogBlk
  <2> QED BY <2>1, <2>2 DEF InstInv
<1> QED BY <1>2, <1>3, <1>4

\* Every reachable state has its type: the bad blocks found are a bank's, the
\* pages of block zero and the files hold lists, the log is in its blocks.
THEOREM InstallerTypeCorrect ==
  ASSUME InstallerConstants
  PROVE  Spec => []TypeOK
<1>1. Init => AnyInv
  BY InitAny
<1>2. AnyInv /\ [Next]_vars => AnyInv'
  BY StepAny
<1>3. AnyInv => TypeOK
  BY DEF AnyInv
<1> QED BY <1>1, <1>2, <1>3, PTL DEF Spec

\* The invariant of every reachable state.
LEMMA AnyInvHolds ==
  ASSUME InstallerConstants
  PROVE  Spec => []AnyInv
<1>1. Init => AnyInv
  BY InitAny
<1>2. AnyInv /\ [Next]_vars => AnyInv'
  BY StepAny
<1> QED BY <1>1, <1>2, PTL DEF Spec

\* The blocks that erase_all_log_blks finds through the valid counts are those
\* get_log_blk hands out by the bitmap, and "running out of log blocks"
\* (blkmgr.c:134) does not happen, for every number of banks, planes, blocks and
\* pages, and wherever the bad blocks are.
THEOREM LogOfGoodBlks ==
  ASSUME InstallerConstants
  PROVE  Spec => [](LogEraseExact /\ LogNeverRunsOut)
<1>1. AnyInv => LogEraseExact /\ LogNeverRunsOut
  <2> SUFFICES ASSUME AnyInv
               PROVE  LogEraseExact /\ LogNeverRunsOut
    OBVIOUS
  <2>1. LogNeverRunsOut
    BY DEF AnyInv, LogInv, LogNeverRunsOut
  <2>2. ASSUME mode = "run"
        PROVE  \A b \in Bank : BlksKnown(b)
    <3> SUFFICES ASSUME NEW b \in Bank
                 PROVE  BlksKnown(b)
      OBVIOUS
    <3>1. PICK bad \in SUBSET BadVBlks(b, defects[b]) : bad = bmp[b]
      BY <2>2 DEF AnyInv, FwInv
    <3>2. Enough(bad)
      BY EnoughGood DEF AnyInv, TypeOK, NandType
    <3> QED BY <2>2, <3>1, <3>2 DEF AnyInv, FwInv, BlksKnown
  <2>3. LogEraseExact
    BY <2>2, ErasesTheLog DEF LogEraseExact
  <2> QED BY <2>1, <2>3
<1> QED BY <1>1, AnyInvHolds, PTL

\* The installer goes on only with a drive whose SDRAM is of the size the
\* firmware was built for (open_target_drv).
THEOREM SdramIsAsBuilt ==
  ASSUME InstallerConstants
  PROVE  Spec => []SdramAsBuilt
<1>1. AnyInv => SdramAsBuilt
  BY DEF AnyInv, OrderInv, SdramAsBuilt
<1> QED BY <1>1, AnyInvHolds, PTL

-----------------------------------------------------------------------------
(***************************************************************************)
(* The marks, and the drive that starts, as long as no save was cut off.   *)
(***************************************************************************)

\* A page that leaves the list, the stamp and the image as they are.
LEMMA BootSame ==
  ASSUME \A pg \in FwPages \cup {STAMP_PAGE_OFFSET} : blk0'[BootBank][pg] = blk0[BootBank][pg]
  PROVE  Bootable' <=> Bootable
BY DEF Bootable

\* A boot bank that was erased does not start.
LEMMA BlankDoesNotBoot ==
  ASSUME blk0[BootBank] = [pg \in BlockZero |-> Blank]
  PROVE  ~Bootable
<1>1. blk0[BootBank][STAMP_PAGE_OFFSET] = Blank
  BY Pages
<1> QED BY <1>1, PagesDiffer DEF Bootable

\* Once a save was cut off, it is so for good.
LEMMA CutOffStays ==
  ASSUME AnyInv, [Next]_vars, SaveCutOff
  PROVE  SaveCutOff'
<1>1. dir /\ pc # "save" /\ \E b \in Bank : files[b].state # "saved"
  BY DEF SaveCutOff
<1>2. ~MakeDir \/ Exit
  BY <1>1 DEF MakeDir
<1>3. pc' # "save" /\ UNCHANGED <<files, dir>>
  <2>1. CASE UNCHANGED vars \/ FirmwareStep
    BY <1>1, <2>1 DEF vars, FirmwareStep, prog, disk
  <2>2. CASE Open(0) \/ Open(1) \/ Init_ \/ Scan \/ LoadFile \/ Install
    BY <1>1, <2>2 DEF Open, Init_, Scan, LoadFile, Install, Goto, NextBankOr, Exit, disk
  <2>3. CASE EraseZero \/ WriteLists \/ CompareLists
    BY <1>1, <2>3 DEF EraseZero, WriteLists, CompareLists, Goto, NextBankOr, Exit, disk
  <2>4. CASE FillPages
    BY <1>1, <2>4 DEF FillPages, Goto, NextBankOr, Exit, disk, prog
  <2>5. CASE WriteStamp
    BY <1>1, <2>5 DEF WriteStamp, Goto, Exit, disk
  <2>6. CASE WriteImage
    BY <1>1, <2>6 DEF WriteImage, Exit, disk, prog
  <2>7. CASE MakeDir
    BY <1>1, <2>7 DEF MakeDir, Exit
  <2>8. CASE Stop
    BY <1>1, <2>8 DEF Stop, Exit, disk
  <2>9. CASE SaveFile \/ StopInSave
    BY <1>1, <2>9 DEF SaveFile, StopInSave
  <2> QED BY <2>1, <2>2, <2>3, <2>4, <2>5, <2>6, <2>7, <2>8, <2>9 DEF Next, InstallerStep
<1> QED BY <1>1, <1>3 DEF SaveCutOff

\* Between the erase of block zero and the comparison of the lists.
Risky == pc \in {"lists", "compare"} \/ (pc = "erase" /\ bank > 0)

\* A step that writes nothing.
LEMMA BootQuiet ==
  ASSUME InstallerConstants, ProgType, BootInv, ~Risky, ~Risky', UNCHANGED <<blk0, defects>>,
         NoFault \/ \E kind : Fault(kind),
         pc' \in {"fill", "stamp", "image"} => pc \in {"fill", "stamp", "image"}
  PROVE  BootInv'
<1>1. faults' = 0 => faults = 0
  BY DEF ProgType, NoFault, Fault
<1>2. AllLists' <=> AllLists
  BY DEF AllLists, HasList
<1>3. Bootable' <=> Bootable
  BY BootSame
<1>4. Bootable => AllLists
  BY DEF BootInv, Risky
<1>5. Bootable' => IF Risky' THEN EraseFailed' ELSE AllLists'
  BY <1>2, <1>3, <1>4
<1>6. faults' = 0 => \A b \in Bank :
        blk0'[b][SCAN_LIST_PAGE_OFFSET] \in {Blank, ListPageOf(defects'[b])}
  BY <1>1 DEF BootInv
<1>7. pc' \in {"fill", "stamp", "image"} => AllLists'
  BY <1>2 DEF BootInv
<1> QED BY <1>5, <1>6, <1>7 DEF BootInv, Risky

\* A step after the comparison: the lists stay.
LEMMA BootWrites ==
  ASSUME AllLists, defects' = defects,
         \A b \in Bank : blk0'[b][SCAN_LIST_PAGE_OFFSET] = blk0[b][SCAN_LIST_PAGE_OFFSET],
         pc' \in {"idle", "fill", "stamp", "image"}
  PROVE  BootInv'
<1>1. AllLists'
  BY DEF AllLists, HasList
<1>2. ~Risky'
  BY DEF Risky
<1>3. \A b \in Bank : blk0'[b][SCAN_LIST_PAGE_OFFSET] \in {Blank, ListPageOf(defects'[b])}
  BY <1>1 DEF AllLists, HasList
<1> QED BY <1>1, <1>2, <1>3 DEF BootInv, Risky

\* What the lists name, after a step of the install.
LEMMA FullMoves ==
  ASSUME FullInv, UNCHANGED <<defects, files, mode, bmp>>,
         \A b \in Bank : blk0'[b][SCAN_LIST_PAGE_OFFSET] \in {Blank, Torn, ListPageOf(defects[b])},
         pc' = "idle" \/ (hc' = hc /\ pc \in InstallPlaces /\ pc' \in InstallPlaces)
  PROVE  FullInv'
BY DEF FullInv, Full, InstallPlaces

\* The firmware erases no bad block.
LEMMA FirmwareKeepsMarks ==
  ASSUME InstallerConstants, AnyInv, marks = defects, FullInv, BootInv, FirmwareStep
  PROVE  /\ marks' = marks
         /\ \A b \in Bank : mode' # "off" => BadVBlks(b, defects[b]) \ {0} \subseteq bmp'[b]
<1> USE DEF AnyInv, TypeOK
<1>1. pc = "idle" /\ Firmware /\ defects \in DefectChoices /\ marks \in [Bank -> SUBSET Entry]
  BY DEF FirmwareStep, NandType
<1>2. CASE InitBlkmgr
  <2>1. AllLists /\ bmp' = [b \in Bank |-> BuildBadBlkList(b)]
        /\ marks' = [b \in Bank |-> Erased(b, EraseAll(bmp'[b]))]
    BY <1>1, <1>2 DEF InitBlkmgr, BootInv
  <2>2. \A b \in Bank : BadVBlks(b, defects[b]) \ {0} \subseteq bmp'[b]
    BY <1>1, <2>1, AllAreFound DEF AllLists
  <2>3. \A b \in Bank : Erased(b, EraseAll(bmp'[b])) = marks[b]
    <3> SUFFICES ASSUME NEW b \in Bank
                 PROVE  Erased(b, EraseAll(bmp'[b])) = marks[b]
      OBVIOUS
    <3>1. PICK bad : bad = bmp'[b] /\ BadVBlks(b, defects[b]) \ {0} \subseteq bad
      BY <2>2
    <3>2. PICK S : S = EraseAll(bad)
      OBVIOUS
    <3>3. S \in SUBSET (VBlk \ {0}) /\ S \cap bad = {}
      BY <3>2 DEF EraseAll
    <3>4. Erased(b, S) = marks[b]
      BY <3>1, <3>3, ErasesNoBad
    <3> QED BY <3>1, <3>2, <3>4
  <2> QED BY <1>1, <2>1, <2>2, <2>3
<1>3. CASE mode = "off" /\ ~InitBlkmgr
  BY <1>1, <1>3 DEF Firmware, Format, GetLogPpn, RecordTag, CheckThreshold, PowerOff, EraseInUse
<1>4. CASE mode # "off"
  <2>1. \A b \in Bank : BadVBlks(b, defects[b]) \ {0} \subseteq bmp[b]
    BY <1>4 DEF FullInv
  <2>2. PowerOff \/ UNCHANGED bmp
    BY <1>1, <1>4 DEF Firmware, InitBlkmgr, Format, GetLogPpn, RecordTag, CheckThreshold,
                      EraseInUse, fwvars, roles
  <2>3. PowerOff => mode' = "off"
    BY DEF PowerOff
  <2>4. \A b \in Bank : \A S \in SUBSET Good(bmp[b]) : Erased(b, S) = marks[b]
    <3> SUFFICES ASSUME NEW b \in Bank, NEW S \in SUBSET Good(bmp[b])
                 PROVE  Erased(b, S) = marks[b]
      OBVIOUS
    <3>1. PICK bad : bad = bmp[b] /\ BadVBlks(b, defects[b]) \ {0} \subseteq bad
      BY <2>1
    <3>2. S \in SUBSET (VBlk \ {0}) /\ S \cap bad = {}
      <4>1. \A v \in S : v \in 2 .. VBLKS_PER_BANK - 1 /\ v \notin bad
        BY <3>1 DEF Good
      <4>2. \A v \in 2 .. VBLKS_PER_BANK - 1 : v \in VBlk /\ v # 0
        BY Sizes DEF VBlk
      <4> QED BY <4>1, <4>2
    <3> QED BY <3>1, <3>2, ErasesNoBad
  <2>5. \A b \in Bank : /\ role[b].map \subseteq Good(bmp[b]) /\ role[b].log \subseteq Good(bmp[b])
                        /\ role[b].data \subseteq Good(bmp[b])
    <3> SUFFICES ASSUME NEW b \in Bank
                 PROVE  /\ role[b].map \subseteq Good(bmp[b]) /\ role[b].log \subseteq Good(bmp[b])
                        /\ role[b].data \subseteq Good(bmp[b])
      OBVIOUS
    <3>1. PICK bad \in SUBSET BadVBlks(b, defects[b]) : bad = bmp[b] /\ role[b] = Roles(bad)
      BY <1>4 DEF FwInv
    <3>2. Enough(bad)
      BY <1>1, EnoughGood
    <3> QED BY <3>1, <3>2, RoleOfLog
  <2>6. marks' = marks
    <3>1. CASE Format
      <4>1. marks' = [b \in Bank |-> Erased(b, EraseAll(bmp[b]))]
        BY <3>1 DEF Format
      <4>2. \A b \in Bank : Erased(b, EraseAll(bmp[b])) = marks[b]
        <5> SUFFICES ASSUME NEW b \in Bank
                     PROVE  Erased(b, EraseAll(bmp[b])) = marks[b]
          OBVIOUS
        <5>1. PICK bad : bad = bmp[b] /\ BadVBlks(b, defects[b]) \ {0} \subseteq bad
          BY <2>1
        <5>2. PICK S : S = EraseAll(bad)
          OBVIOUS
        <5>3. S \in SUBSET (VBlk \ {0}) /\ S \cap bad = {}
          BY <5>2 DEF EraseAll
        <5>4. Erased(b, S) = marks[b]
          BY <5>1, <5>3, ErasesNoBad
        <5> QED BY <5>1, <5>2, <5>4
      <4> QED BY <1>1, <4>1, <4>2
    <3>2. CASE RecordTag
      <4>1. CASE ReachReclaim
        <5>1. marks' = [b \in Bank |-> Erased(b, LogErased(b))]
          BY <3>2, <4>1 DEF RecordTag
        <5>2. \A b \in Bank : BlksKnown(b)
          <6> SUFFICES ASSUME NEW b \in Bank
                       PROVE  BlksKnown(b)
            OBVIOUS
          <6>1. mode = "run"
            BY <3>2 DEF RecordTag
          <6>2. PICK bad \in SUBSET BadVBlks(b, defects[b]) : bad = bmp[b]
            BY <1>4 DEF FwInv
          <6>3. Enough(bad)
            BY <1>1, EnoughGood
          <6> QED BY <6>1, <6>2, <6>3 DEF FwInv, BlksKnown
        <5>3. \A b \in Bank : LogErased(b) = role[b].log
          BY <5>2, ErasesTheLog
        <5>4. \A b \in Bank : Erased(b, LogErased(b)) = marks[b]
          BY <2>4, <2>5, <5>3
        <5> QED BY <1>1, <5>1, <5>4
      <4>2. CASE ~ReachReclaim
        BY <3>2, <4>2 DEF RecordTag
      <4> QED BY <4>1, <4>2
    <3>3. ASSUME NEW c \in Bank, EraseInUse(c)
          PROVE  marks' = marks
      <4>1. PICK v \in role[c].data \cup role[c].map : marks' = [marks EXCEPT ![c] = Erased(c, {v})]
        BY <3>3 DEF EraseInUse
      <4>2. {v} \in SUBSET Good(bmp[c])
        BY <2>5
      <4>3. Erased(c, {v}) = marks[c]
        BY <2>4, <4>2
      <4> QED BY <1>1, <4>1, <4>3
    <3>4. CASE GetLogPpn \/ CheckThreshold \/ PowerOff
      BY <3>4 DEF GetLogPpn, CheckThreshold, PowerOff, nand
    <3>5. ~InitBlkmgr
      BY <1>4 DEF InitBlkmgr
    <3> QED BY <1>1, <3>1, <3>2, <3>3, <3>4, <3>5 DEF Firmware
  <2> QED BY <2>1, <2>2, <2>3, <2>6
<1> QED BY <1>2, <1>3, <1>4

\* The firmware keeps the marks and the lists.
LEMMA FirmwareSafe ==
  ASSUME InstallerConstants, AnyInv, Safe, FirmwareStep
  PROVE  Safe'
<1> USE DEF AnyInv, TypeOK
<1>1. /\ pc = "idle" /\ Firmware
      /\ UNCHANGED <<hc, filled, pc, bank, cmd, ecc, files, dir, sdram, faults>>
  BY DEF FirmwareStep, prog, disk
<1>2. defects' = defects
  BY <1>1 DEF Firmware, InitBlkmgr, Format, GetLogPpn, RecordTag, CheckThreshold, PowerOff,
              EraseInUse, nand, roles, logvars
<1>3. /\ marks' = marks
      /\ \A b \in Bank : mode' # "off" => BadVBlks(b, defects[b]) \ {0} \subseteq bmp'[b]
  BY FirmwareKeepsMarks DEF Safe
<1>4. \A b \in Bank : \A q \in BlockZero : q # FormatMarkPage => blk0'[b][q] = blk0[b][q]
  <2>1. CASE Format
    <3>1. PICK new : blk0' = [blk0 EXCEPT ![0][FormatMarkPage] = new]
      BY <2>1 DEF Format
    <3> QED BY <3>1 DEF NandType
  <2>2. CASE ~Format
    BY <1>1, <2>2
       DEF Firmware, InitBlkmgr, GetLogPpn, RecordTag, CheckThreshold, PowerOff, EraseInUse, nand
  <2> QED BY <2>1, <2>2
<1>5. \A b \in Bank : blk0'[b][SCAN_LIST_PAGE_OFFSET] = blk0[b][SCAN_LIST_PAGE_OFFSET]
  BY <1>4, Pages
<1>6. FullInv'
  BY <1>1, <1>2, <1>3, <1>5 DEF Safe, FullInv, Full, InstallPlaces
<1>7. BootInv'
  <2>1. AllLists' <=> AllLists
    BY <1>2, <1>5 DEF AllLists, HasList
  <2>2. Bootable' <=> Bootable
    <3>1. \A pg \in FwPages \cup {STAMP_PAGE_OFFSET} : blk0'[BootBank][pg] = blk0[BootBank][pg]
      BY <1>4, Pages, Sizes DEF BootBank
    <3> QED BY <3>1, BootSame
  <2>3. Bootable => AllLists
    BY <1>1 DEF Safe, BootInv
  <2>4. faults' = 0 => \A b \in Bank :
          blk0'[b][SCAN_LIST_PAGE_OFFSET] \in {Blank, ListPageOf(defects'[b])}
    BY <1>1, <1>2, <1>5 DEF Safe, BootInv
  <2> QED BY <1>1, <2>1, <2>2, <2>3, <2>4 DEF BootInv
<1> QED BY <1>2, <1>3, <1>6, <1>7 DEF Safe

\* The steps before the install: nothing is written to the NAND.
LEMMA ScanSafe ==
  ASSUME InstallerConstants, AnyInv, Safe, ~SaveCutOff,
         \/ Open(0) \/ Open(1) \/ Init_ \/ Scan \/ MakeDir \/ SaveFile \/ StopInSave
         \/ LoadFile \/ Install,
         ~SaveCutOff'
  PROVE  Safe'
<1> USE DEF AnyInv, TypeOK
<1>0. InstInv
  BY DEF InstInv
<1>1. /\ pc \in {"idle", "init", "scan", "mkdir", "save", "load", "install"}
      /\ UNCHANGED <<defects, marks, blk0, mode, bmp>>
      /\ NoFault \/ \E kind : Fault(kind)
  BY DEF Open, Init_, Scan, MakeDir, SaveFile, StopInSave, LoadFile, Install, nand, fwvars, roles
<1>2. /\ pc' \in {"idle", "init", "scan", "mkdir", "save", "load", "install"}
         \/ (pc' = "erase" /\ bank' = 0)
  <2>1. CASE Open(0) \/ Open(1) \/ Init_ \/ Scan \/ MakeDir \/ SaveFile \/ StopInSave \/ Install
    BY <1>1, <2>1 DEF Open, Init_, Scan, MakeDir, SaveFile, StopInSave, Install, Goto, Exit
  <2>2. CASE LoadFile
    BY <2>2 DEF LoadFile, Goto, NextBankOr
  <2> QED BY <2>1, <2>2
<1>3. BootInv'
  <2>1. ~Risky /\ ~Risky'
    BY <1>1, <1>2 DEF Risky
  <2>2. pc' \notin {"fill", "stamp", "image"}
    BY <1>2
  <2> QED BY <1>1, <2>1, <2>2, BootQuiet DEF Safe
<1>4. \A b \in Bank : /\ blk0'[b][SCAN_LIST_PAGE_OFFSET] \in {Blank, Torn, ListPageOf(defects'[b])}
                      /\ mode' # "off" => BadVBlks(b, defects'[b]) \ {0} \subseteq bmp'[b]
                      /\ Full(b)' = Full(b)
  BY <1>1 DEF Safe, FullInv, Full
<1>5. CASE Open(0) \/ Open(1)
  <2>1. pc' \in {"idle", "init"} /\ files' = files
    BY <1>5 DEF Open, Goto, disk
  <2> QED BY <1>1, <1>3, <1>4, <2>1 DEF Safe, FullInv, InstallPlaces
<1>6. CASE Init_
  <2>1. pc' \in {"scan", "load"} /\ bank' = 0 /\ files' = files
    BY <1>6 DEF Init_, Goto, disk
  <2>2. \A b \in Bank : ~ (b < 0)
    BY Sizes
  <2> QED BY <1>1, <1>3, <1>4, <2>1, <2>2 DEF Safe, FullInv, InstallPlaces
<1>7. CASE Scan
  <2>1. pc = "scan" /\ pc' = "mkdir" /\ files' = files
    BY <1>7 DEF Scan, Goto, disk
  <2>2. ~hc.loaded /\ \A b \in Bank : hc.lists[b] = NoList
    BY <2>1, NoHcTyped DEF OrderInv
  <2>3. hc'.loaded => \A b \in Bank : hc'.lists[b] = Full(b)
    <3> SUFFICES ASSUME hc'.loaded
                 PROVE  \A b \in Bank : hc'.lists[b] = Full(b)
      OBVIOUS
    <3>1. hc.up
      BY <1>7, <2>2 DEF Scan
    <3>2. \A b \in Bank : ScanResult(b) = defects[b]
      <4>1. \A b \in Bank : \A e \in defects[b] : e[1] >= 1
        <5> SUFFICES ASSUME NEW b \in Bank, NEW e \in defects[b]
                     PROVE  e[1] >= 1
          OBVIOUS
        <5>1. e[1] > 0 /\ e \in Entry
          BY DefectsUsable DEF NandType
        <5>2. e[1] \in PBlk /\ \A x \in PBlk : x \in Nat
          BY <5>1, Sizes DEF Entry, PBlk
        <5> QED BY <5>1, <5>2
      <4> QED BY <4>1 DEF ScanResult, Safe
    <3>3. \A b \in Bank : Cardinality(defects[b]) \in Nat
      BY DefectsUsable DEF NandType
    <3>4. \A b \in Bank : [num |-> hc.lists[b].num + Cardinality(ScanResult(b)),
                           list |-> hc.lists[b].list \cup ScanResult(b)] = Full(b)
      <4>1. \A b \in Bank : hc.lists[b].num = 0 /\ hc.lists[b].list = {}
        BY <2>2 DEF NoList
      <4>2. \A b \in Bank : /\ hc.lists[b].num + Cardinality(ScanResult(b))
                                     = Cardinality(defects[b])
                            /\ hc.lists[b].list \cup ScanResult(b) = defects[b]
        BY <3>2, <3>3, <4>1
      <4> QED BY <4>2 DEF Full, ListOf
    <3> DEFINE L == [b \in Bank |-> Full(b)]
    <3>5. hc' = [hc EXCEPT !.loaded = TRUE, !.lists = L]
      BY <1>7, <3>1, <3>4 DEF Scan
    <3>6. hc'.lists = L
      BY <3>5 DEF ProgType
    <3> QED BY <3>6
  <2> QED BY <1>1, <1>3, <1>4, <2>1, <2>3 DEF Safe, FullInv, InstallPlaces
<1>8. CASE MakeDir
  <2>1. pc = "mkdir" /\ files' = files
    BY <1>8 DEF MakeDir
  <2>2. \/ pc' = "idle"
        \/ pc' = "save" /\ hc' = hc /\ hc.loaded
    BY <1>8 DEF MakeDir, Goto, Exit
  <2> QED BY <1>1, <1>3, <1>4, <2>1, <2>2 DEF Safe, FullInv, InstallPlaces
<1>9. CASE SaveFile
  <2>1. pc = "save" /\ files' = [files EXCEPT ![bank] = Saved(hc.lists[bank])]
    BY <1>9 DEF SaveFile
  <2>2. pc' = "idle" \/ (pc' = "save" /\ hc' = hc)
    BY <1>9 DEF SaveFile, Exit
  <2>3. hc.lists[bank] = Full(bank) /\ bank \in Bank
    BY <2>1 DEF Safe, FullInv, ProgType
  <2>4. \A b \in Bank : files'[b].state = "saved" => files'[b].list = Full(b)
    <3> SUFFICES ASSUME NEW b \in Bank, files'[b].state = "saved"
                 PROVE  files'[b].list = Full(b)
      OBVIOUS
    <3>1. files'[b] = IF b = bank THEN Saved(Full(b)) ELSE files[b]
      BY <2>1, <2>3 DEF ProgType
    <3>2. Saved(Full(b)).list = Full(b)
      BY DEF Saved
    <3>3. files[b].state = "saved" => files[b].list = Full(b)
      BY DEF Safe, FullInv
    <3> QED BY <3>1, <3>2, <3>3
  <2> QED BY <1>1, <1>3, <1>4, <2>1, <2>2, <2>4 DEF Safe, FullInv, InstallPlaces
<1>10. CASE StopInSave
  <2>1. pc = "save" /\ pc' = "idle" /\ UNCHANGED dir /\ \/ files' = files
                                                        \/ files' = [files EXCEPT ![bank] = Short]
    BY <1>10 DEF StopInSave, Exit
  <2>2. \A b \in Bank : files'[b].state = "saved" => files'[b].list = Full(b)
    <3> SUFFICES ASSUME NEW b \in Bank, files'[b].state = "saved"
                 PROVE  files'[b].list = Full(b)
      OBVIOUS
    <3>1. files'[b] \in {files[b], Short}
      BY <2>1 DEF ProgType
    <3>2. files'[b] # Short
      BY DEF Short
    <3>3. files[b].state = "saved" => files[b].list = Full(b)
      BY DEF Safe, FullInv
    <3> QED BY <3>1, <3>2, <3>3
  <2> QED BY <1>1, <1>3, <1>4, <2>1, <2>2 DEF Safe, FullInv, InstallPlaces
<1>11. CASE LoadFile
  <2>1. pc = "load" /\ files' = files /\ dir' = dir /\ bank \in Bank
    BY <1>11 DEF LoadFile, disk, ProgType
  <2>2. CASE files[bank].state = "absent"
    <3>1. ~dir
      BY <2>1, <2>2 DEF SaveCutOff
    <3>2. ~hc.loaded
      BY <2>1, <3>1 DEF OrderInv
    <3>3. pc' = "install" /\ hc' = hc
      BY <1>11, <2>2 DEF LoadFile, Goto
    <3> QED BY <1>1, <1>3, <1>4, <2>1, <3>2, <3>3 DEF Safe, FullInv, InstallPlaces
  <2>3. CASE files[bank].state # "absent"
    <3>1. dir
      BY <2>1, <2>3 DEF OrderInv
    <3>2. files[bank].state = "saved"
      BY <2>1, <3>1 DEF SaveCutOff
    <3>3. files[bank].list = Full(bank)
      BY <2>1, <3>2 DEF Safe, FullInv
    <3>4. hc' = [hc EXCEPT !.loaded = TRUE, !.lists[bank] = Full(bank)] /\ NextBankOr("install")
      BY <1>11, <3>2, <3>3 DEF LoadFile
    <3>5. \A b \in Bank : hc'.lists[b] = IF b = bank THEN Full(b) ELSE hc.lists[b]
      BY <2>1, <3>4 DEF ProgType
    <3>6. \A b \in Bank : b < bank => hc.lists[b] = Full(b)
      BY <2>1 DEF Safe, FullInv
    <3>7. \A b \in Bank : b <= bank => hc'.lists[b] = Full(b)
      <4>1. \A b \in Bank : b <= bank => b < bank \/ b = bank
        BY <2>1, Sizes
      <4> QED BY <3>5, <3>6, <4>1
    <3>8. \/ pc' = "load" /\ \A b \in Bank : b < bank' => hc'.lists[b] = Full(b)
          \/ pc' = "install" /\ \A b \in Bank : hc'.lists[b] = Full(b)
      <4>1. \/ bank \in Nat /\ bank' = bank + 1 /\ pc' = "load"
            \/ bank = NUM_BANKS - 1 /\ pc' = "install"
        BY <2>1, <3>4, NextBankIs
      <4>2. bank \in Nat => \A b \in Bank : b < bank + 1 => b <= bank
        BY Sizes
      <4>3. \A b \in Bank : b <= NUM_BANKS - 1
        BY Sizes
      <4> QED BY <3>7, <4>1, <4>2, <4>3
    <3> QED BY <1>1, <1>3, <1>4, <2>1, <3>8 DEF Safe, FullInv, InstallPlaces
  <2> QED BY <2>2, <2>3
<1>12. CASE Install
  <2>1. pc = "install" /\ files' = files
    BY <1>12 DEF Install, disk
  <2>2. \/ pc' = "idle"
        \/ pc' = "erase" /\ hc' = hc /\ hc.loaded
    BY <1>12 DEF Install, Goto, Exit, InstallAllowed
  <2> QED BY <1>1, <1>3, <1>4, <2>1, <2>2 DEF Safe, FullInv, InstallPlaces
<1> QED BY <1>5, <1>6, <1>7, <1>8, <1>9, <1>10, <1>11, <1>12

\* The erase of block zero: the first bank to be erased is the one that boots.
LEMMA EraseSafe ==
  ASSUME InstallerConstants, FewFaults, AnyInv, Safe, EraseZero
  PROVE  Safe'
<1> USE DEF AnyInv, TypeOK
<1>0. InstInv
  BY DEF InstInv
<1>1. /\ pc = "erase" /\ NextBankOr("lists")
      /\ UNCHANGED <<defects, mode, bmp, files, hc>>
  BY DEF EraseZero, fwvars, roles, disk
<1>2. /\ pc' \in {"erase", "lists"} /\ bank \in Bank /\ bank \in Nat
      /\ pc' = "erase" => bank' = bank + 1
      /\ pc' = "lists" => bank' = 0
  BY <1>1, NextBankIs, Sizes DEF ProgType
<1>3. /\ marks' = marks
      /\ \/ /\ faults' = faults
            /\ blk0' = [blk0 EXCEPT ![bank] = [pg \in BlockZero |-> Blank]]
         \/ faults < MaxFaults /\ faults' = faults + 1 /\ "erase" \in FaultKinds /\ blk0' = blk0
  BY <1>0, EraseIs
<1>4. \A b \in Bank : blk0'[b][SCAN_LIST_PAGE_OFFSET] \in {blk0[b][SCAN_LIST_PAGE_OFFSET], Blank}
  BY <1>3, Pages DEF NandType
<1>5. FullInv'
  <2>1. \A b \in Bank : blk0'[b][SCAN_LIST_PAGE_OFFSET] \in {Blank, Torn, ListPageOf(defects[b])}
    BY <1>4 DEF Safe, FullInv
  <2> QED BY <1>1, <1>2, <2>1, FullMoves DEF Safe, InstallPlaces
<1>6. \A b \in Bank : ~ (pc' = "compare" \/ (pc' = "lists" /\ b < bank'))
  BY <1>2, Sizes
<1>7. CASE faults' = faults /\ blk0' = [blk0 EXCEPT ![bank] = [pg \in BlockZero |-> Blank]]
  <2>1. faults' = 0 => \A b \in Bank :
          blk0'[b][SCAN_LIST_PAGE_OFFSET] \in {Blank, ListPageOf(defects'[b])}
    BY <1>1, <1>4, <1>7 DEF Safe, BootInv
  <2>2. ASSUME Bootable'
        PROVE  Risky' /\ EraseFailed'
    <3>1. bank # BootBank
      <4> SUFFICES ASSUME bank = BootBank
                   PROVE  FALSE
        OBVIOUS
      <4>1. blk0'[BootBank][STAMP_PAGE_OFFSET] = Blank
        BY <1>2, <1>7, Pages DEF NandType
      <4> QED BY <2>2, <4>1, PagesDiffer DEF Bootable
    <3>2. Bootable
      BY <1>7, <2>2, <3>1 DEF Bootable, NandType
    <3>3. bank > 0
      BY <1>2, <3>1 DEF BootBank
    <3>4. EraseFailed
      BY <1>1, <3>2, <3>3 DEF Safe, BootInv
    <3>5. Risky'
      BY <1>2 DEF Risky
    <3>6. EraseFailed'
      BY <1>1, <1>4, <1>6, <1>7, <3>4 DEF EraseFailed
    <3> QED BY <3>5, <3>6
  <2>3. BootInv'
    BY <1>2, <2>1, <2>2 DEF BootInv, Risky
  <2> QED BY <1>1, <1>3, <1>5, <2>3 DEF Safe
<1>8. CASE faults < MaxFaults /\ faults' = faults + 1 /\ "erase" \in FaultKinds /\ blk0' = blk0
  <2>1. faults = 0 /\ faults' = MaxFaults /\ faults' # 0
    BY <1>8 DEF FewFaults, ProgType
  <2>2. \A b \in Bank : blk0'[b][SCAN_LIST_PAGE_OFFSET] \in {Blank, ListPageOf(defects'[b])}
    BY <1>1, <1>8, <2>1 DEF Safe, BootInv
  <2>3. EraseFailed'
    BY <1>6, <2>1, <2>2 DEF EraseFailed
  <2>4. ASSUME Bootable', ~Risky'
        PROVE  AllLists'
    <3>1. Bootable
      BY <1>8, <2>4, BootSame
    <3>2. ~EraseFailed
      BY <1>8 DEF EraseFailed, ProgType
    <3>3. AllLists
      BY <3>1, <3>2 DEF Safe, BootInv
    <3> QED BY <1>1, <1>8, <3>3 DEF AllLists, HasList
  <2>5. BootInv'
    BY <1>2, <2>1, <2>3, <2>4 DEF BootInv, Risky
  <2> QED BY <1>1, <1>3, <1>5, <2>5 DEF Safe
<1> QED BY <1>3, <1>7, <1>8

\* The lists are written; after a failed erase they go over the same lists.
LEMMA WriteListsSafe ==
  ASSUME InstallerConstants, AnyInv, Safe, WriteLists
  PROVE  Safe'
<1> USE DEF AnyInv, TypeOK
<1>1. /\ pc = "lists" /\ NextBankOr("compare") /\ ProgramPage(0, ListPage(bank))
      /\ UNCHANGED <<defects, marks, mode, bmp, files, hc>>
  BY Pages DEF WriteLists, fwvars, roles, disk
<1>2. /\ pc' \in {"lists", "compare"} /\ bank \in Bank /\ bank \in Nat
      /\ pc' = "lists" => bank' = bank + 1
      /\ pc' = "compare" => bank = NUM_BANKS - 1
  BY <1>1, NextBankIs, Sizes DEF ProgType
<1>3. hc.lists[bank] = Full(bank)
  BY <1>1, <1>2 DEF Safe, FullInv, InstallPlaces
<1>4. ListPage(bank) = ListPageOf(defects[bank])
  BY <1>3 DEF ListPage, ListPageOf, Full
<1>5. ListPage(bank) \in PageType
  <2>1. hc.lists[bank] \in ListType
    BY <1>2 DEF ProgType
  <2> QED BY <2>1, PagesTyped DEF ListPage
<1>6. PICK data \in PageType : data = ListPage(bank) /\ data = ListPageOf(defects[bank])
  BY <1>4, <1>5
<1>7. /\ \A c \in Bank : \A q \in BlockZero : c # bank \/ q # 0 => blk0'[c][q] = blk0[c][q]
      /\ blk0'[bank][0] \in {data, Torn}
      /\ \/ faults' = faults /\ blk0'[bank][0] = Programmed(blk0[bank][0], data)
         \/ faults < MaxFaults /\ faults' = faults + 1 /\ blk0'[bank][0] = Torn
  <2>1. ProgramPage(0, data) /\ 0 \in BlockZero
    BY <1>1, <1>6, Pages
  <2> QED BY <2>1, OnePage
<1>8. SCAN_LIST_PAGE_OFFSET = 0 /\ 0 \in BlockZero
  BY Pages
<1>9. FullInv'
  <2>1. \A b \in Bank : blk0'[b][SCAN_LIST_PAGE_OFFSET] \in {Blank, Torn, ListPageOf(defects[b])}
    BY <1>6, <1>7, <1>8 DEF Safe, FullInv
  <2> QED BY <1>1, <1>2, <2>1, FullMoves DEF Safe, InstallPlaces
<1>10. Bootable' <=> Bootable
  <2>1. \A pg \in FwPages \cup {STAMP_PAGE_OFFSET} : blk0'[BootBank][pg] = blk0[BootBank][pg]
    BY <1>7, Pages, Sizes DEF BootBank
  <2> QED BY <2>1, BootSame
\* Written over a blank page, or over the same list.
<1>11. ASSUME faults' = faults, blk0[bank][0] \in {Blank, ListPageOf(defects[bank])}
       PROVE  blk0'[bank][0] = ListPageOf(defects[bank])
  BY <1>6, <1>7, <1>11 DEF Programmed, ProgType
<1>12. faults' = 0 => \A b \in Bank :
         blk0'[b][SCAN_LIST_PAGE_OFFSET] \in {Blank, ListPageOf(defects'[b])}
  <2> SUFFICES ASSUME faults' = 0, NEW b \in Bank
               PROVE  blk0'[b][SCAN_LIST_PAGE_OFFSET] \in {Blank, ListPageOf(defects'[b])}
    OBVIOUS
  <2>1. faults = 0 /\ faults' = faults
    BY <1>7 DEF ProgType
  <2>2. \A c \in Bank : blk0[c][0] \in {Blank, ListPageOf(defects[c])}
    BY <1>8, <2>1 DEF Safe, BootInv
  <2> QED BY <1>1, <1>2, <1>7, <1>8, <1>11, <2>1, <2>2
<1>13. ASSUME Bootable
       PROVE  EraseFailed'
  <2>1. EraseFailed
    BY <1>1, <1>13 DEF Safe, BootInv
  <2>2. faults' = faults /\ faults' = MaxFaults
    BY <1>7, <2>1 DEF EraseFailed, ProgType
  <2>3. blk0'[bank][0] = ListPageOf(defects[bank])
    BY <1>2, <1>8, <1>11, <2>1, <2>2 DEF EraseFailed
  <2>4. \A b \in Bank : blk0'[b][SCAN_LIST_PAGE_OFFSET] \in {Blank, ListPageOf(defects'[b])}
    BY <1>1, <1>7, <1>8, <2>1, <2>3 DEF EraseFailed
  <2>5. \A b \in Bank : b <= bank => blk0'[b][0] = ListPageOf(defects[b])
    <3>1. \A b \in Bank : b <= bank => b = bank \/ b < bank
      BY <1>2, Sizes
    <3>2. \A b \in Bank : b < bank => b # bank /\ blk0[b][0] = ListPageOf(defects[b])
      BY <1>1, <1>2, <1>8, <2>1 DEF EraseFailed, HasList
    <3> QED BY <1>7, <1>8, <2>3, <3>1, <3>2
  <2>6. \A b \in Bank : pc' = "compare" \/ (pc' = "lists" /\ b < bank') => b <= bank
    BY <1>2, Sizes
  <2>7. \A b \in Bank : pc' = "compare" \/ (pc' = "lists" /\ b < bank') => HasList(b)'
    BY <1>1, <1>8, <2>5, <2>6 DEF HasList
  <2> QED BY <2>2, <2>4, <2>7 DEF EraseFailed
<1>14. BootInv'
  BY <1>2, <1>10, <1>12, <1>13 DEF BootInv
<1> QED BY <1>1, <1>9, <1>14 DEF Safe

\* Only complete lists in every bank let the install go on.
LEMMA CompareSafe ==
  ASSUME InstallerConstants, AnyInv, Safe, CompareLists
  PROVE  Safe'
<1> USE DEF AnyInv, TypeOK
<1>1. /\ pc = "compare" /\ faults' = faults
      /\ UNCHANGED <<defects, marks, blk0, mode, bmp, files>>
  BY DEF CompareLists, NoFault, nand, fwvars, roles, disk
<1>2. \A b \in Bank : ListPage(b) = ListPageOf(defects[b])
  BY <1>1 DEF Safe, FullInv, InstallPlaces, ListPage, ListPageOf, Full
<1>3. \/ pc' = "fill" /\ hc' = hc /\ AllLists
      \/ pc' = "idle"
  BY <1>2 DEF CompareLists, Goto, Exit, AllLists, HasList
<1>4. FullInv'
  BY <1>1, <1>3, FullMoves DEF Safe, FullInv, InstallPlaces
<1>5. Bootable \/ pc' = "fill" => AllLists
  BY <1>1, <1>3 DEF Safe, BootInv, EraseFailed, AllLists
<1>6. BootInv'
  <2>1. AllLists' <=> AllLists
    BY <1>1 DEF AllLists, HasList
  <2>2. Bootable' <=> Bootable
    BY <1>1, BootSame
  <2>3. faults' = 0 => \A b \in Bank :
          blk0'[b][SCAN_LIST_PAGE_OFFSET] \in {Blank, ListPageOf(defects'[b])}
    BY <1>1 DEF Safe, BootInv
  <2> QED BY <1>3, <1>5, <2>1, <2>2, <2>3 DEF BootInv
<1> QED BY <1>1, <1>4, <1>6 DEF Safe

\* After the comparison only other pages are written.
LEMMA OtherPagesSafe ==
  ASSUME InstallerConstants, AnyInv, Safe, FillPages \/ WriteStamp \/ WriteImage
  PROVE  Safe'
<1> USE DEF AnyInv, TypeOK
<1>1. /\ pc \in {"fill", "stamp", "image"}
      /\ UNCHANGED <<defects, marks, mode, bmp, files>>
  BY DEF FillPages, WriteStamp, WriteImage, fwvars, roles, disk
<1>2. \A b \in Bank : blk0'[b][SCAN_LIST_PAGE_OFFSET] = blk0[b][SCAN_LIST_PAGE_OFFSET]
  <2>1. ASSUME NEW pg \in BlockZero, pg # 0, NEW data \in PageType, ProgramPage(pg, data)
        PROVE  \A b \in Bank : blk0'[b][SCAN_LIST_PAGE_OFFSET] = blk0[b][SCAN_LIST_PAGE_OFFSET]
    BY <2>1, OnePage, Pages
  <2>2. CASE FillPages
    <3> DEFINE todo == {pg \in SCAN_LIST_PAGE_OFFSET + 1 .. STAMP_PAGE_OFFSET - 1 :
                          blk0[bank][pg] # Page("fill", "normal", NoList)}
    <3>1. CASE todo = {}
      BY <2>2, <3>1 DEF FillPages
    <3>2. CASE todo # {}
      <4>1. \A q \in SCAN_LIST_PAGE_OFFSET + 1 .. STAMP_PAGE_OFFSET - 1 :
              q \in 1 .. STAMP_PAGE_OFFSET - 1
        BY Pages
      <4>2. todo \in SUBSET BlockZero
        BY <4>1, Pages
      <4>3. PICK pg : pg = First(todo)
        OBVIOUS
      <4>4. pg \in todo
        BY <3>2, <4>2, <4>3, FirstOf
      <4>5. pg \in BlockZero /\ pg # 0 /\ Page("fill", "normal", NoList) \in PageType
        BY <4>1, <4>4, Pages, PagesTyped
      <4>6. ProgramPage(pg, Page("fill", "normal", NoList))
        BY <2>2, <3>2, <4>3 DEF FillPages
      <4> QED BY <2>1, <4>5, <4>6
    <3> QED BY <3>1, <3>2
  <2>3. CASE WriteStamp
    <3>1. STAMP_PAGE_OFFSET \in BlockZero /\ STAMP_PAGE_OFFSET # 0
          /\ Page("stamp", ecc, NoList) \in PageType
      BY Pages, PagesTyped DEF ProgType
    <3>2. ProgramPage(STAMP_PAGE_OFFSET, Page("stamp", ecc, NoList))
      BY <2>3 DEF WriteStamp
    <3> QED BY <2>1, <3>1, <3>2
  <2>4. CASE WriteImage
    <3> DEFINE todo == {pg \in FwPages : blk0[bank][pg] # Page("fw", ecc, NoList)}
    <3>1. CASE todo = {}
      BY <2>4, <3>1 DEF WriteImage
    <3>2. CASE todo # {}
      <4>1. todo \in SUBSET BlockZero
        BY Pages
      <4>2. PICK pg : pg = First(todo)
        OBVIOUS
      <4>3. pg \in todo
        BY <3>2, <4>1, <4>2, FirstOf
      <4>4. pg \in BlockZero /\ pg # 0 /\ Page("fw", ecc, NoList) \in PageType
        BY <4>3, Pages, PagesTyped DEF ProgType
      <4>5. ProgramPage(pg, Page("fw", ecc, NoList))
        BY <2>4, <3>2, <4>2 DEF WriteImage
      <4> QED BY <2>1, <4>4, <4>5
    <3> QED BY <3>1, <3>2
  <2> QED BY <2>2, <2>3, <2>4
<1>3. /\ pc' \in {"idle", "fill", "stamp", "image"}
      /\ pc' = "idle" \/ hc' = hc
  <2>1. CASE FillPages
    BY <1>1, <2>1 DEF FillPages, NextBankOr, Goto, Exit, prog
  <2>2. CASE WriteStamp
    BY <1>1, <2>2 DEF WriteStamp, Goto, Exit
  <2>3. CASE WriteImage
    BY <1>1, <2>3 DEF WriteImage, Exit, prog
  <2> QED BY <2>1, <2>2, <2>3
<1>4. FullInv'
  <2>1. \A b \in Bank : blk0'[b][SCAN_LIST_PAGE_OFFSET] \in {Blank, Torn, ListPageOf(defects[b])}
    BY <1>2 DEF Safe, FullInv
  <2> QED BY <1>1, <1>3, <2>1, FullMoves DEF Safe, InstallPlaces
<1>5. BootInv'
  <2>1. AllLists
    BY <1>1 DEF Safe, BootInv
  <2> QED BY <1>1, <1>2, <1>3, <2>1, BootWrites
<1> QED BY <1>1, <1>4, <1>5 DEF Safe

\* A stop is one more fault: no drive starts in the risky places.
LEMMA StopSafe ==
  ASSUME InstallerConstants, AnyInv, Safe, Stop
  PROVE  Safe'
<1> USE DEF AnyInv, TypeOK
<1>1. /\ pc' = "idle" /\ Fault("stop")
      /\ UNCHANGED <<defects, marks, blk0, mode, bmp, files>>
  BY DEF Stop, Exit, nand, fwvars, roles, disk
<1>2. FullInv'
  <2>1. \A b \in Bank : blk0'[b][SCAN_LIST_PAGE_OFFSET] \in {Blank, Torn, ListPageOf(defects[b])}
    BY <1>1 DEF Safe, FullInv
  <2> QED BY <1>1, <2>1, FullMoves DEF Safe
<1>3. CASE ~Risky
  <2>1. ~Risky'
    BY <1>1 DEF Risky
  <2>2. BootInv'
    BY <1>1, <1>3, <2>1, BootQuiet DEF Safe
  <2> QED BY <1>1, <1>2, <2>2 DEF Safe
<1>4. CASE Risky
  <2>1. faults \in Nat /\ faults < MaxFaults /\ faults' # 0
    BY <1>1 DEF Fault, ProgType
  <2>2. ~Bootable
    BY <1>4, <2>1 DEF Safe, BootInv, Risky, EraseFailed, InstallerConstants
  <2>3. ~Bootable'
    BY <1>1, <2>2, BootSame
  <2>4. BootInv'
    BY <1>1, <2>1, <2>3 DEF BootInv
  <2> QED BY <1>1, <1>2, <2>4 DEF Safe
<1> QED BY <1>3, <1>4

\* A drive from the factory has its marks and does not start.
LEMMA InitSafe ==
  ASSUME InstallerConstants, Init
  PROVE  Safe
<1>1. /\ marks = defects /\ mode = "off" /\ pc = "idle" /\ faults = 0
      /\ \A b \in Bank : files[b] = Absent
      /\ \A b \in Bank : blk0[b] = [pg \in BlockZero |-> Blank]
  BY DEF Init, FwInit
<1>2. \A b \in Bank : blk0[b][SCAN_LIST_PAGE_OFFSET] = Blank
  BY <1>1, Pages
<1>3. ~Bootable
  <2>1. blk0[BootBank] = [pg \in BlockZero |-> Blank]
    BY <1>1, Sizes DEF BootBank
  <2> QED BY <2>1, BlankDoesNotBoot
<1>4. FullInv
  <2>1. \A b \in Bank : files[b].state # "saved"
    BY <1>1 DEF Absent
  <2> QED BY <1>1, <1>2, <2>1 DEF FullInv, InstallPlaces
<1>5. BootInv
  BY <1>1, <1>2, <1>3 DEF BootInv
<1> QED BY <1>1, <1>4, <1>5 DEF Safe

\* Every step keeps what holds as long as no save was cut off.
LEMMA StepSafe ==
  ASSUME InstallerConstants, FewFaults, AnyInv, ~SaveCutOff => Safe, [Next]_vars
  PROVE  ~SaveCutOff' => Safe'
<1> SUFFICES ASSUME ~SaveCutOff'
             PROVE  Safe'
  OBVIOUS
<1>1. ~SaveCutOff /\ Safe
  BY CutOffStays
<1>2. CASE Open(0) \/ Open(1) \/ Init_ \/ Scan \/ MakeDir \/ SaveFile \/ StopInSave
           \/ LoadFile \/ Install
  BY <1>1, <1>2, ScanSafe
<1>3. CASE EraseZero
  BY <1>1, <1>3, EraseSafe
<1>4. CASE WriteLists
  BY <1>1, <1>4, WriteListsSafe
<1>5. CASE CompareLists
  BY <1>1, <1>5, CompareSafe
<1>6. CASE FillPages \/ WriteStamp \/ WriteImage
  BY <1>1, <1>6, OtherPagesSafe
<1>7. CASE Stop
  BY <1>1, <1>7, StopSafe
<1>8. CASE FirmwareStep
  BY <1>1, <1>8, FirmwareSafe
<1>9. CASE UNCHANGED vars
  <2>1. UNCHANGED <<defects, marks, blk0, mode, bmp, hc, pc, bank, files, faults>>
    BY <1>9 DEF vars, nand, fwvars, roles, prog, disk
  <2>2. AllLists' <=> AllLists
    BY <2>1 DEF AllLists, HasList
  <2>3. Bootable' <=> Bootable
    BY <2>1, BootSame
  <2>4. EraseFailed' <=> EraseFailed
    BY <2>1 DEF EraseFailed, HasList
  <2>5. BootInv'
    BY <1>1, <2>1, <2>2, <2>3, <2>4 DEF Safe, BootInv
  <2>6. FullInv'
    BY <1>1, <2>1 DEF Safe, FullInv, Full
  <2> QED BY <1>1, <2>1, <2>5, <2>6 DEF Safe
<1> QED BY <1>2, <1>3, <1>4, <1>5, <1>6, <1>7, <1>8, <1>9 DEF Next, InstallerStep

\* So it holds in every reachable state.
LEMMA SafeHolds ==
  ASSUME InstallerConstants, FewFaults
  PROVE  Spec => [](~SaveCutOff => Safe)
<1>1. Init => (~SaveCutOff => Safe)
  BY InitSafe
<1>2. AnyInv /\ (~SaveCutOff => Safe) /\ [Next]_vars => (~SaveCutOff => Safe)'
  BY StepSafe
<1> QED BY <1>1, <1>2, AnyInvHolds, PTL DEF Spec

\* The bad-block marks of the manufacturer stay readable, whichever step of the
\* installer or of the firmware fails and whenever the power is cut, unless a
\* save of the scan list was cut off: nothing erases a block that has a mark.
THEOREM MarksKept ==
  ASSUME InstallerConstants, FewFaults
  PROVE  Spec => [](~SaveCutOff => marks = defects)
<1>1. Safe => marks = defects
  BY DEF Safe
<1> QED BY <1>1, SafeHolds, PTL

\* A drive that starts knows its bad blocks: once the boot bank holds the stamp
\* and the image, build_bad_blk_list reads a list in every bank, and it covers
\* the defects of the bank, unless a save of the scan list was cut off.
THEOREM BootableKnows ==
  ASSUME InstallerConstants, FewFaults
  PROVE  Spec => [](~SaveCutOff => BootableKnowsDefects)
<1>1. AnyInv /\ (~SaveCutOff => Safe) => (~SaveCutOff => BootableKnowsDefects)
  <2> SUFFICES ASSUME AnyInv, Safe, pc = "idle", Bootable,
                      NEW b \in Bank, NEW e \in defects[b]
               PROVE  e[1] \div PlanesPerVblk \in BuildBadBlkList(b) \cup {0}
    BY DEF BootableKnowsDefects
  <2>1. AllLists
    BY DEF Safe, BootInv
  <2>2. defects \in DefectChoices /\ e \in Entry
    BY DefectsUsable DEF AnyInv, TypeOK, NandType
  <2>3. PICK v : v = e[1] \div PlanesPerVblk
    OBVIOUS
  <2>4. e[1] \in PBlk
    BY <2>2 DEF Entry
  <2>5. v \in VBlk /\ e[1] \in Planes(v)
    BY <2>3, <2>4, BlkOf
  <2>6. v \in BadVBlks(b, defects[b])
    BY <2>5 DEF BadVBlks
  <2>7. BadVBlks(b, defects[b]) \ {0} \subseteq BuildBadBlkList(b)
    BY <2>1, <2>2, AllAreFound DEF AllLists
  <2> QED BY <2>3, <2>6, <2>7
<1> QED BY <1>1, AnyInvHolds, SafeHolds, PTL
=============================================================================
