--------------------------- MODULE OptrLogProofs ----------------------------
(***************************************************************************)
(* What the log, the chains of blocks and DRAM hold, at any moment between *)
(* two power failures, of the writes that the last tag does not cover.     *)
(*                                                                         *)
(* LogInv is about the log and the two map tables: what the last tag       *)
(* promises, and what may lie behind it. ChainInv is about the blocks      *)
(* linked from the active pages of that tag: the scan of recovery finds    *)
(* every page programmed since, each at its place and in the order of its  *)
(* bank. AcctInv is the account of the writes: every page of a write is in *)
(* flash where the scan finds it, or in a buffer, or was overwritten in a  *)
(* buffer, which a dependency records, or is still to come; and none is    *)
(* counted twice, so that the count recovery makes tells whether a write   *)
(* is complete.                                                            *)
(***************************************************************************)
EXTENDS OptrFtlProofs, WellFoundedInduction

-----------------------------------------------------------------------------
(* Least and greatest numbers.                                             *)

LEMMA Least ==
  ASSUME NEW T \in SUBSET Nat, T # {}
  PROVE  \E x \in T : \A j \in T : x <= j
<1>1. PICK i \in T : \A j \in T : <<j, i>> \notin OpToRel(<, Nat)
  BY WFMin, NatLessThanWellFounded
<1>2. \A j \in T : ~ (j < i)
  BY <1>1 DEF OpToRel
<1> QED
  BY <1>2

\* So has a set of naturals with an upper bound a greatest element.
LEMMA Greatest ==
  ASSUME NEW n \in Nat, NEW T \in SUBSET (0..n), T # {}
  PROVE  \E x \in T : \A j \in T : j <= x
<1> DEFINE U == {k \in 0..n : n - k \in T}
<1>1. U \in SUBSET Nat /\ U # {}
  <2>1. PICK t \in T : TRUE
    OBVIOUS
  <2>2. n - t \in 0..n /\ n - (n - t) \in T
    BY <2>1
  <2> QED
    BY <2>2
<1>2. PICK u \in U : \A v \in U : u <= v
  BY <1>1, Least
<1>3. ASSUME NEW j \in T
      PROVE  j <= n - u
  <2>1. n - j \in 0..n /\ n - (n - j) = j /\ j \in 0..n
    OBVIOUS
  <2>2. n - j \in U
    BY <2>1
  <2> QED
    BY <1>2, <2>1, <2>2
<1> QED
  BY <1>2, <1>3

\* Max and Min, from an element that is the greatest or the least.
LEMMA MaxIs ==
  ASSUME NEW S, \A y \in S : y \in Int, NEW x \in S, \A y \in S : y <= x
  PROVE  Max(S) = x
BY DEF Max

LEMMA MinIs ==
  ASSUME NEW S, \A y \in S : y \in Int, NEW x \in S, \A y \in S : x <= y
  PROVE  Min(S) = x
BY DEF Min

-----------------------------------------------------------------------------
(* The order of a scan.                                                    *)

LEMMA Earlier2 ==
  ASSUME NEW a \in Int, NEW b \in Int, NEW c \in Int, NEW d \in Int
  PROVE  Earlier(<<a, b>>, <<c, d>>) <=> a < c \/ (a = c /\ b < d)
<1>1. DOMAIN <<a, b>> = {1, 2} /\ 1..(1 - 1) = {} /\ 1..(2 - 1) = {1}
  OBVIOUS
<1> QED
  BY <1>1 DEF Earlier

\* The same for the positions of the scan, which have three parts.
LEMMA Earlier3 ==
  ASSUME NEW a \in Int, NEW b \in Int, NEW c \in Int,
         NEW x \in Int, NEW y \in Int, NEW z \in Int
  PROVE  Earlier(<<a, b, c>>, <<x, y, z>>) <=>
           a < x \/ (a = x /\ b < y) \/ (a = x /\ b = y /\ c < z)
<1>1. /\ DOMAIN <<a, b, c>> = {1, 2, 3} /\ 1..(1 - 1) = {} /\ 1..(2 - 1) = {1}
      /\ 1..(3 - 1) = {1, 2}
  OBVIOUS
<1> QED
  BY <1>1 DEF Earlier

\* What is later than everything else is what the scan meets last.
LEMMA LastOfIs ==
  ASSUME NEW S, NEW x \in S,
         \A y \in S : y = x \/ (Earlier(y.at, x.at) /\ ~Earlier(x.at, y.at))
  PROVE  LastOf(S) = x
<1>1. \A z \in S : (\A y \in S : y = z \/ Earlier(y.at, z.at)) => z = x
  OBVIOUS
<1>2. PICK P : P = LastOf(S)
  OBVIOUS
<1>3. LastOf(S) \in S /\ \A y \in S : y = LastOf(S) \/ Earlier(y.at, LastOf(S).at)
  BY DEF LastOf
<1> QED
  BY <1>1, <1>3

-----------------------------------------------------------------------------
(* The chain of blocks, from its definition to its elements.               *)

LEMMA ChainIs ==
  ASSUME NEW blocks, NEW ppn, NEW k \in 1..NumBlks, NEW s \in [1..k -> Blks],
         s[1] = ppn.blk, \A n \in 1..(k - 1) : blocks[s[n]].next = s[n + 1],
         blocks[s[k]].next = NoBlk
  PROVE  ChainOf(blocks, ppn) = s
<1> DEFINE len(n) == IF n < k THEN n + 1 ELSE k
           G == [n \in 0..NumBlks |-> [i \in 1..len(n) |-> s[i]]]
           Step(f, n) == IF n = 0 THEN <<ppn.blk>>
                         ELSE LET t == f[n - 1]  nxt == blocks[Last(t)].next
                              IN  IF nxt = NoBlk THEN t ELSE Append(t, nxt)
<1>0. NumBlks \in Nat /\ k \in Nat /\ k <= NumBlks /\ k >= 1
  BY NumBlksAssumption
<1>1. ASSUME NEW f, NEW n \in 0..NumBlks, n # 0,
             f[n - 1] = [i \in 1..len(n - 1) |-> s[i]]
      PROVE  Step(f, n) = [i \in 1..len(n) |-> s[i]]
  <2>1. PICK m : m = len(n - 1)
    OBVIOUS
  <2>2. m \in 1..k /\ m \in Nat
    BY <1>0, <1>1, <2>1
  <2>3. PICK t : t = [i \in 1..m |-> s[i]]
    OBVIOUS
  <2>4. t \in Seq(Blks) /\ Len(t) = m
    <3>1. t \in [1..m -> Blks]
      BY <2>2, <2>3
    <3> QED
      BY <2>2, <3>1
  <2>5. Last(t) = s[m]
    BY <2>2, <2>3, <2>4 DEF Last
  <2>6. CASE n < k
    <3>1. m = n /\ len(n) = n + 1 /\ n \in 1..(k - 1)
      BY <1>0, <1>1, <2>1, <2>6
    <3>2. blocks[Last(t)].next = s[n + 1] /\ s[n + 1] \in Blks
      BY <2>5, <3>1
    <3>3. s[n + 1] # NoBlk
      BY <3>2 DEF Blks, NoBlk
    <3>4. Append(t, s[n + 1]) = [i \in 1..(n + 1) |-> s[i]]
      <4>1. PICK u : u = Append(t, s[n + 1])
        OBVIOUS
      <4>2. /\ u \in Seq(Blks) /\ Len(u) = n + 1 /\ u[n + 1] = s[n + 1]
            /\ \A i \in 1..n : u[i] = t[i]
        BY <2>4, <3>1, <3>2, <4>1, AppendProperties
      <4>3. u \in [1..(n + 1) -> Blks]
        BY <4>2, LenProperties
      <4>4. \A i \in 1..(n + 1) : u[i] = s[i]
        <5>1. \A i \in 1..(n + 1) : i = n + 1 \/ i \in 1..n
          BY <3>1
        <5> QED
          BY <2>3, <3>1, <4>2, <5>1
      <4> QED
        BY <4>1, <4>3, <4>4
    <3> QED
      BY <1>1, <2>1, <2>3, <3>1, <3>2, <3>3, <3>4
  <2>7. CASE ~(n < k)
    <3>1. m = k /\ len(n) = k
      BY <1>0, <1>1, <2>1, <2>7
    <3>2. blocks[Last(t)].next = NoBlk
      BY <2>5, <3>1
    <3> QED
      BY <1>1, <2>1, <2>3, <3>1, <3>2
  <2> QED
    BY <2>6, <2>7
<1>2. ASSUME NEW f
      PROVE  Step(f, 0) = [i \in 1..len(0) |-> s[i]]
  <2>1. len(0) = 1
    BY <1>0
  <2>2. <<ppn.blk>> = [i \in 1..1 |-> s[i]]
    OBVIOUS
  <2> QED
    BY <2>1, <2>2
<1>3. G = [n \in 0..NumBlks |-> Step(G, n)]
  <2> SUFFICES ASSUME NEW n \in 0..NumBlks
               PROVE  [i \in 1..len(n) |-> s[i]] = Step(G, n)
    OBVIOUS
  <2>1. CASE n = 0
    BY <1>2, <2>1
  <2>2. CASE n # 0
    <3>1. n - 1 \in 0..NumBlks
      BY <1>0, <2>2
    <3>2. G[n - 1] = [i \in 1..len(n - 1) |-> s[i]]
      BY <3>1
    <3> HIDE DEF G, Step, len
    <3> QED
      BY <1>1, <2>2, <3>2
  <2> QED
    BY <2>1, <2>2
<1> DEFINE C == CHOOSE f : f = [n \in 0..NumBlks |-> Step(f, n)]
<1>4. C = [n \in 0..NumBlks |-> Step(C, n)]
  <2>1. \E f : f = [n \in 0..NumBlks |-> Step(f, n)]
    BY <1>3, Zenon
  <2> QED
    BY <2>1, Zenon
<1>5. \A n \in 0..NumBlks : C[n] = Step(C, n)
  <2> HIDE DEF Step, G
  <2> SUFFICES ASSUME NEW n \in 0..NumBlks
               PROVE  C[n] = Step(C, n)
    OBVIOUS
  <2> DEFINE H(x) == Step(C, x)
  <2>1. C = [x \in 0..NumBlks |-> H(x)]
    BY <1>4, Zenon
  <2> HIDE DEF H, C
  <2>2. C[n] = H(n)
    BY <2>1
  <2> QED
    BY <2>2 DEF H
<1>6. \A n \in 0..NumBlks : C[n] = [i \in 1..len(n) |-> s[i]]
  <2> HIDE DEF C
  <2> DEFINE Off == {n \in 0..NumBlks : C[n] # [i \in 1..len(n) |-> s[i]]}
  <2> SUFFICES ASSUME Off # {}
               PROVE  FALSE
    OBVIOUS
  <2>1. Off \in SUBSET Nat
    BY <1>0
  <2>2. PICK n \in Off : \A m \in Off : n <= m
    BY <2>1, Least
  <2>3. n \in 0..NumBlks /\ C[n] # [i \in 1..len(n) |-> s[i]]
    OBVIOUS
  <2>4. CASE n = 0
    <3> HIDE DEF Step, len
    <3> QED
      BY <1>2, <1>5, <2>3, <2>4
  <2>5. CASE n # 0
    <3>1. n - 1 \in 0..NumBlks /\ n - 1 \notin Off
      BY <1>0, <2>2, <2>3, <2>5
    <3>2. C[n - 1] = [i \in 1..len(n - 1) |-> s[i]]
      BY <3>1
    <3> HIDE DEF Step, len, Off
    <3> QED
      BY <1>1, <1>5, <2>3, <2>5, <3>2
  <2> QED
    BY <2>4, <2>5
<1>7. ChainOf(blocks, ppn) = C[NumBlks]
  BY Zenon DEF ChainOf
<1>8. len(NumBlks) = k /\ NumBlks \in 0..NumBlks
  BY <1>0
<1>9. s = [i \in 1..k |-> s[i]]
  OBVIOUS
<1> QED
  BY <1>6, <1>7, <1>8, <1>9

-----------------------------------------------------------------------------
(* The number of writes recovery keeps.                                    *)

\* pull_epoch_incomplete ends at the largest number of writes, up to the
\* first incomplete one, that no dependency leads out of.
LEMMA PullIs ==
  ASSUME NEW ds, NEW f \in Nat,
         \A d \in DOMAIN ds : ds[d].src \in Nat /\ ds[d].dst \in Nat
  PROVE  /\ PullIncomplete(ds, f) \in 0..f
         /\ \A d \in DOMAIN ds : ~(/\ ds[d].src < PullIncomplete(ds, f)
                                     /\ PullIncomplete(ds, f) <= ds[d].dst)
         /\ \A x \in 0..f : (\A d \in DOMAIN ds : ~(ds[d].src < x /\ x <= ds[d].dst))
                              => x <= PullIncomplete(ds, f)
<1> DEFINE Cl(s, c) == \A d \in DOMAIN ds :
                         s <= ds[d].src => ~(ds[d].src < c /\ c <= ds[d].dst)
           Best(s, c) == c \in s..f /\ Cl(s, c) /\ \A x \in s..f : Cl(s, x) => x <= c
           G == [s \in 0..f |-> CHOOSE c : Best(s, c)]
           Step(p, s) == IF s = f THEN s
                         ELSE IF \E d \in DOMAIN ds : /\ ds[d].src = s
                                                        /\ ds[d].dst >= p[s + 1]
                              THEN s ELSE p[s + 1]
<1>1. ASSUME NEW s \in 0..f
      PROVE  \E c : Best(s, c)
  <2> DEFINE T == {c \in s..f : Cl(s, c)}
  <2>1. T \in SUBSET (0..f)
    OBVIOUS
  <2>2. s \in T
    OBVIOUS
  <2>3. PICK c \in T : \A x \in T : x <= c
    BY <2>1, <2>2, Greatest
  <2>4. Best(s, c)
    BY <2>3
  <2> QED
    BY <2>4
<1>2. ASSUME NEW s \in 0..f, NEW c, NEW x, Best(s, c), Best(s, x)
      PROVE  c = x
  <2>1. c \in Int /\ x \in Int /\ c <= x /\ x <= c
    BY <1>2
  <2> QED
    BY <2>1
<1>3. Best(f, f)
  OBVIOUS
<1>4. ASSUME NEW s \in 0..f, s # f, NEW p, Best(s + 1, p[s + 1])
      PROVE  Best(s, Step(p, s))
  <2>1. PICK q : q = p[s + 1]
    OBVIOUS
  <2>2. /\ q \in (s + 1)..f /\ Cl(s + 1, q)
        /\ \A x \in (s + 1)..f : Cl(s + 1, x) => x <= q
    BY <1>4, <2>1
  <2>3. s + 1 \in 0..f
    BY <1>4
  <2>4. \A x : Cl(s, x) => Cl(s + 1, x)
    OBVIOUS
  <2>5. CASE \E d \in DOMAIN ds : ds[d].src = s /\ ds[d].dst >= q
    <3>1. Step(p, s) = s
      BY <1>4, <2>1, <2>5
    <3>2. PICK d \in DOMAIN ds : ds[d].src = s /\ ds[d].dst >= q
      BY <2>5
    <3>3. ASSUME NEW x \in s..f, Cl(s, x)
          PROVE  x <= s
      <4> SUFFICES ASSUME x # s
                   PROVE  FALSE
        OBVIOUS
      <4>1. x \in (s + 1)..f
        OBVIOUS
      <4>2. x <= q
        BY <2>2, <2>4, <3>3, <4>1
      <4> QED
        BY <3>2, <3>3, <4>1, <4>2, <2>2
    <3>4. Cl(s, s)
      OBVIOUS
    <3>5. Best(s, s)
      BY <3>3, <3>4
    <3> QED
      BY <3>1, <3>5
  <2>6. CASE ~ \E d \in DOMAIN ds : ds[d].src = s /\ ds[d].dst >= q
    <3>1. Step(p, s) = q
      BY <1>4, <2>1, <2>6
    <3>2. Cl(s, q)
      <4> SUFFICES ASSUME NEW d \in DOMAIN ds, s <= ds[d].src,
                          ds[d].src < q, q <= ds[d].dst
                   PROVE  FALSE
        OBVIOUS
      <4>1. ds[d].src # s
        BY <2>2, <2>6
      <4>2. s + 1 <= ds[d].src
        BY <4>1
      <4> QED
        BY <2>2, <4>2
    <3>3. ASSUME NEW x \in s..f, Cl(s, x)
          PROVE  x <= q
      <4>1. CASE x = s
        BY <2>2, <4>1
      <4>2. CASE x # s
        <5>1. x \in (s + 1)..f
          BY <4>2
        <5> QED
          BY <2>2, <2>4, <3>3, <5>1
      <4> QED
        BY <4>1, <4>2
    <3>4. q \in s..f
      BY <2>2
    <3>5. Best(s, q)
      BY <3>2, <3>3, <3>4
    <3> QED
      BY <3>1, <3>5
  <2> QED
    BY <2>5, <2>6
<1> HIDE DEF Best, Step
<1>5. ASSUME NEW s \in 0..f
      PROVE  Best(s, G[s])
  <2>1. G[s] = CHOOSE c : Best(s, c)
    OBVIOUS
  <2> QED
    BY <1>1, <2>1
<1>6. G = [s \in 0..f |-> Step(G, s)]
  <2> SUFFICES ASSUME NEW s \in 0..f
               PROVE  G[s] = Step(G, s)
    BY DEF G
  <2>1. CASE s = f
    <3>1. Step(G, s) = f
      BY <2>1 DEF Step
    <3> QED
      BY <1>2, <1>3, <1>5, <2>1, <3>1
  <2>2. CASE s # f
    <3>1. s + 1 \in 0..f
      BY <2>2
    <3> HIDE DEF G
    <3>2. Best(s, Step(G, s))
      BY <1>4, <1>5, <2>2, <3>1
    <3> QED
      BY <1>2, <1>5, <3>2
  <2> QED
    BY <2>1, <2>2
<1> DEFINE C == CHOOSE p : p = [s \in 0..f |-> Step(p, s)]
<1>7. C = [s \in 0..f |-> Step(C, s)]
  <2>1. \E p : p = [s \in 0..f |-> Step(p, s)]
    BY <1>6, Zenon
  <2> QED
    BY <2>1, Zenon
<1> HIDE DEF G
<1>8. \A s \in 0..f : C[s] = Step(C, s)
  <2> SUFFICES ASSUME NEW s \in 0..f
               PROVE  C[s] = Step(C, s)
    OBVIOUS
  <2> DEFINE H(x) == Step(C, x)
  <2>1. C = [x \in 0..f |-> H(x)]
    BY <1>7, Zenon
  <2> HIDE DEF H, C
  <2>2. C[s] = H(s)
    BY <2>1
  <2> QED
    BY <2>2 DEF H
<1> HIDE DEF C
<1>9. \A s \in 0..f : Best(s, C[s])
  <2> DEFINE Off == {k \in 0..f : ~Best(f - k, C[f - k])}
  <2>1. ASSUME Off # {}
        PROVE  FALSE
    <3>1. Off \in SUBSET Nat
      OBVIOUS
    <3>2. PICK k \in Off : \A m \in Off : k <= m
      BY <2>1, <3>1, Least
    <3>3. k \in 0..f /\ ~Best(f - k, C[f - k])
      OBVIOUS
    <3>4. PICK s : s = f - k
      OBVIOUS
    <3>5. s \in 0..f /\ ~Best(s, C[s]) /\ C[s] = Step(C, s)
      BY <1>8, <3>3, <3>4
    <3>6. CASE k = 0
      BY <1>3, <3>4, <3>5, <3>6 DEF Step
    <3>7. CASE k # 0
      <4>1. k - 1 \in 0..f /\ k - 1 \notin Off /\ f - (k - 1) = s + 1
        BY <3>2, <3>3, <3>4, <3>7
      <4>2. Best(s + 1, C[s + 1]) /\ s # f
        BY <3>3, <3>4, <3>7, <4>1
      <4> QED
        BY <1>4, <3>5, <4>2
    <3> QED
      BY <3>6, <3>7
  <2>2. ASSUME NEW s \in 0..f
        PROVE  Best(s, C[s])
    <3>1. f - s \in 0..f /\ f - (f - s) = s
      OBVIOUS
    <3>2. f - s \notin Off
      BY <2>1
    <3> QED
      BY <3>1, <3>2
  <2> QED
    BY <2>2
<1>10. PullIncomplete(ds, f) = C[0]
  BY Zenon DEF PullIncomplete, C, Step
<1>11. Best(0, C[0])
  BY <1>9
<1> QED
  BY <1>10, <1>11 DEF Best

\* find_first_incomplete_write: all writes before it are accounted for (D),
\* and it is not, unless it has not been issued.
LEMMA FirstIs ==
  ASSUME NEW pages, NEW ds, NEW c \in Nat, NEW n \in Nat, c < n, n < EpochMod,
         \A x \in WritePages(pages, c) : x.pg.epoch \in (c + 1)..(n - 1),
         \A d \in DOMAIN ds : ds[d].src \in (c + 1)..(n - 1),
         NEW D,
         \A e \in (c + 1)..(n - 1) :
           e \in D <=> /\ Span(e, pages, ds, c) # 0
                       /\ Span(e, pages, ds, c) = Found(e, pages, ds, c)
  PROVE  /\ FirstIncomplete(pages, ds, c) \in (c + 1)..n
         /\ \A e \in (c + 1)..(FirstIncomplete(pages, ds, c) - 1) : e \in D
         /\ FirstIncomplete(pages, ds, c) < n => FirstIncomplete(pages, ds, c) \notin D
<1> DEFINE T == {c} \cup {x.pg.epoch : x \in WritePages(pages, c)}
                  \cup {ds[d].src : d \in {y \in DOMAIN ds : ds[y].src > c}}
<1>0. EpochMod \in Nat
  BY RecoveryAssumption
<1>1. T \in SUBSET (0..(n - 1)) /\ c \in T /\ n - 1 \in Nat /\ \A t \in T : c <= t
  OBVIOUS
<1>2. PICK m \in T : \A t \in T : t <= m
  <2> HIDE DEF T
  <2> QED
    BY <1>1, Greatest
<1>3. EpochMax(pages, ds, c) = m /\ m \in c..(n - 1)
  <2>1. \A t \in T : t \in Int
    BY <1>1
  <2>2. Max(T) = m
    <3> HIDE DEF T
    <3> QED
      BY <1>2, <2>1, MaxIs
  <2>3. m \in c..(n - 1)
    <3> HIDE DEF T
    <3> QED
      BY <1>1, <1>2
  <2> QED
    BY <2>2, <2>3 DEF EpochMax
<1>4. ASSUME NEW e \in (c + 1)..(n - 1), e > m
      PROVE  e \notin D
  <2>1. \A x \in WritePages(pages, c) : x.pg.epoch # e
    <3> SUFFICES ASSUME NEW x \in WritePages(pages, c), x.pg.epoch = e
                 PROVE  FALSE
      OBVIOUS
    <3>1. e \in T
      OBVIOUS
    <3> HIDE DEF T
    <3> QED
      BY <1>2, <1>3, <1>4, <3>1
  <2>2. \A d \in DOMAIN ds : ds[d].src # e
    <3> SUFFICES ASSUME NEW d \in DOMAIN ds, ds[d].src = e
                 PROVE  FALSE
      OBVIOUS
    <3>1. d \in {y \in DOMAIN ds : ds[y].src > c}
      OBVIOUS
    <3>2. e \in T
      BY <3>1
    <3> HIDE DEF T
    <3> QED
      BY <1>2, <1>3, <1>4, <3>2
  <2>3. Span(e, pages, ds, c) = 0
    <3>1. {y \in WritePages(pages, c) : y.pg.epoch = e} = {}
      BY <2>1
    <3>2. {y \in DOMAIN ds : ds[y].src = e /\ e > c} = {}
      BY <2>2
    <3> QED
      BY <3>1, <3>2 DEF Span
  <2> QED
    BY <2>3
<1> DEFINE last == m - c
           full(i) == /\ Span(c + i, pages, ds, c) # 0
                      /\ Span(c + i, pages, ds, c) = Found(c + i, pages, ds, c)
           U == {last + 1} \cup {i \in 1..last : ~full(i)}
<1>5. PICK i \in U : \A u \in U : i <= u
  <2>1. U \in SUBSET Nat /\ U # {}
    BY <1>3
  <2> HIDE DEF U
  <2> QED
    BY <2>1, Least
<1>6. i \in 1..(last + 1) /\ last \in 0..(n - 1 - c)
  BY <1>3
<1>7. Min(U) = i
  <2>1. \A u \in U : u \in Int
    BY <1>3
  <2> HIDE DEF U
  <2> QED
    BY <1>5, <2>1, MinIs
<1>8. FirstIncomplete(pages, ds, c) = (c + i) % EpochMod
  BY <1>3, <1>7 DEF FirstIncomplete
<1>9. c + i \in (c + 1)..n /\ (c + i) % EpochMod = c + i
  BY <1>0, <1>3, <1>6
<1>10. ASSUME NEW e \in (c + 1)..(c + i - 1)
       PROVE  e \in D
  <2>1. e - c \in 1..last /\ e - c \notin U /\ c + (e - c) = e
    BY <1>5, <1>6, <1>10
  <2>2. full(e - c)
    BY <2>1
  <2>3. e \in (c + 1)..(n - 1)
    BY <1>9, <1>10
  <2> QED
    BY <2>1, <2>2, <2>3
<1>11. ASSUME c + i < n
       PROVE  c + i \notin D
  <2>1. c + i \in (c + 1)..(n - 1)
    BY <1>6, <1>11
  <2>2. CASE i = last + 1
    BY <1>3, <1>4, <2>1, <2>2
  <2>3. CASE i # last + 1
    <3>1. ~full(i)
      BY <1>5, <2>3
    <3> QED
      BY <2>1, <3>1
  <2> QED
    BY <2>2, <2>3
<1> QED
  BY <1>8, <1>9, <1>10, <1>11

\* Before the first checkpoint no write counts.
LEMMA FirstZero ==
  ASSUME NEW pages, NEW ds, \A x \in pages : x.pg.epoch \in Epochs,
         \A d \in DOMAIN ds : ds[d].src \in Epochs
  PROVE  FirstIncomplete(pages, ds, EpochPred(0)) = 0
<1>0. EpochMod \in Nat /\ EpochMod > 3 /\ EpochPred(0) = EpochMod - 1
  BY RecoveryAssumption DEF EpochPred
<1>1. PICK c : c = EpochPred(0)
  OBVIOUS
<1>2. WritePages(pages, c) = {}
  BY <1>0, <1>1 DEF WritePages, Epochs
<1>3. {d \in DOMAIN ds : ds[d].src > c} = {}
  BY <1>0, <1>1 DEF Epochs
<1>4. EpochMax(pages, ds, c) = c
  <2>1. EpochMax(pages, ds, c) = Max({c})
    BY <1>2, <1>3 DEF EpochMax
  <2>2. c \in Int
    BY <1>0, <1>1
  <2> QED
    BY <2>1, <2>2, MaxIs
<1>5. FirstIncomplete(pages, ds, c) = (c + 1) % EpochMod
  <2>1. EpochMax(pages, ds, c) - c = 0 /\ c \in Int
    BY <1>0, <1>1, <1>4
  <2>2. FirstIncomplete(pages, ds, c) = (c + Min({0 + 1} \cup {})) % EpochMod
    <3>1. 1..0 = {}
      OBVIOUS
    <3> QED
      BY <2>1, <3>1 DEF FirstIncomplete
  <2>3. Min({1}) = 1
    BY MinIs
  <2> QED
    BY <2>2, <2>3
<1>6. (EpochMod - 1 + 1) % EpochMod = 0
  BY <1>0
<1> QED
  BY <1>0, <1>1, <1>5, <1>6

-----------------------------------------------------------------------------
(* The blocks recovery scans in one bank.                                  *)

\* The scan starts in the block at the reserve mark, m steps after the tail,
\* and the summary pages lead through all blocks taken since.
ChainAt(fl, r, ta, m) ==
  /\ m \in 0..(Used(r) - 1)
  /\ At(r, m) = r.rsv /\ Nth(r, m) = ta.blk
  /\ ta.page <= Len(fl[ta.blk].pages)
  /\ \A k \in m..(Used(r) - 2) : fl[Nth(r, k)].next = Nth(r, k + 1)
ChainOk(fl, r, ta) == \E m \in Nat : ChainAt(fl, r, ta, m)

\* The page p of the block j steps after the tail, as the scan meets it.
Met(b, fl, r, m, j, p) ==
  [at  |-> <<b, j - m + 1, p>>,
   ppn |-> [blk |-> Nth(r, j), page |-> p],
   pg  |-> fl[Nth(r, j)].pages[p + 1]]

\* The summary pages lead from the block of the tag to the active one.
LEMMA ChainBlocks ==
  ASSUME NEW fl, NEW r \in RingType, NEW ac \in Ppn, BankOk(fl, r, ac),
         NEW ta, NEW m, ChainAt(fl, r, ta, m)
  PROVE  ChainOf(fl, ta) = [n \in 1..(Used(r) - m) |-> Nth(r, m + n - 1)]
<1>1. /\ Used(r) \in 1..NumBlks /\ Used(r) - 1 \in Idx
      /\ \A k \in Idx : Nth(r, k) \in Blks
  BY BankFacts
<1>2. NumBlks \in Nat /\ m \in 0..(Used(r) - 1)
  BY NumBlksAssumption DEF ChainAt
<1>3. PICK k : k = Used(r) - m
  OBVIOUS
<1>4. k \in 1..NumBlks /\ Used(r) - 1 = m + k - 1
  BY <1>1, <1>2, <1>3
<1>5. PICK s : s = [n \in 1..k |-> Nth(r, m + n - 1)]
  OBVIOUS
<1>6. \A n \in 1..k : m + n - 1 \in Idx
  BY <1>1, <1>2, <1>4 DEF Idx
<1>7. s \in [1..k -> Blks]
  BY <1>1, <1>5, <1>6
<1>8. s[1] = ta.blk
  <2>1. 1 \in 1..k /\ m + 1 - 1 = m
    BY <1>2, <1>4
  <2> QED
    BY <1>5, <2>1 DEF ChainAt
<1>9. \A n \in 1..(k - 1) : fl[s[n]].next = s[n + 1]
  <2> TAKE n \in 1..(k - 1)
  <2>1. /\ n \in 1..k /\ n + 1 \in 1..k /\ m + n - 1 \in m..(Used(r) - 2)
        /\ m + (n + 1) - 1 = (m + n - 1) + 1
    BY <1>1, <1>2, <1>4
  <2> QED
    BY <1>5, <2>1 DEF ChainAt
<1>10. fl[s[k]].next = NoBlk
  <2>1. k \in 1..k
    BY <1>4
  <2> QED
    BY <1>4, <1>5, <2>1 DEF BankOk
<1>11. ChainOf(fl, ta) = s
  BY <1>4, <1>7, <1>8, <1>9, <1>10, ChainIs
<1> QED
  BY <1>3, <1>5, <1>11

\* The pages recovery retrieves from one bank.
LEMMA RetrievedIs ==
  ASSUME NEW b, NEW fl \in [Blks -> Block], NEW r \in RingType, NEW ac \in Ppn,
         BankOk(fl, r, ac), NEW ta \in Ppn, NEW m, ChainAt(fl, r, ta, m), NEW x
  PROVE  x \in Retrieved(b, fl, ta) <=>
           \E j \in m..(Used(r) - 1), p \in Nat :
             /\ j = m => ta.page <= p
             /\ p < Len(fl[Nth(r, j)].pages)
             /\ x = Met(b, fl, r, m, j, p)
<1>1. /\ Used(r) \in 1..NumBlks /\ Used(r) - 1 \in Idx
      /\ \A k \in Idx : Nth(r, k) \in Blks
  BY BankFacts
<1>2. NumBlks \in Nat /\ m \in 0..(Used(r) - 1) /\ ta.page \in Nat
  BY NumBlksAssumption, RecoveryAssumption DEF ChainAt, Ppn, Pages
<1>3. PICK k : k = Used(r) - m
  OBVIOUS
<1>4. PICK ch : ch = [n \in 1..k |-> Nth(r, m + n - 1)]
  OBVIOUS
<1>5. ChainOf(fl, ta) = ch /\ DOMAIN ch = 1..k
  <2>1. ChainOf(fl, ta) = [n \in 1..(Used(r) - m) |-> Nth(r, m + n - 1)]
    BY ChainBlocks
  <2> QED
    BY <1>3, <1>4, <2>1, Zenon
<1> DEFINE from(n) == IF n = 1 THEN ta.page ELSE 0
           Ent(n, p) == [at  |-> <<b, n, p>>, ppn |-> [blk |-> ch[n], page |-> p],
                         pg  |-> fl[ch[n]].pages[p + 1]]
           Row(n) == {Ent(n, p) : p \in from(n)..(Len(fl[ch[n]].pages) - 1)}
<1>6. Retrieved(b, fl, ta) = UNION {Row(n) : n \in 1..k}
  BY <1>5 DEF Retrieved
<1>7. x \in Retrieved(b, fl, ta) <=>
        \E n \in 1..k : \E p \in from(n)..(Len(fl[ch[n]].pages) - 1) : x = Ent(n, p)
  <2> HIDE DEF Ent, from
  <2> QED
    BY <1>6
<1>8. \A j \in m..(Used(r) - 1) : Len(fl[Nth(r, j)].pages) \in Nat
  <2> TAKE j \in m..(Used(r) - 1)
  <2>1. j \in Idx
    BY <1>1, <1>2 DEF Idx
  <2> QED
    BY <1>1, <2>1 DEF Block
<1>9. ASSUME NEW n \in 1..k, NEW p \in from(n)..(Len(fl[ch[n]].pages) - 1),
             x = Ent(n, p)
      PROVE  \E j \in m..(Used(r) - 1), q \in Nat :
               /\ j = m => ta.page <= q
               /\ q < Len(fl[Nth(r, j)].pages)
               /\ x = Met(b, fl, r, m, j, q)
  <2>1. PICK j : j = m + n - 1
    OBVIOUS
  <2>2. /\ j \in m..(Used(r) - 1) /\ j - m + 1 = n /\ (j = m => n = 1)
        /\ ch[n] = Nth(r, j)
    BY <1>1, <1>2, <1>3, <1>4, <2>1
  <2>3. p \in Nat /\ p < Len(fl[Nth(r, j)].pages) /\ (j = m => ta.page <= p)
    BY <1>2, <1>8, <1>9, <2>2
  <2>4. x = Met(b, fl, r, m, j, p)
    BY <1>9, <2>2 DEF Met
  <2> QED
    BY <2>2, <2>3, <2>4
<1>10. ASSUME NEW j \in m..(Used(r) - 1), NEW p \in Nat, j = m => ta.page <= p,
              p < Len(fl[Nth(r, j)].pages), x = Met(b, fl, r, m, j, p)
       PROVE  \E n \in 1..k : \E q \in from(n)..(Len(fl[ch[n]].pages) - 1) : x = Ent(n, q)
  <2>1. PICK n : n = j - m + 1
    OBVIOUS
  <2>2. n \in 1..k /\ m + n - 1 = j /\ (n = 1 => j = m)
    BY <1>1, <1>2, <1>3, <2>1
  <2>3. ch[n] = Nth(r, j)
    BY <1>4, <2>2
  <2>4. p \in from(n)..(Len(fl[ch[n]].pages) - 1)
    BY <1>2, <1>8, <1>10, <2>2, <2>3
  <2>5. x = Ent(n, p)
    BY <1>10, <2>1, <2>3 DEF Met
  <2> QED
    BY <2>2, <2>4, <2>5
<1> HIDE DEF Ent, from
<1> QED
  BY <1>7, <1>9, <1>10

\* The same, quantified: a lemma whose conclusion is one formula.
LEMMA RetrievedMet ==
  ASSUME NEW b, NEW fl \in [Blks -> Block], NEW r \in RingType, NEW ac \in Ppn,
         BankOk(fl, r, ac), NEW ta \in Ppn, NEW m, ChainAt(fl, r, ta, m)
  PROVE  \A x \in Retrieved(b, fl, ta) :
           \E j \in m..(Used(r) - 1), p \in Nat :
             /\ j = m => ta.page <= p
             /\ p < Len(fl[Nth(r, j)].pages)
             /\ x = Met(b, fl, r, m, j, p)
<1> TAKE x \in Retrieved(b, fl, ta)
<1> QED
  BY RetrievedIs

\* What a scanned page is, and where.
LEMMA RetrievedFacts ==
  ASSUME NEW b \in Banks, NEW fl \in [Blks -> Block], NEW r \in RingType, NEW ac \in Ppn,
         BankOk(fl, r, ac), HomeOk(b, fl), NEW ta \in Ppn, NEW m, ChainAt(fl, r, ta, m),
         NEW x \in Retrieved(b, fl, ta)
  PROVE  /\ x.pg \in DataPage /\ Bank(x.pg.lpn) = b
         /\ x.ppn \in [blk : Blks, page : Nat] /\ x.ppn.page < Len(fl[x.ppn.blk].pages)
         /\ x.pg = fl[x.ppn.blk].pages[x.ppn.page + 1]
         /\ x.ppn.blk # r.vt
         /\ \A j \in 0..(m - 1) : x.ppn.blk # Nth(r, j)
         /\ \E n, p \in Nat : x.at = <<b, n, p>>
         /\ \A y \in Retrieved(b, fl, ta) : x.at = y.at => x = y
<1>1. /\ Used(r) \in 1..NumBlks /\ Used(r) - 1 \in Idx
      /\ \A k \in Idx : Nth(r, k) \in Blks
  BY BankFacts
<1>2. NumBlks \in Nat /\ m \in 0..(Used(r) - 1)
  BY NumBlksAssumption DEF ChainAt
<1>3. PICK j \in m..(Used(r) - 1), p \in Nat :
         /\ j = m => ta.page <= p
         /\ p < Len(fl[Nth(r, j)].pages)
         /\ x = Met(b, fl, r, m, j, p)
  BY RetrievedIs
<1>4. j \in Idx /\ Nth(r, j) \in Blks /\ j \in Nat
  BY <1>1, <1>2 DEF Idx
<1>5. PICK ps : ps = fl[Nth(r, j)].pages
  OBVIOUS
<1>6. ps \in Seq(DataPage) /\ p + 1 \in DOMAIN ps /\ p + 1 \in 1..Len(ps)
  BY <1>3, <1>4, <1>5 DEF Block
<1>7. x.pg = ps[p + 1] /\ x.ppn = [blk |-> Nth(r, j), page |-> p] /\ x.at = <<b, j - m + 1, p>>
  BY <1>3, <1>5 DEF Met
<1>8. x.pg \in DataPage /\ Bank(x.pg.lpn) = b
  BY <1>4, <1>5, <1>6, <1>7 DEF HomeOk
<1>9. x.ppn.blk # r.vt
  <2>1. CASE r.vt = NoBlk
    BY <1>4, <1>7, <2>1 DEF Blks, NoBlk
  <2>2. CASE r.vt # NoBlk
    <3>1. NumBlks - 1 \in Idx /\ NumBlks - 1 # j /\ Nth(r, NumBlks - 1) = r.vt
      BY <2>2, <1>1, <1>2, <1>4, NumBlksAssumption DEF BankOk, RingOk, Used, Idx
    <3>2. Nth(r, j) # Nth(r, NumBlks - 1)
      BY <1>4, <3>1 DEF BankOk, RingOk
    <3> QED
      BY <1>7, <3>1, <3>2
  <2> QED
    BY <2>1, <2>2
<1>10. \A i \in 0..(m - 1) : x.ppn.blk # Nth(r, i)
  <2> TAKE i \in 0..(m - 1)
  <2>1. i \in Idx /\ i # j
    BY <1>1, <1>2, <1>4 DEF Idx
  <2> QED
    BY <1>4, <1>7, <2>1 DEF BankOk, RingOk
<1>11. ASSUME NEW y \in Retrieved(b, fl, ta), x.at = y.at
       PROVE  x = y
  <2>1. PICK i \in m..(Used(r) - 1), q \in Nat :
           /\ i = m => ta.page <= q
           /\ q < Len(fl[Nth(r, i)].pages)
           /\ y = Met(b, fl, r, m, i, q)
    BY RetrievedIs
  <2>2. y.at = <<b, i - m + 1, q>>
    BY <2>1 DEF Met
  <2>3. j - m + 1 = i - m + 1 /\ p = q
    BY <1>7, <1>11, <2>2
  <2>4. i = j
    BY <1>2, <1>4, <2>3
  <2> QED
    BY <1>3, <2>1, <2>3, <2>4
<1>12. \E n, q \in Nat : x.at = <<b, n, q>>
  <2>1. j - m + 1 \in Nat
    BY <1>2, <1>4
  <2> QED
    BY <1>7, <2>1
<1> QED
  BY <1>3, <1>4, <1>5, <1>7, <1>8, <1>9, <1>10, <1>11, <1>12

\* A page programmed is met after all the others.
\* A page pg is appended to the block blk, x at ac is what a scan meets last.
OnlyAppends(fl, fm, blk, pg) ==
  /\ fm[blk].pages = Append(fl[blk].pages, pg)
  /\ \A k \in Blks : /\ fm[k].next = fl[k].next
                     /\ k # blk => fm[k].pages = fl[k].pages

\* A page x joins the pages scanned, S, as the last one of its bank.
MetLast(b, S, T, ac, pg, x) ==
  /\ T = S \cup {x}
  /\ x.ppn = ac /\ x.pg = pg
  /\ \E n, p \in Nat : x.at = <<b, n, p>>
  /\ \A y \in S : Earlier(y.at, x.at) /\ ~Earlier(x.at, y.at)

\* A program adds one page to the scan of its bank, behind all others.
LEMMA RetrievedProgram ==
  ASSUME NEW b \in Banks, NEW fl \in [Blks -> Block], NEW r \in RingType, NEW ac \in Ppn,
         BankOk(fl, r, ac), NEW ta \in Ppn, NEW m, ChainAt(fl, r, ta, m),
         NEW pg \in DataPage,
         NEW fm \in [Blks -> Block], NEW ad \in Ppn, BankOk(fm, r, ad),
         OnlyAppends(fl, fm, ac.blk, pg)
  PROVE  /\ ChainAt(fm, r, ta, m)
         /\ \E x : MetLast(b, Retrieved(b, fl, ta), Retrieved(b, fm, ta), ac, pg, x)
<1>0. /\ fm[ac.blk].pages = Append(fl[ac.blk].pages, pg)
      /\ \A k \in Blks : fm[k].next = fl[k].next
      /\ \A k \in Blks \ {ac.blk} : fm[k].pages = fl[k].pages
  BY DEF OnlyAppends
<1>1. /\ Used(r) \in 1..NumBlks /\ Used(r) - 1 \in Idx /\ ac.blk \in Blks
      /\ \A k \in Idx : Nth(r, k) \in Blks /\ (k # Used(r) - 1 => Nth(r, k) # ac.blk)
      /\ ac.page \in Pages
  BY BankFacts
<1>2. NumBlks \in Nat /\ m \in 0..(Used(r) - 1) /\ ta.page \in Nat /\ ac.page \in Nat
  BY <1>1, NumBlksAssumption, RecoveryAssumption DEF ChainAt, Ppn, Pages
<1>3. PICK e : e = fl[ac.blk]
  OBVIOUS
<1>4. e \in Block /\ e.pages \in Seq(DataPage) /\ Len(e.pages) = ac.page /\ e.next = NoBlk
  BY <1>1, <1>3 DEF Block, BankOk
<1>5. \A k \in Blks \ {ac.blk} : fm[k].pages = fl[k].pages
  BY <1>0
<1>6. /\ fm[ac.blk].pages = Append(e.pages, pg)
      /\ \A k \in Blks : fm[k].next = fl[k].next
  BY <1>0, <1>3
<1>7. /\ Len(fm[ac.blk].pages) = ac.page + 1 /\ fm[ac.blk].pages[ac.page + 1] = pg
      /\ \A i \in 1..ac.page : fm[ac.blk].pages[i] = fl[ac.blk].pages[i]
  BY <1>3, <1>4, <1>6, AppendProperties
<1>8. ta.blk \in Blks
  BY DEF Ppn
<1>9. ChainAt(fm, r, ta, m)
  <2>1. ta.page <= Len(fm[ta.blk].pages)
    <3>1. CASE ta.blk = ac.blk
      BY <1>2, <1>3, <1>4, <1>7, <3>1 DEF ChainAt
    <3>2. CASE ta.blk # ac.blk
      BY <1>5, <1>8, <3>2 DEF ChainAt
    <3> QED
      BY <3>1, <3>2
  <2>2. \A k \in m..(Used(r) - 2) : k \in Idx
    BY <1>1, <1>2 DEF Idx
  <2> QED
    BY <1>1, <1>6, <2>1, <2>2 DEF ChainAt
<1>a. PICK last : last = Used(r) - 1
  OBVIOUS
<1>13. PICK x : x = Met(b, fm, r, m, last, ac.page)
  OBVIOUS
<1>14. Nth(r, last) = ac.blk /\ last \in m..last /\ last \in Nat
  BY <1>1, <1>2, <1>a DEF BankOk
<1>15. x.ppn = ac /\ x.pg = pg /\ x.at = <<b, last - m + 1, ac.page>>
  <2>1. ac = [blk |-> ac.blk, page |-> ac.page]
    BY DEF Ppn
  <2> QED
    BY <1>7, <1>13, <1>14, <2>1 DEF Met
\* Other pages are met as before.
<1>16. ASSUME NEW j \in m..last, NEW p \in Nat, p < Len(fl[Nth(r, j)].pages)
       PROVE  /\ Met(b, fm, r, m, j, p) = Met(b, fl, r, m, j, p)
              /\ p < Len(fm[Nth(r, j)].pages)
              /\ Earlier(<<b, j - m + 1, p>>, x.at) /\ ~Earlier(x.at, <<b, j - m + 1, p>>)
  <2>1. j \in Idx /\ Nth(r, j) \in Blks /\ j \in Nat
    BY <1>1, <1>2, <1>a DEF Idx
  <2>2. /\ fm[Nth(r, j)].pages[p + 1] = fl[Nth(r, j)].pages[p + 1]
        /\ p < Len(fm[Nth(r, j)].pages)
        /\ j = last => p < ac.page
    <3>1. CASE Nth(r, j) = ac.blk
      <4>1. Len(fl[Nth(r, j)].pages) = ac.page
        BY <1>3, <1>4, <3>1
      <4>2. p + 1 \in 1..ac.page
        BY <1>2, <1>16, <4>1
      <4> QED
        <5>1. fm[ac.blk].pages[p + 1] = fl[ac.blk].pages[p + 1]
          BY <1>7, <4>2
        <5>2. Len(fm[ac.blk].pages) = ac.page + 1 /\ Len(fl[ac.blk].pages) = ac.page
          BY <1>3, <1>4, <1>7
        <5>3. p < ac.page /\ p < ac.page + 1
          BY <1>2, <4>2
        <5> QED
          BY <3>1, <5>1, <5>2, <5>3
    <3>2. CASE Nth(r, j) # ac.blk
      BY <1>5, <1>14, <1>16, <2>1, <3>2
    <3> QED
      BY <3>1, <3>2
  <2>3. b \in Int /\ j - m + 1 \in Int /\ last - m + 1 \in Int /\ ac.page \in Int /\ p \in Int
    <3>1. b \in Int
      BY RecoveryAssumption DEF Banks
    <3> QED
      BY <1>2, <1>14, <2>1, <3>1
  <2>4. j - m + 1 < last - m + 1 \/ (j = last /\ p < ac.page)
    BY <1>2, <1>14, <2>1, <2>2
  <2>5. Earlier(<<b, j - m + 1, p>>, x.at) /\ ~Earlier(x.at, <<b, j - m + 1, p>>)
    BY <1>15, <2>3, <2>4, Earlier3
  <2> QED
    BY <2>2, <2>5 DEF Met
<1>17. ASSUME NEW y \in Retrieved(b, fl, ta)
       PROVE  y \in Retrieved(b, fm, ta) /\ Earlier(y.at, x.at) /\ ~Earlier(x.at, y.at)
  <2>1. PICK j \in m..(Used(r) - 1), p \in Nat :
           /\ j = m => ta.page <= p
           /\ p < Len(fl[Nth(r, j)].pages)
           /\ y = Met(b, fl, r, m, j, p)
    BY RetrievedMet
  <2>a. j \in m..last
    BY <1>a
  <2>2. y = Met(b, fm, r, m, j, p) /\ p < Len(fm[Nth(r, j)].pages)
        /\ Earlier(<<b, j - m + 1, p>>, x.at) /\ ~Earlier(x.at, <<b, j - m + 1, p>>)
    BY <1>16, <2>1, <2>a
  <2>3. y \in Retrieved(b, fm, ta)
    BY <1>9, <1>a, <2>1, <2>2, RetrievedIs
  <2>4. y.at = <<b, j - m + 1, p>>
    BY <2>1 DEF Met
  <2> QED
    BY <2>2, <2>3, <2>4
<1>18. x \in Retrieved(b, fm, ta)
  <2>1. last = m => ta.page <= ac.page
    BY <1>3, <1>4, <1>14 DEF ChainAt
  <2>2. ac.page < Len(fm[Nth(r, last)].pages)
    BY <1>2, <1>7, <1>14
  <2> QED
    BY <1>2, <1>9, <1>13, <1>14, <1>a, <2>1, <2>2, RetrievedIs
<1>19. ASSUME NEW y \in Retrieved(b, fm, ta), y # x
       PROVE  y \in Retrieved(b, fl, ta)
  <2>1. PICK j \in m..(Used(r) - 1), p \in Nat :
           /\ j = m => ta.page <= p
           /\ p < Len(fm[Nth(r, j)].pages)
           /\ y = Met(b, fm, r, m, j, p)
    BY <1>9, RetrievedMet
  <2>a. j \in m..last
    BY <1>a
  <2>2. j \in Idx /\ Nth(r, j) \in Blks /\ j \in Nat
    BY <1>1, <1>2, <1>a DEF Idx
  <2>3. p < Len(fl[Nth(r, j)].pages)
    <3>1. CASE j = last
      <4>1. p # ac.page
        BY <1>13, <1>19, <2>1, <3>1
      <4>2. p < ac.page + 1
        BY <1>7, <1>14, <2>1, <3>1
      <4>3. p < ac.page
        BY <1>2, <2>1, <4>1, <4>2
      <4> QED
        BY <1>3, <1>4, <1>14, <3>1, <4>3
    <3>2. CASE j # last
      BY <1>1, <1>5, <1>a, <2>1, <2>2, <3>2
    <3> QED
      BY <3>1, <3>2
  <2>4. y = Met(b, fl, r, m, j, p)
    BY <1>16, <2>1, <2>3, <2>a
  <2> QED
    BY <2>1, <2>3, <2>4, RetrievedIs
<1>20. Retrieved(b, fm, ta) = Retrieved(b, fl, ta) \cup {x}
  BY <1>17, <1>18, <1>19
<1>21. \E n, p \in Nat : x.at = <<b, n, p>>
  <2>1. last - m + 1 \in Nat
    BY <1>2, <1>14
  <2> QED
    BY <1>2, <1>15, <2>1
<1> QED
  BY <1>9, <1>15, <1>17, <1>20, <1>21 DEF MetLast

\* Without a page more in the blocks it goes through, a scan meets the same.
LEMMA RetrievedSame ==
  ASSUME NEW b \in Banks, NEW fl \in [Blks -> Block], NEW r \in RingType, NEW ac \in Ppn,
         BankOk(fl, r, ac), NEW ta \in Ppn, NEW m, ChainAt(fl, r, ta, m),
         NEW fm \in [Blks -> Block], NEW s \in RingType, NEW ad \in Ppn,
         BankOk(fm, s, ad), NEW q, ChainAt(fm, s, ta, q),
         \/ Used(s) - q = Used(r) - m
         \/ Used(s) - q = Used(r) - m + 1 /\ ad.page = 0,
         \A i \in 0..(Used(r) - m - 1) :
           /\ Nth(s, q + i) = Nth(r, m + i)
           /\ fm[Nth(r, m + i)].pages = fl[Nth(r, m + i)].pages
  PROVE  Retrieved(b, fm, ta) = Retrieved(b, fl, ta)
<1>1. /\ Used(r) \in 1..NumBlks /\ Used(s) \in 1..NumBlks
      /\ \A k \in Idx : Nth(r, k) \in Blks /\ Nth(s, k) \in Blks
  BY BankFacts
<1>2. NumBlks \in Nat /\ m \in 0..(Used(r) - 1) /\ q \in 0..(Used(s) - 1)
  BY NumBlksAssumption DEF ChainAt
<1>3. ASSUME NEW i \in 0..(Used(r) - m - 1), NEW p
      PROVE  Met(b, fm, s, q, q + i, p) = Met(b, fl, r, m, m + i, p)
  <2>1. (q + i) - q + 1 = (m + i) - m + 1
    BY <1>2
  <2>2. Nth(s, q + i) = Nth(r, m + i) /\ fm[Nth(r, m + i)].pages = fl[Nth(r, m + i)].pages
    OBVIOUS
  <2> QED
    BY <2>1, <2>2 DEF Met
<1>4. ASSUME NEW x \in Retrieved(b, fl, ta)
      PROVE  x \in Retrieved(b, fm, ta)
  <2>1. PICK j \in m..(Used(r) - 1), p \in Nat : /\ j = m => ta.page <= p
                                               /\ p < Len(fl[Nth(r, j)].pages)
                                               /\ x = Met(b, fl, r, m, j, p)
    BY RetrievedMet
  <2>2. PICK i : i = j - m
    OBVIOUS
  <2>3. /\ i \in 0..(Used(r) - m - 1) /\ m + i = j /\ q + i \in q..(Used(s) - 1)
        /\ (q + i = q => j = m)
    BY <1>1, <1>2, <2>2
  <2>4. /\ x = Met(b, fm, s, q, q + i, p) /\ p < Len(fm[Nth(s, q + i)].pages)
        /\ (q + i = q => ta.page <= p)
    BY <1>3, <2>1, <2>3
  <2> QED
    BY <2>3, <2>4, RetrievedIs
<1>5. ASSUME NEW x \in Retrieved(b, fm, ta)
      PROVE  x \in Retrieved(b, fl, ta)
  <2>1. PICK j \in q..(Used(s) - 1), p \in Nat : /\ j = q => ta.page <= p
                                               /\ p < Len(fm[Nth(s, j)].pages)
                                               /\ x = Met(b, fm, s, q, j, p)
    BY RetrievedMet
  <2>2. PICK i : i = j - q
    OBVIOUS
  <2>3. i \in Nat /\ q + i = j /\ i < Used(s) - q
    BY <1>1, <1>2, <2>2
  <2>4. i < Used(r) - m
    <3> SUFFICES ASSUME ~(i < Used(r) - m)
                 PROVE  FALSE
      OBVIOUS
    <3>1. ad.page = 0 /\ j = Used(s) - 1
      BY <1>1, <1>2, <2>3
    <3>2. Len(fm[Nth(s, j)].pages) = 0
      BY <3>1 DEF BankOk
    <3> QED
      BY <2>1, <3>2
  <2>5. i \in 0..(Used(r) - m - 1) /\ m + i \in m..(Used(r) - 1) /\ (m + i = m => j = q)
    BY <1>1, <1>2, <2>3, <2>4
  <2>6. /\ x = Met(b, fl, r, m, m + i, p) /\ p < Len(fl[Nth(r, m + i)].pages)
        /\ (m + i = m => ta.page <= p)
    BY <1>3, <2>1, <2>3, <2>5
  <2> QED
    BY <2>5, <2>6, RetrievedIs
<1> QED
  BY <1>4, <1>5

-----------------------------------------------------------------------------
(* What the block manager's operations do to the chain of one bank.        *)

LEMMA ChainMoves ==
  ASSUME NEW b \in Banks, NEW fl \in [Blks -> Block], NEW r \in RingType, NEW ac \in Ppn,
         BankOk(fl, r, ac), NEW ta \in Ppn, NEW m, ChainAt(fl, r, ta, m),
         NEW fm \in [Blks -> Block], NEW s \in RingType, NEW ad \in Ppn,
         BankOk(fm, s, ad), NEW q \in Nat, At(s, q) = s.rsv,
         \/ Used(s) - q = Used(r) - m
         \/ /\ Used(s) - q = Used(r) - m + 1 /\ ad.page = 0
            /\ fm[Nth(s, Used(s) - 2)].next = Nth(s, Used(s) - 1),
         \A i \in 0..(Used(r) - m - 1) :
           /\ Nth(s, q + i) = Nth(r, m + i)
           /\ fm[Nth(r, m + i)].pages = fl[Nth(r, m + i)].pages
           /\ i < Used(r) - m - 1 => fm[Nth(r, m + i)].next = fl[Nth(r, m + i)].next
  PROVE  ChainAt(fm, s, ta, q) /\ Retrieved(b, fm, ta) = Retrieved(b, fl, ta)
<1>1. Used(r) \in 1..NumBlks /\ Used(s) \in 1..NumBlks
  BY BankFacts
<1>2. NumBlks \in Nat /\ m \in 0..(Used(r) - 1) /\ q \in 0..(Used(s) - 1)
  BY <1>1, NumBlksAssumption DEF ChainAt
<1>3. 0 \in 0..(Used(r) - m - 1) /\ q + 0 = q /\ m + 0 = m
  BY <1>1, <1>2
<1>4. Nth(s, q) = ta.blk /\ ta.page <= Len(fm[ta.blk].pages)
  <2>1. Nth(s, q + 0) = Nth(r, m + 0) /\ fm[Nth(r, m + 0)].pages = fl[Nth(r, m + 0)].pages
    BY <1>3
  <2> QED
    BY <1>3, <2>1 DEF ChainAt
<1>5. ASSUME NEW k \in q..(Used(s) - 2)
      PROVE  fm[Nth(s, k)].next = Nth(s, k + 1)
  <2>1. PICK i : i = k - q
    OBVIOUS
  <2>2. k = q + i /\ i \in Nat /\ k + 1 = q + (i + 1)
    BY <1>2, <2>1
  <2>3. CASE i < Used(r) - m - 1
    <3>1. /\ i \in 0..(Used(r) - m - 1) /\ i + 1 \in 0..(Used(r) - m - 1)
          /\ m + i \in m..(Used(r) - 2) /\ m + (i + 1) = (m + i) + 1
      BY <1>1, <1>2, <2>2, <2>3
    <3>2. fl[Nth(r, m + i)].next = Nth(r, (m + i) + 1)
      BY <3>1 DEF ChainAt
    <3>3. Nth(s, q + i) = Nth(r, m + i) /\ Nth(s, q + (i + 1)) = Nth(r, m + (i + 1))
          /\ fm[Nth(r, m + i)].next = fl[Nth(r, m + i)].next
      BY <2>3, <3>1
    <3> QED
      BY <2>2, <3>1, <3>2, <3>3
  <2>4. CASE ~(i < Used(r) - m - 1)
    <3>1. k = Used(s) - 2 /\ k + 1 = Used(s) - 1 /\ Used(s) - q # Used(r) - m
      BY <1>1, <1>2, <2>2, <2>4
    <3> QED
      BY <3>1
  <2> QED
    BY <2>3, <2>4
<1>6. ChainAt(fm, s, ta, q)
  BY <1>2, <1>4, <1>5 DEF ChainAt
<1>7. \/ Used(s) - q = Used(r) - m
      \/ Used(s) - q = Used(r) - m + 1 /\ ad.page = 0
  OBVIOUS
<1>8. \A i \in 0..(Used(r) - m - 1) :
         /\ Nth(s, q + i) = Nth(r, m + i)
         /\ fm[Nth(r, m + i)].pages = fl[Nth(r, m + i)].pages
  OBVIOUS
<1> QED
  BY <1>6, <1>7, <1>8, RetrievedSame

\* The ring is as it was, or only its mark for the pending erase is not; the
\* block erased is in no chain.
LEMMA ChainErase ==
  ASSUME NEW b \in Banks, NEW fl \in [Blks -> Block], NEW r \in RingType, NEW ac \in Ppn,
         BankOk(fl, r, ac), NEW ta \in Ppn, NEW m, ChainAt(fl, r, ta, m),
         NEW fm \in [Blks -> Block], BankOk(fm, VtErased(r), ac),
         \A k \in Blks : k # r.vt => fm[k] = fl[k]
  PROVE  /\ ChainAt(fm, VtErased(r), ta, m)
         /\ Retrieved(b, fm, ta) = Retrieved(b, fl, ta)
<1>1. PICK s : s = VtErased(r)
  OBVIOUS
<1>2. /\ RingOk(r) /\ Used(s) = Used(r) /\ \A k : Nth(s, k) = Nth(r, k)
      /\ s \in RingType
  BY <1>1, SameRingOk, VtErasedType DEF BankOk
<1>3. \A k : At(s, k) = At(r, k) /\ s.rsv = r.rsv
  BY <1>1 DEF VtErased, At, RingType
<1>4. /\ Used(r) \in 1..NumBlks /\ Used(r) - 1 \in Idx
      /\ \A k \in Idx : Nth(r, k) \in Blks
  BY BankFacts
<1>5. NumBlks \in Nat /\ m \in 0..(Used(r) - 1)
  BY NumBlksAssumption DEF ChainAt
<1>6. ASSUME NEW i \in 0..(Used(r) - m - 1)
      PROVE  Nth(s, m + i) = Nth(r, m + i) /\ fm[Nth(r, m + i)] = fl[Nth(r, m + i)]
  <2>1. PICK j : j = m + i
    OBVIOUS
  <2>2. j \in Idx /\ j \in 0..(Used(r) - 1)
    BY <1>4, <1>5, <2>1 DEF Idx
  <2>3. Nth(r, j) # r.vt
    <3>1. CASE r.vt = NoBlk
      BY <1>4, <2>2, <3>1 DEF Blks, NoBlk
    <3>2. CASE r.vt # NoBlk
      <4>1. NumBlks - 1 \in Idx /\ NumBlks - 1 # j /\ Nth(r, NumBlks - 1) = r.vt
        BY <3>2, <1>2, <1>4, <2>2, NumBlksAssumption DEF RingOk, Used, Idx
      <4>2. Nth(r, j) # Nth(r, NumBlks - 1)
        BY <1>2, <2>2, <4>1 DEF RingOk
      <4> QED
        BY <4>1, <4>2
    <3> QED
      BY <3>1, <3>2
  <2> QED
    BY <1>2, <1>4, <2>1, <2>2, <2>3
<1>7. m \in Nat /\ At(s, m) = s.rsv /\ Used(s) - m = Used(r) - m /\ BankOk(fm, s, ac)
  BY <1>1, <1>2, <1>3, <1>5 DEF ChainAt
<1>8. ChainAt(fm, s, ta, m) /\ Retrieved(b, fm, ta) = Retrieved(b, fl, ta)
  <2>1. \A i \in 0..(Used(r) - m - 1) :
           /\ Nth(s, m + i) = Nth(r, m + i)
           /\ fm[Nth(r, m + i)].pages = fl[Nth(r, m + i)].pages
           /\ i < Used(r) - m - 1 => fm[Nth(r, m + i)].next = fl[Nth(r, m + i)].next
    BY <1>6
  <2> QED
    BY <1>2, <1>7, <2>1, ChainMoves
<1> QED
  BY <1>1, <1>8

\* Pages stay, and so do links but for that of one block.
OnlyLinks(fl, fm, blk) ==
  \A k \in Blks : /\ fm[k].pages = fl[k].pages
                  /\ k # blk => fm[k].next = fl[k].next

\* The active block is closed: the chain gets the next block, still empty.
LEMMA ChainClose ==
  ASSUME NEW b \in Banks, NEW fl \in [Blks -> Block], NEW r \in RingType, NEW ac \in Ppn,
         BankOk(fl, r, ac), NEW ta \in Ppn, NEW m, ChainAt(fl, r, ta, m),
         r.free > 0, r.vt # NoBlk => r.free > 1,
         NEW fm \in [Blks -> Block], NEW ad \in Ppn, ad.page = 0,
         BankOk(fm, TakeBlk(r), ad), fm[ac.blk].next = HeadBlk(r),
         OnlyLinks(fl, fm, ac.blk)
  PROVE  /\ ChainAt(fm, TakeBlk(r), ta, m)
         /\ Retrieved(b, fm, ta) = Retrieved(b, fl, ta)
<1>1. PICK s : s = TakeBlk(r)
  OBVIOUS
<1>2. /\ RingOk(r) /\ Used(s) = Used(r) + 1 /\ \A k : Nth(s, k) = Nth(r, k)
      /\ HeadBlk(r) = Nth(r, Used(r)) /\ s \in RingType
  BY <1>1, TakeOk, TakeBlkType DEF BankOk
<1>3. \A k : At(s, k) = At(r, k) /\ s.rsv = r.rsv
  BY <1>1 DEF TakeBlk, At, RingType
<1>4. /\ Used(r) \in 1..NumBlks /\ Used(r) - 1 \in Idx /\ ac.blk \in Blks
      /\ \A k \in Idx : Nth(r, k) \in Blks /\ (k # Used(r) - 1 => Nth(r, k) # ac.blk)
  BY BankFacts
<1>5. NumBlks \in Nat /\ m \in 0..(Used(r) - 1)
  BY NumBlksAssumption DEF ChainAt
<1>6. ASSUME NEW i \in 0..(Used(r) - m - 1)
      PROVE  /\ Nth(s, m + i) = Nth(r, m + i)
             /\ fm[Nth(r, m + i)].pages = fl[Nth(r, m + i)].pages
             /\ i < Used(r) - m - 1 => fm[Nth(r, m + i)].next = fl[Nth(r, m + i)].next
  <2>1. PICK j : j = m + i
    OBVIOUS
  <2>2. j \in Idx /\ (i < Used(r) - m - 1 => j # Used(r) - 1)
    BY <1>4, <1>5, <2>1 DEF Idx
  <2> QED
    BY <1>2, <1>4, <2>1, <2>2 DEF OnlyLinks
<1>7. /\ m \in Nat /\ At(s, m) = s.rsv /\ Used(s) - m = Used(r) - m + 1
      /\ BankOk(fm, s, ad)
  BY <1>1, <1>2, <1>3, <1>4, <1>5 DEF ChainAt
<1>8. fm[Nth(s, Used(s) - 2)].next = Nth(s, Used(s) - 1)
  <2>1. Used(s) - 2 = Used(r) - 1 /\ Used(s) - 1 = Used(r)
    BY <1>2, <1>4, <1>5
  <2> QED
    BY <1>2, <2>1 DEF BankOk
<1>9. ChainAt(fm, s, ta, m) /\ Retrieved(b, fm, ta) = Retrieved(b, fl, ta)
  <2>1. \/ Used(s) - m = Used(r) - m
        \/ /\ Used(s) - m = Used(r) - m + 1 /\ ad.page = 0
           /\ fm[Nth(s, Used(s) - 2)].next = Nth(s, Used(s) - 1)
    BY <1>7, <1>8
  <2>2. s \in RingType
    BY <1>2
  <2>3. \A i \in 0..(Used(r) - m - 1) :
           /\ Nth(s, m + i) = Nth(r, m + i)
           /\ fm[Nth(r, m + i)].pages = fl[Nth(r, m + i)].pages
           /\ i < Used(r) - m - 1 => fm[Nth(r, m + i)].next = fl[Nth(r, m + i)].next
    BY <1>6
  <2> QED
    BY <1>7, <2>1, <2>2, <2>3, ChainMoves
<1> QED
  BY <1>1, <1>9

\* The scan for a victim ends before the reserve mark.
LEMMA ScanEnds ==
  ASSUME NEW r \in RingType, NEW m \in 1..(NumBlks - 1), At(r, m) = r.rsv
  PROVE  ScanLast(r) = m - 1
<1>1. PICK n, t : n = NumBlks /\ t = r.tail
  OBVIOUS
<1>2. n \in Nat \ {0} /\ t \in 0..(n - 1) /\ m \in 1..(n - 1) /\ NumBlks \in Nat
  BY <1>1, NumBlksAssumption DEF RingType, Idx
<1>3. r.rsv = IF t + m < n THEN t + m ELSE t + m - n
  BY <1>1, <1>2, Round DEF At
<1>4. PICK y : y = r.rsv - t + n - 1
  OBVIOUS
<1>5. y = IF t + m < n THEN m + n - 1 ELSE m - 1
  BY <1>2, <1>3, <1>4
<1>6. y \in 0..(2 * n - 1)
  BY <1>2, <1>5
<1>7. y % n = IF y < n THEN y ELSE y - n
  BY <1>2, <1>6, Wrap
<1>8. y % n = m - 1
  BY <1>2, <1>5, <1>7
<1> QED
  BY <1>1, <1>4, <1>8 DEF ScanLast

\* The victim comes from before the reserve mark: the chain stays.
LEMMA ChainSwap ==
  ASSUME NEW b \in Banks, NEW fl \in [Blks -> Block], NEW r \in RingType, NEW ac \in Ppn,
         BankOk(fl, r, ac), NEW ta \in Ppn, NEW m, ChainAt(fl, r, ta, m),
         r.vt = NoBlk, NEW k \in 0..ScanLast(r), r.rsv # r.tail,
         NEW s \in RingType, s = SwapVictim(r, At(r, k)), BankOk(fl, s, ac)
  PROVE  ChainAt(fl, s, ta, m) /\ m > 0
<1>1. /\ Used(r) \in 1..NumBlks /\ Used(r) - 1 \in Idx
      /\ \A i \in Idx : Nth(r, i) \in Blks
  BY BankFacts
<1>2. NumBlks \in Nat /\ m \in 0..(Used(r) - 1) /\ At(r, m) = r.rsv
  BY NumBlksAssumption DEF ChainAt
<1>3. m # 0
  <2>1. At(r, 0) = r.tail
    BY AtSteps
  <2> QED
    BY <1>2, <2>1
<1>4. m \in 1..(NumBlks - 1)
  BY <1>1, <1>2, <1>3
<1>5. k \in 0..(m - 1) /\ k \in Idx
  BY <1>2, <1>4, ScanEnds DEF Idx
<1>6. /\ Used(s) = Used(r) /\ \A i \in Idx \ {0, k} : Nth(s, i) = Nth(r, i)
  BY <1>5, SwapOk DEF BankOk
<1>7. \A i : At(s, i) = At(r, i) /\ s.rsv = r.rsv
  BY DEF SwapVictim, At, RingType
<1>8. ASSUME NEW i \in m..(Used(r) - 1)
      PROVE  Nth(s, i) = Nth(r, i)
  <2>1. i \in Idx \ {0, k}
    BY <1>1, <1>2, <1>4, <1>5 DEF Idx
  <2> QED
    BY <1>6, <2>1
<1>9. Nth(s, m) = Nth(r, m)
  BY <1>2, <1>8
<1>10. \A i \in m..(Used(r) - 2) : Nth(s, i) = Nth(r, i) /\ Nth(s, i + 1) = Nth(r, i + 1)
  BY <1>1, <1>2, <1>8
<1>11. ChainAt(fl, s, ta, m)
  BY <1>6, <1>7, <1>9, <1>10 DEF ChainAt
<1> QED
  BY <1>2, <1>3, <1>11

\* The tail passes the victim, which is not in the chain.
LEMMA ChainFree ==
  ASSUME NEW b \in Banks, NEW fl \in [Blks -> Block], NEW r \in RingType, NEW ac \in Ppn,
         BankOk(fl, r, ac), NEW ta \in Ppn, NEW m, ChainAt(fl, r, ta, m), m > 0,
         r.vt = NoBlk, NEW s \in RingType, s = FreeVictim(r, Nth(r, 0)), BankOk(fl, s, ac)
  PROVE  ChainAt(fl, s, ta, m - 1)
<1>1. /\ Used(r) \in 1..NumBlks /\ Used(s) \in 1..NumBlks
      /\ \A i \in Idx : Nth(r, i) \in Blks
  BY BankFacts
<1>2. NumBlks \in Nat /\ m \in 0..(Used(r) - 1) /\ At(r, m) = r.rsv
  BY NumBlksAssumption DEF ChainAt
<1>3. /\ Used(s) = Used(r) - 1
      /\ \A k \in 0..(NumBlks - 2) : Nth(s, k) = Nth(r, k + 1)
  BY FreeOk DEF BankOk
<1>4. At(s, m - 1) = s.rsv
  <2>1. PICK n, t : n = NumBlks /\ t = r.tail
    OBVIOUS
  <2>2. s.rsv = r.rsv /\ s.tail = (t + 1) % n
    BY <2>1 DEF FreeVictim, RingType
  <2>3. n \in Nat \ {0} /\ t \in 0..(n - 1) /\ m - 1 \in 0..(n - 1) /\ (m - 1) + 1 = m
    BY <1>1, <1>2, <2>1, NumBlksAssumption DEF RingType, Idx
  <2>4. (((t + 1) % n) + (m - 1)) % n = (t + ((m - 1) + 1)) % n
    BY <2>3, Round
  <2> QED
    BY <1>2, <2>1, <2>2, <2>3, <2>4 DEF At
<1>5. ASSUME NEW i \in m..(Used(r) - 1)
      PROVE  Nth(s, i - 1) = Nth(r, i)
  <2>1. i - 1 \in 0..(NumBlks - 2) /\ (i - 1) + 1 = i
    BY <1>1, <1>2
  <2>2. Nth(s, i - 1) = Nth(r, (i - 1) + 1)
    BY <1>3, <2>1
  <2> QED
    BY <2>1, <2>2
<1>6. ASSUME NEW k \in (m - 1)..(Used(s) - 2)
      PROVE  fl[Nth(s, k)].next = Nth(s, k + 1)
  <2>1. PICK i : i = k + 1
    OBVIOUS
  <2>2. i \in m..(Used(r) - 2) /\ k = i - 1 /\ k + 1 = (i + 1) - 1
        /\ i \in m..(Used(r) - 1) /\ i + 1 \in m..(Used(r) - 1)
    BY <1>1, <1>2, <1>3, <2>1
  <2>3. Nth(s, k) = Nth(r, i) /\ Nth(s, k + 1) = Nth(r, i + 1)
    BY <1>5, <2>2
  <2> QED
    BY <2>2, <2>3 DEF ChainAt
<1>7. m - 1 \in 0..(Used(s) - 1) /\ Nth(s, m - 1) = Nth(r, m)
  BY <1>1, <1>2, <1>3, <1>5
<1> QED
  BY <1>4, <1>6, <1>7 DEF ChainAt

\* A tag: the chain is the active block, and there is nothing in it yet.
LEMMA ChainRsv ==
  ASSUME NEW b \in Banks, NEW fl \in [Blks -> Block], NEW r \in RingType, NEW ac \in Ppn,
         BankOk(fl, r, ac)
  PROVE  /\ ChainAt(fl, PushRsv(r), ac, Used(r) - 1)
         /\ Retrieved(b, fl, ac) = {}
<1>1. PICK s : s = PushRsv(r)
  OBVIOUS
<1>2. s \in RingType /\ BankOk(fl, s, ac) /\ Used(s) = Used(r) /\ RingOk(r)
      /\ \A k : Nth(s, k) = Nth(r, k)
  BY <1>1, PushRsvType, BankRsv, SameRingOk DEF BankOk
<1>3. /\ Used(r) \in 1..NumBlks /\ Used(r) - 1 \in Idx
      /\ \A i \in Idx : Nth(r, i) \in Blks
  BY BankFacts
<1>4. At(s, Used(r) - 1) = s.rsv
  <2>1. PICK n, t, u : n = NumBlks /\ t = r.tail /\ u = Used(r)
    OBVIOUS
  <2>2. n \in Nat \ {0} /\ t \in 0..(n - 1) /\ u \in 1..n /\ n > 1
    BY <1>3, <2>1, NumBlksAssumption DEF RingType, Idx
  <2>3. s.tail = t /\ s.rsv = (r.head + n - 1) % n /\ r.head = (t + u) % n
    BY <1>1, <1>2, <2>1 DEF PushRsv, RingType, RingOk, At
  <2>4. r.head = IF t + u < n THEN t + u ELSE t + u - n
    BY <2>2, <2>3, Round
  <2>5. (t + (u - 1)) % n = IF t + (u - 1) < n THEN t + (u - 1) ELSE t + (u - 1) - n
    <3>1. u - 1 \in 0..n
      BY <2>2
    <3> QED
      BY <2>2, <3>1, Round
  <2>6. PICK y : y = r.head + n - 1
    OBVIOUS
  <2>7. y \in 0..(2 * n - 1)
    BY <2>2, <2>4, <2>6
  <2>8. y % n = IF y < n THEN y ELSE y - n
    BY <2>2, <2>7, Wrap
  <2>9. y % n = (t + (u - 1)) % n
    BY <2>2, <2>4, <2>5, <2>6, <2>8
  <2> QED
    BY <2>1, <2>3, <2>6, <2>9 DEF At
<1>5. ChainAt(fl, s, ac, Used(r) - 1)
  <2>1. /\ Used(r) - 1 \in 0..(Used(s) - 1)
        /\ (Used(r) - 1)..(Used(s) - 2) = {}
    BY <1>2, <1>3
  <2>2. Nth(s, Used(r) - 1) = ac.blk /\ Len(fl[ac.blk].pages) = ac.page /\ ac.page \in Nat
    BY <1>2, RecoveryAssumption DEF BankOk, Ppn, Pages
  <2> QED
    BY <1>4, <2>1, <2>2 DEF ChainAt
<1>6. PICK u : u = Used(r) - 1
  OBVIOUS
<1>7. ChainAt(fl, s, ac, u) /\ u = Used(s) - 1
  BY <1>2, <1>3, <1>5, <1>6
<1>8. ASSUME NEW x \in Retrieved(b, fl, ac)
      PROVE  FALSE
  <2>1. PICK j \in u..(Used(s) - 1), p \in Nat :
           /\ j = u => ac.page <= p
           /\ p < Len(fl[Nth(s, j)].pages)
           /\ x = Met(b, fl, s, u, j, p)
    BY <1>2, <1>7, RetrievedMet
  <2>2. j = u
    BY <1>3, <1>6, <1>7, <2>1
  <2>3. Len(fl[Nth(s, j)].pages) = ac.page /\ ac.page \in Nat
    BY <1>2, <1>7, <2>2, RecoveryAssumption DEF BankOk, Ppn, Pages
  <2> QED
    BY <2>1, <2>2, <2>3
<1> QED
  BY <1>1, <1>5, <1>8

-----------------------------------------------------------------------------
(* The log.                                                                *)

\* LastTag and ReachLast, of a log with a tag.
LEMMA LogTags ==
  ASSUME NEW lg \in Seq(LogPage), TagsOf(lg) # {}
  PROVE  /\ TagsOf(lg) \subseteq 1..Len(lg)
         /\ \E t \in TagsOf(lg) : /\ \A i \in TagsOf(lg) : i <= t
                                  /\ LastTag(lg) = lg[t]
         /\ LastTag(lg) \in [type: {"tag"}, epoch: Epochs, active: [Banks -> Ppn]]
         /\ ReachLast(lg) \in TagsOf(lg)
         /\ lg[ReachLast(lg)].epoch = LastTag(lg).epoch
         /\ \A i \in TagsOf(lg) : lg[i].epoch = LastTag(lg).epoch => ReachLast(lg) <= i
<1>1. TagsOf(lg) \subseteq 1..Len(lg) /\ Len(lg) \in Nat
  BY DEF TagsOf
<1>2. PICK t \in TagsOf(lg) : \A i \in TagsOf(lg) : i <= t
  <2>1. TagsOf(lg) \in SUBSET (0..Len(lg))
    BY <1>1
  <2> QED
    BY <1>1, <2>1, Greatest
<1>3. LastTag(lg) = lg[t]
  <2>1. \A i \in TagsOf(lg) : i \in Int
    BY <1>1
  <2>2. Max(TagsOf(lg)) = t
    BY <1>2, <2>1, MaxIs
  <2> QED
    BY <2>2 DEF LastTag
<1>4. lg[t] \in LogPage /\ lg[t].type = "tag"
  BY <1>1 DEF TagsOf
<1>5. LastTag(lg) \in [type: {"tag"}, epoch: Epochs, active: [Banks -> Ppn]]
  BY <1>3, <1>4 DEF LogPage
<1> DEFINE S == {i \in TagsOf(lg) : lg[i].epoch = LastTag(lg).epoch}
<1>6. S \in SUBSET Nat /\ S # {}
  BY <1>1, <1>3
<1>7. PICK f \in S : \A j \in S : f <= j
  <2> HIDE DEF S
  <2> QED
    BY <1>6, Least
<1>8. ReachLast(lg) = f
  <2>1. \A i \in S : i \in Int
    BY <1>1
  <2>2. Min(S) = f
    <3> HIDE DEF S
    <3> QED
      BY <1>7, <2>1, MinIs
  <2> QED
    BY <2>2 DEF ReachLast
<1> QED
  BY <1>1, <1>2, <1>3, <1>5, <1>7, <1>8

\* A page that is no tag.
LEMMA LogOther ==
  ASSUME NEW lg \in Seq(LogPage), NEW pg \in LogPage, pg.type # "tag",
         TagsOf(lg) # {}, NEW lh, lh = Append(lg, pg)
  PROVE  /\ lh \in Seq(LogPage) /\ TagsOf(lh) = TagsOf(lg) /\ LastTag(lh) = LastTag(lg)
         /\ ReachLast(lh) = ReachLast(lg)
<1>1. /\ lh \in Seq(LogPage) /\ Len(lh) = Len(lg) + 1 /\ lh[Len(lg) + 1] = pg
      /\ \A i \in 1..Len(lg) : lh[i] = lg[i]
      /\ Len(lg) \in Nat
  BY AppendProperties
<1>2. DOMAIN lh = 1..(Len(lg) + 1) /\ DOMAIN lg = 1..Len(lg)
  BY <1>1
<1>3. TagsOf(lh) = TagsOf(lg)
  <2>1. \A i \in 1..(Len(lg) + 1) : i \in 1..Len(lg) \/ i = Len(lg) + 1
    BY <1>1
  <2> QED
    BY <1>1, <1>2, <2>1 DEF TagsOf
<1>4. \A i \in TagsOf(lg) : lh[i] = lg[i] /\ i \in Int
  BY <1>1, <1>2 DEF TagsOf
<1>5. LastTag(lh) = LastTag(lg)
  <2>1. PICK t \in TagsOf(lg) : /\ \A i \in TagsOf(lg) : i <= t
                                /\ LastTag(lg) = lg[t]
    BY LogTags
  <2>2. Max(TagsOf(lh)) = t
    BY <1>3, <1>4, <2>1, MaxIs
  <2> QED
    BY <1>4, <2>1, <2>2 DEF LastTag
<1>6. {i \in TagsOf(lh) : lh[i].epoch = LastTag(lh).epoch}
        = {i \in TagsOf(lg) : lg[i].epoch = LastTag(lg).epoch}
  BY <1>3, <1>4, <1>5
<1> QED
  BY <1>1, <1>3, <1>5, <1>6 DEF ReachLast

\* The log lh is lg with the tag pg.
TagAppended(lg, pg, lh) ==
  /\ lh \in Seq(LogPage) /\ TagsOf(lh) = TagsOf(lg) \cup {Len(lg) + 1}
  /\ LastTag(lh) = pg
  /\ ReachLast(lh) \in 1..(Len(lg) + 1)
  /\ \A i \in TagsOf(lg) : lh[i] = lg[i]
  /\ (\A i \in TagsOf(lg) : lg[i].epoch # pg.epoch) => ReachLast(lh) = Len(lg) + 1
  /\ TagsOf(lg) # {} /\ LastTag(lg).epoch = pg.epoch => ReachLast(lh) = ReachLast(lg)

\* A tag: recovery starts from it; the replay of the map entries stops at the
\* first tag with its epoch.
LEMMA LogTag ==
  ASSUME NEW lg \in Seq(LogPage), NEW pg \in LogPage, pg.type = "tag",
         NEW lh, lh = Append(lg, pg)
  PROVE  TagAppended(lg, pg, lh)
<1>1. /\ lh \in Seq(LogPage) /\ Len(lh) = Len(lg) + 1 /\ lh[Len(lg) + 1] = pg
      /\ \A i \in 1..Len(lg) : lh[i] = lg[i]
      /\ Len(lg) \in Nat
  BY AppendProperties
<1>2. DOMAIN lh = 1..(Len(lg) + 1) /\ DOMAIN lg = 1..Len(lg)
  BY <1>1
<1>3. TagsOf(lh) = TagsOf(lg) \cup {Len(lg) + 1}
  <2>1. \A i \in 1..(Len(lg) + 1) : i \in 1..Len(lg) \/ i = Len(lg) + 1
    BY <1>1
  <2> QED
    BY <1>1, <1>2, <2>1 DEF TagsOf
<1>4. \A i \in TagsOf(lg) : lh[i] = lg[i] /\ i \in 1..Len(lg)
  BY <1>1, <1>2 DEF TagsOf
<1>5. LastTag(lh) = pg
  <2>1. \A i \in TagsOf(lh) : i \in Int /\ i <= Len(lg) + 1
    BY <1>1, <1>3, <1>4
  <2>2. Max(TagsOf(lh)) = Len(lg) + 1
    BY <1>3, <2>1, MaxIs
  <2> QED
    BY <1>1, <2>2 DEF LastTag
<1>6. /\ ReachLast(lh) \in TagsOf(lh) /\ lh[ReachLast(lh)].epoch = pg.epoch
      /\ \A i \in TagsOf(lh) : lh[i].epoch = pg.epoch => ReachLast(lh) <= i
  BY <1>1, <1>3, <1>5, LogTags
<1>7. ASSUME TagsOf(lg) # {}, LastTag(lg).epoch = pg.epoch
      PROVE  ReachLast(lh) = ReachLast(lg)
  <2>1. /\ ReachLast(lg) \in TagsOf(lg) /\ lg[ReachLast(lg)].epoch = pg.epoch
        /\ \A i \in TagsOf(lg) : lg[i].epoch = pg.epoch => ReachLast(lg) <= i
    BY <1>7, LogTags
  <2>2. ReachLast(lh) <= ReachLast(lg)
    BY <1>3, <1>4, <1>6, <2>1
  <2>3. ReachLast(lh) \in TagsOf(lg)
    BY <1>1, <1>3, <1>4, <1>6, <2>1, <2>2
  <2>4. ReachLast(lg) <= ReachLast(lh)
    BY <1>4, <1>6, <2>1, <2>3
  <2> QED
    BY <1>4, <2>1, <2>2, <2>3, <2>4
<1>8. ReachLast(lh) \in 1..(Len(lg) + 1)
  BY <1>1, <1>3, <1>4, <1>6
<1>9. ASSUME \A i \in TagsOf(lg) : lg[i].epoch # pg.epoch
      PROVE  ReachLast(lh) = Len(lg) + 1
  BY <1>3, <1>4, <1>6, <1>9
<1> QED
  BY <1>1, <1>3, <1>4, <1>5, <1>7, <1>8, <1>9 DEF TagAppended

\* Epochs wrap round.
LEMMA EpochSteps ==
  /\ \A e \in Epochs : /\ EpochSucc(e) \in Epochs /\ EpochPred(e) \in Epochs
                       /\ EpochSucc(EpochPred(e)) = e /\ EpochPred(EpochSucc(e)) = e
                       /\ EpochSucc(e) = IF e = EpochPred(0) THEN 0 ELSE e + 1
                       /\ e # 0 => EpochPred(e) = e - 1
  /\ 0 \in Epochs /\ EpochPred(0) = EpochMod - 1
<1>1. EpochMod \in Nat /\ EpochMod > 3
  BY RecoveryAssumption
<1>2. PICK n : n = EpochMod
  OBVIOUS
<1>3. ASSUME NEW e \in 0..(n - 1)
      PROVE  /\ (e + 1) % n = IF e = n - 1 THEN 0 ELSE e + 1
  <2>1. e + 1 \in 0..(2 * n - 1)
    BY <1>1, <1>2
  <2>2. (e + 1) % n = IF e + 1 < n THEN e + 1 ELSE e + 1 - n
    BY <1>1, <1>2, <2>1, Wrap
  <2> QED
    BY <1>1, <1>2, <2>2
<1>4. EpochPred(0) = n - 1
  BY <1>2 DEF EpochPred
<1>5. ASSUME NEW e \in Epochs
      PROVE  /\ EpochSucc(e) \in Epochs /\ EpochPred(e) \in Epochs
             /\ EpochSucc(e) = IF e = n - 1 THEN 0 ELSE e + 1
             /\ EpochPred(e) = IF e = 0 THEN n - 1 ELSE e - 1
  <2>1. EpochSucc(e) = IF e = n - 1 THEN 0 ELSE e + 1
    BY <1>2, <1>3 DEF EpochSucc, Epochs
  <2>2. EpochPred(e) = IF e = 0 THEN n - 1 ELSE e - 1
    BY <1>2 DEF EpochPred
  <2> QED
    BY <1>1, <1>2, <2>1, <2>2 DEF Epochs
<1>6. \A e \in Epochs : EpochSucc(EpochPred(e)) = e /\ EpochPred(EpochSucc(e)) = e
  BY <1>1, <1>2, <1>5 DEF Epochs
<1> QED
  BY <1>1, <1>2, <1>4, <1>5, <1>6 DEF Epochs

-----------------------------------------------------------------------------
(* What a step does to all that recovery scans.                            *)

\* Every block recovery scans from the active pages ta on is in its chain.
Chains(ta) == \A c \in Banks : ChainOk(flash[c], ring[c], ta[c])

\* The chains are there after the step, and the scan finds the same.
ScanStays(ta) == Chains(ta)' /\ AllRetrieved(flash', ta) = AllRetrieved(flash, ta)

\* What is scanned is what is scanned in each bank.
LEMMA ScanKept ==
  ASSUME NEW fl, NEW fm, NEW ta,
         \A c \in Banks : Retrieved(c, fm[c], ta[c]) = Retrieved(c, fl[c], ta[c])
  PROVE  AllRetrieved(fm, ta) = AllRetrieved(fl, ta)
BY DEF AllRetrieved

\* A page is scanned when it is scanned in some bank.
LEMMA ScanMember ==
  ASSUME NEW fl, NEW ta, NEW x
  PROVE  x \in AllRetrieved(fl, ta) <=> \E c \in Banks : x \in Retrieved(c, fl[c], ta[c])
BY DEF AllRetrieved

\* The invariant of one bank, before a step ...
LEMMA BankOkNow ==
  ASSUME TypeOK, SInv, pc # "recovered", NEW c \in Banks
  PROVE  /\ flash[c] \in [Blks -> Block] /\ ring[c] \in RingType /\ active[c] \in Ppn
         /\ BankOk(flash[c], ring[c], active[c]) /\ HomeOk(c, flash[c])
BY DEF TypeOK, SInv, SpaceInv

\* ... and after it.
LEMMA BankOkNext ==
  ASSUME TypeOK', SInv', pc' # "recovered", NEW c \in Banks
  PROVE  /\ flash'[c] \in [Blks -> Block] /\ ring'[c] \in RingType /\ active'[c] \in Ppn
         /\ BankOk(flash'[c], ring'[c], active'[c]) /\ HomeOk(c, flash'[c])
BY DEF TypeOK, SInv, SpaceInv

\* A step that changes one bank and nothing of what is scanned there.
LEMMA OneBankScan ==
  ASSUME NEW b \in Banks, NEW ta, Chains(ta),
         \A c \in Banks \ {b} : flash'[c] = flash[c] /\ ring'[c] = ring[c],
         ChainOk(flash'[b], ring'[b], ta[b]),
         Retrieved(b, flash'[b], ta[b]) = Retrieved(b, flash[b], ta[b])
  PROVE  ScanStays(ta)
<1>1. Chains(ta)'
  BY DEF Chains
<1>2. \A c \in Banks : Retrieved(c, flash'[c], ta[c]) = Retrieved(c, flash[c], ta[c])
  OBVIOUS
<1> QED
  BY <1>1, <1>2, ScanKept DEF ScanStays

\* The late erase of a victim: the block is no longer in use.
LEMMA EraseScan ==
  ASSUME TypeOK, SInv, TypeOK', SInv', pc # "recovered", pc' # "recovered",
         NEW b \in Banks, EraseVt(b), NEW ta \in [Banks -> Ppn], Chains(ta)
  PROVE  ScanStays(ta)
<1>1. CASE ring[b].vt = NoBlk
  <2>1. UNCHANGED <<flash, ring>>
    BY <1>1 DEF EraseVt
  <2> QED
    BY <2>1 DEF ScanStays, Chains
<1>2. CASE ring[b].vt # NoBlk
  <2>1. PICK fl, r, ac, t, fm : /\ fl = flash[b] /\ r = ring[b] /\ ac = active[b]
                                /\ t = ta[b] /\ fm = flash'[b]
    OBVIOUS
  <2>2. /\ flash' = [flash EXCEPT ![b][r.vt] = Erased]
        /\ ring' = [ring EXCEPT ![b] = VtErased(r)]
        /\ active' = active
    BY <1>2, <2>1 DEF EraseVt
  <2>3. /\ fl \in [Blks -> Block] /\ r \in RingType /\ ac \in Ppn /\ t \in Ppn
        /\ BankOk(fl, r, ac)
    BY <2>1, BankOkNow
  <2>4. /\ fm \in [Blks -> Block] /\ BankOk(fm, VtErased(r), ac)
    BY <2>1, <2>2, BankOkNext DEF TypeOK
  <2>5. \A k \in Blks : k # r.vt => fm[k] = fl[k]
    BY <2>1, <2>2 DEF TypeOK
  <2>6. PICK m \in Nat : ChainAt(fl, r, t, m)
    BY <2>1 DEF Chains, ChainOk
  <2>7. ChainAt(fm, VtErased(r), t, m) /\ Retrieved(b, fm, t) = Retrieved(b, fl, t)
    BY <2>3, <2>4, <2>5, <2>6, ChainErase
  <2>8. ring'[b] = VtErased(r)
    BY <2>2 DEF TypeOK
  <2>9. ChainOk(flash'[b], ring'[b], ta[b])
    BY <2>1, <2>6, <2>7, <2>8 DEF ChainOk
  <2>10. \A c \in Banks \ {b} : flash'[c] = flash[c] /\ ring'[c] = ring[c]
    BY <2>2 DEF TypeOK
  <2> QED
    BY <2>1, <2>7, <2>9, <2>10, OneBankScan
<1> QED
  BY <1>1, <1>2

\* The summary page: the chain grows by a block that is empty.
LEMMA CloseScan ==
  ASSUME TypeOK, SInv, TypeOK', SInv', Closing, RoomLeft',
         NEW ta \in [Banks -> Ppn], Chains(ta)
  PROVE  ScanStays(ta)
<1>1. PICK b \in Banks : CloseBlock(b)
  BY DEF Closing
<1>2. pc # "recovered" /\ pc' # "recovered"
  BY DEF Closing
<1>3. PICK fl, r, ac, t, fm, ad, s : /\ fl = flash[b] /\ r = ring[b] /\ ac = active[b]
                              /\ t = ta[b] /\ fm = flash'[b] /\ ad = active'[b]
                              /\ s = ring'[b]
  OBVIOUS
<1>4. /\ flash' = [flash EXCEPT ![b][ac.blk].next = HeadBlk(r)]
      /\ ring' = [ring EXCEPT ![b] = TakeBlk(r)]
      /\ active' = [active EXCEPT ![b] = [blk |-> HeadBlk(r), page |-> 0]]
  BY <1>1, <1>3 DEF CloseBlock
<1>5. /\ fl \in [Blks -> Block] /\ r \in RingType /\ ac \in Ppn /\ t \in Ppn
      /\ BankOk(fl, r, ac)
  BY <1>2, <1>3, BankOkNow
<1>6. s = TakeBlk(r) /\ ad = [blk |-> HeadBlk(r), page |-> 0]
  BY <1>3, <1>4 DEF TypeOK
<1>7. fm \in [Blks -> Block] /\ ad \in Ppn /\ BankOk(fm, TakeBlk(r), ad)
  BY <1>2, <1>3, <1>6, BankOkNext
<1>8. fm = [fl EXCEPT ![ac.blk].next = HeadBlk(r)]
  BY <1>3, <1>4 DEF TypeOK
<1>9. ac.blk \in Blks
  BY <1>5 DEF Ppn
<1>10. fm[ac.blk].next = HeadBlk(r) /\ OnlyLinks(fl, fm, ac.blk)
  <2>1. \A k \in Blks : fl[k] \in Block
    BY <1>5
  <2> QED
    BY <1>5, <1>8, <1>9, <2>1 DEF OnlyLinks, Block
<1>11. r.free \in Nat /\ r.free > 0 /\ (r.vt # NoBlk => r.free > 1)
  <2>1. s.free = r.free - 1 /\ s.vt = r.vt
    BY <1>5, <1>6 DEF TakeBlk, RingType
  <2>2. s.free >= IF s.vt = NoBlk THEN 0 ELSE 1
    BY <1>2, <1>3 DEF RoomLeft
  <2>3. r.free \in Nat
    BY <1>5, NumBlksAssumption DEF BankOk, RingOk
  <2> QED
    BY <2>1, <2>2, <2>3
<1>12. PICK m \in Nat : ChainAt(fl, r, t, m)
  BY <1>3 DEF Chains, ChainOk
<1>13. ChainAt(fm, TakeBlk(r), t, m) /\ Retrieved(b, fm, t) = Retrieved(b, fl, t)
  <2>1. ad.page = 0
    BY <1>6
  <2> QED
    BY <1>5, <1>7, <1>10, <1>11, <1>12, <2>1, ChainClose
<1>14. ChainOk(flash'[b], ring'[b], ta[b])
  BY <1>3, <1>6, <1>12, <1>13 DEF ChainOk
<1>15. \A c \in Banks \ {b} : flash'[c] = flash[c] /\ ring'[c] = ring[c]
  BY <1>4 DEF TypeOK
<1> QED
  BY <1>3, <1>13, <1>14, <1>15, OneBankScan

\* The victim changes places with the tail, which is not reserved.
LEMMA GcBeginScan ==
  ASSUME TypeOK, SInv, TypeOK', SInv', GcBegin, RoomLeft',
         NEW ta \in [Banks -> Ppn], Chains(ta)
  PROVE  ScanStays(ta)
<1>1. PICK b : b = bank
  OBVIOUS
<1>2. b \in Banks /\ pc = "gc" /\ pc' = "gccopy" /\ bank' = b /\ active' = active
  BY <1>1, RecoveryAssumption DEF GcBegin, TypeOK, Banks, loops
<1>3. pc # "recovered" /\ pc' # "recovered"
  BY <1>2
<1>4. PICK fl, r, ac, t, fm, s, u : /\ fl = flash[b] /\ r = ring[b] /\ ac = active[b]
                              /\ t = ta[b] /\ fm = flash'[b] /\ s = ring'[b]
                              /\ u = VtErased(r)
  OBVIOUS
<1>5. /\ fl \in [Blks -> Block] /\ r \in RingType /\ ac \in Ppn /\ t \in Ppn
      /\ BankOk(fl, r, ac)
  BY <1>2, <1>3, <1>4, BankOkNow
<1>6. fm \in [Blks -> Block] /\ s \in RingType /\ BankOk(fm, s, ac)
  <2>1. active'[b] = ac
    BY <1>2, <1>4
  <2> QED
    BY <1>2, <1>3, <1>4, <2>1, BankOkNext
<1>7. PICK k \in 0..ScanLast(u) : ring' = [ring EXCEPT ![b] = SwapVictim(u, At(u, k))]
  <2>1. PICK i \in Idx : /\ IsVictim(u, vcount[b], i)
                         /\ ring' = [ring EXCEPT ![b] = SwapVictim(u, i)]
    BY <1>1, <1>4 DEF GcBegin
  <2> QED
    BY <2>1 DEF IsVictim
<1>8. s = SwapVictim(u, At(u, k))
  BY <1>2, <1>4, <1>7 DEF TypeOK
<1>9. u \in RingType /\ u.vt = NoBlk /\ u.rsv = r.rsv /\ u.tail = r.tail
  BY <1>4, <1>5, VtErasedType DEF VtErased, RingType
<1>10. u.rsv # u.tail
  <2>1. s.rsv # s.tail
    BY <1>2, <1>4 DEF RoomLeft
  <2> QED
    BY <1>8, <1>9, <2>1 DEF SwapVictim, RingType
<1>11. flash' = IF r.vt = NoBlk THEN flash ELSE [flash EXCEPT ![b][r.vt] = Erased]
  BY <1>1, <1>4 DEF GcBegin
<1>12. fm = IF r.vt = NoBlk THEN fl ELSE [fl EXCEPT ![r.vt] = Erased]
  BY <1>2, <1>4, <1>11 DEF TypeOK
<1>13. BankOk(fm, u, ac)
  BY <1>4, <1>5, <1>12, BankErase
<1>14. PICK m \in Nat : ChainAt(fl, r, t, m)
  BY <1>2, <1>4 DEF Chains, ChainOk
<1>15. ChainAt(fm, u, t, m) /\ Retrieved(b, fm, t) = Retrieved(b, fl, t)
  <2>1. \A j \in Blks : j # r.vt => fm[j] = fl[j]
    BY <1>5, <1>12
  <2>2. BankOk(fm, VtErased(r), ac)
    BY <1>4, <1>13
  <2>3. /\ ChainAt(fm, VtErased(r), t, m) /\ Retrieved(b, fm, t) = Retrieved(b, fl, t)
    BY <1>2, <1>5, <1>6, <1>14, <2>1, <2>2, ChainErase
  <2> QED
    BY <1>4, <2>3
<1>16. ChainAt(fm, s, t, m)
  BY <1>2, <1>5, <1>6, <1>8, <1>9, <1>10, <1>13, <1>15, ChainSwap
<1>17. ChainOk(flash'[b], ring'[b], ta[b])
  BY <1>4, <1>14, <1>16 DEF ChainOk
<1>18. \A c \in Banks \ {b} : flash'[c] = flash[c] /\ ring'[c] = ring[c]
  BY <1>7, <1>11 DEF TypeOK
<1> QED
  BY <1>2, <1>4, <1>15, <1>17, <1>18, OneBankScan

\* The victim lies before the blocks that are scanned.
LEMMA VictimBefore ==
  ASSUME TypeOK, SInv, RoomLeft, pc = "gccopy", NEW ta \in [Banks -> Ppn],
         NEW m, ChainAt(flash[bank], ring[bank], ta[bank], m)
  PROVE  m \in Nat /\ m > 0 /\ bank \in Banks /\ victim = Nth(ring[bank], 0)
<1>1. PICK b, fl, r, ac, t : /\ b = bank /\ fl = flash[b] /\ r = ring[b]
                             /\ ac = active[b] /\ t = ta[b]
  OBVIOUS
<1>2. b \in Banks /\ pc # "recovered"
  BY <1>1 DEF TypeOK
<1>3. r \in RingType /\ ac \in Ppn /\ BankOk(fl, r, ac)
  BY <1>1, <1>2, BankOkNow
<1>4. Used(r) \in 1..NumBlks
  BY <1>3, BankFacts
<1>5. m \in 0..(Used(r) - 1) /\ At(r, m) = r.rsv
  BY <1>1 DEF ChainAt
<1>6. m \in Nat
  BY <1>4, <1>5, NumBlksAssumption
<1>7. r.rsv # r.tail
  BY <1>1 DEF RoomLeft
<1>8. At(r, 0) = r.tail
  BY <1>3, AtSteps
<1>9. m # 0
  BY <1>5, <1>7, <1>8
<1> QED
  BY <1>1, <1>2, <1>6, <1>9 DEF SInv, VictimInv

\* The tail moves on: it was before the mark.
LEMMA GcEndScan ==
  ASSUME TypeOK, SInv, TypeOK', SInv', GcEnd, RoomLeft,
         NEW ta \in [Banks -> Ppn], Chains(ta)
  PROVE  ScanStays(ta)
<1>1. PICK b, fl, r, ac, t, s : /\ b = bank /\ fl = flash[b] /\ r = ring[b]
                             /\ ac = active[b] /\ t = ta[b] /\ s = ring'[b]
  OBVIOUS
<1>2. /\ pc = "gccopy" /\ pc' = "gc" /\ UNCHANGED <<flash, active>>
      /\ ring' = [ring EXCEPT ![b] = FreeVictim(r, victim)]
  BY <1>1 DEF GcEnd, nand
<1>3. b \in Banks /\ pc # "recovered" /\ pc' # "recovered"
  BY <1>1, <1>2 DEF TypeOK
<1>4. /\ fl \in [Blks -> Block] /\ r \in RingType /\ ac \in Ppn /\ t \in Ppn
      /\ BankOk(fl, r, ac)
  BY <1>1, <1>3, BankOkNow
<1>5. s \in RingType /\ BankOk(fl, s, ac)
  <2>1. active'[b] = ac /\ flash'[b] = fl
    BY <1>1, <1>2
  <2> QED
    BY <1>1, <1>3, <2>1, BankOkNext
<1>6. PICK m \in Nat : ChainAt(fl, r, t, m)
  BY <1>1, <1>3 DEF Chains, ChainOk
<1>7. m > 0 /\ victim = Nth(r, 0)
  BY <1>1, <1>2, <1>6, VictimBefore
<1>8. r.vt = NoBlk
  BY <1>1, <1>2 DEF SInv, VictimInv
<1>9. s = FreeVictim(r, Nth(r, 0))
  BY <1>1, <1>2, <1>3, <1>7 DEF TypeOK
<1>10. ChainAt(fl, s, t, m - 1)
  BY <1>3, <1>4, <1>5, <1>6, <1>7, <1>8, <1>9, ChainFree
<1>11. ChainOk(flash'[b], ring'[b], ta[b])
  <2>1. m - 1 \in Nat
    BY <1>7
  <2> QED
    BY <1>1, <1>2, <1>10, <2>1 DEF ChainOk
<1>12. \A c \in Banks \ {b} : flash'[c] = flash[c] /\ ring'[c] = ring[c]
  BY <1>2 DEF TypeOK
<1> QED
  BY <1>2, <1>3, <1>11, <1>12, OneBankScan

\* x is what a scan of flash meets last of its bank.
Latest(S, x) ==
  \A y \in S : Bank(y.pg.lpn) = Bank(x.pg.lpn) => Earlier(y.at, x.at) /\ ~Earlier(x.at, y.at)

\* The page programmed is what the scan of its bank meets last.
LEMMA ProgramScan ==
  ASSUME TypeOK, SInv, TypeOK', SInv', pc # "recovered", pc' # "recovered",
         NEW b \in Banks, NEW pg \in DataPage, Bank(pg.lpn) = b,
         NEW released, Program(b, pg, released),
         NEW ta \in [Banks -> Ppn], Chains(ta)
  PROVE  /\ Chains(ta)'
         /\ \E x : /\ AllRetrieved(flash', ta) = AllRetrieved(flash, ta) \cup {x}
                   /\ x.ppn = active[b] /\ x.pg = pg
                   /\ \E n, p \in Nat : x.at = <<b, n, p>>
                   /\ Latest(AllRetrieved(flash, ta), x)
<1>1. PICK fl, r, ac, t, fm, ad : /\ fl = flash[b] /\ r = ring[b] /\ ac = active[b]
                              /\ t = ta[b] /\ fm = flash'[b] /\ ad = active'[b]
  OBVIOUS
<1>2. /\ flash' = [flash EXCEPT ![b][ac.blk].pages = Append(@, pg)]
      /\ active' = [active EXCEPT ![b].page = @ + 1]
      /\ ring' = ring
  BY <1>1 DEF Program
<1>3. /\ fl \in [Blks -> Block] /\ r \in RingType /\ ac \in Ppn /\ t \in Ppn
      /\ BankOk(fl, r, ac)
  BY <1>1, BankOkNow
<1>4. /\ fm \in [Blks -> Block] /\ ad \in Ppn /\ BankOk(fm, r, ad)
  <2>1. ring'[b] = r
    BY <1>1, <1>2
  <2> QED
    BY <1>1, <2>1, BankOkNext
<1>5. fm = [fl EXCEPT ![ac.blk].pages = Append(@, pg)]
  BY <1>1, <1>2 DEF TypeOK
<1>6. OnlyAppends(fl, fm, ac.blk, pg)
  <2>1. \A k \in Blks : fl[k] \in Block
    BY <1>3
  <2>2. ac.blk \in Blks
    BY <1>3 DEF Ppn
  <2> QED
    BY <1>3, <1>5, <2>1, <2>2 DEF Block, OnlyAppends
<1>7. PICK m \in Nat : ChainAt(fl, r, t, m)
  BY <1>1 DEF Chains, ChainOk
<1>8. /\ ChainAt(fm, r, t, m)
      /\ \E x : MetLast(b, Retrieved(b, fl, t), Retrieved(b, fm, t), ac, pg, x)
  BY <1>3, <1>4, <1>6, <1>7, RetrievedProgram
<1>9. PICK x : /\ Retrieved(b, fm, t) = Retrieved(b, fl, t) \cup {x}
                /\ x.ppn = ac /\ x.pg = pg
                /\ \E n, p \in Nat : x.at = <<b, n, p>>
                /\ \A y \in Retrieved(b, fl, t) :
                     Earlier(y.at, x.at) /\ ~Earlier(x.at, y.at)
  BY <1>8 DEF MetLast
<1>10. \A c \in Banks \ {b} : flash'[c] = flash[c] /\ ring'[c] = ring[c]
  BY <1>2 DEF TypeOK
<1>11. Chains(ta)'
  <2>1. ChainOk(flash'[b], ring'[b], ta[b])
    BY <1>1, <1>2, <1>7, <1>8 DEF ChainOk
  <2> QED
    BY <1>10, <2>1 DEF Chains
<1>12. AllRetrieved(flash', ta) = AllRetrieved(flash, ta) \cup {x}
  <2>1. \A y : y \in AllRetrieved(flash', ta) <=>
                 \E c \in Banks : y \in Retrieved(c, flash'[c], ta[c])
    BY ScanMember
  <2>2. \A y : y \in AllRetrieved(flash, ta) <=>
                 \E c \in Banks : y \in Retrieved(c, flash[c], ta[c])
    BY ScanMember
  <2>3. \A c \in Banks : Retrieved(c, flash'[c], ta[c]) =
            IF c = b THEN Retrieved(c, flash[c], ta[c]) \cup {x}
                     ELSE Retrieved(c, flash[c], ta[c])
    BY <1>1, <1>9, <1>10
  <2> QED
    BY <2>1, <2>2, <2>3
<1>13. Latest(AllRetrieved(flash, ta), x)
  <2>1. \A c \in Banks : \A y \in Retrieved(c, flash[c], ta[c]) : Bank(y.pg.lpn) = c
    <3>1. SUFFICES ASSUME NEW c \in Banks, NEW y \in Retrieved(c, flash[c], ta[c])
                   PROVE  Bank(y.pg.lpn) = c
      OBVIOUS
    <3>2. PICK f2, r2, a2, t2 : /\ f2 = flash[c] /\ r2 = ring[c] /\ a2 = active[c]
                                /\ t2 = ta[c]
      OBVIOUS
    <3>3. PICK q \in Nat : ChainAt(f2, r2, t2, q)
      BY <3>2 DEF Chains, ChainOk
    <3>4. /\ f2 \in [Blks -> Block] /\ r2 \in RingType /\ a2 \in Ppn
          /\ BankOk(f2, r2, a2) /\ HomeOk(c, f2) /\ t2 \in Ppn
      BY <3>2, BankOkNow
    <3>5. y \in Retrieved(c, f2, t2)
      BY <3>1, <3>2
    <3> QED
      BY <3>3, <3>4, <3>5, RetrievedFacts
  <2>2. \A y \in AllRetrieved(flash, ta) : \E c \in Banks : y \in Retrieved(c, flash[c], ta[c])
    BY ScanMember
  <2> QED
    BY <1>1, <1>9, <2>1, <2>2 DEF Latest
<1> QED
  BY <1>1, <1>9, <1>11, <1>12, <1>13

\* What is scanned are pages in flash, at their places, each once; none is
\* in the block waiting for its erase or in the victim.
LEMMA ScanFacts ==
  ASSUME TypeOK, SInv, pc # "recovered", NEW ta \in [Banks -> Ppn], Chains(ta),
         NEW x \in AllRetrieved(flash, ta)
  PROVE  /\ x.pg \in DataPage /\ Bank(x.pg.lpn) \in Banks
         /\ x.ppn \in [blk : Blks, page : Nat]
         /\ x.ppn.page < Len(flash[Bank(x.pg.lpn)][x.ppn.blk].pages)
         /\ x.pg = flash[Bank(x.pg.lpn)][x.ppn.blk].pages[x.ppn.page + 1]
         /\ x.ppn.blk # ring[Bank(x.pg.lpn)].vt
         /\ \E n, p \in Nat : x.at = <<Bank(x.pg.lpn), n, p>>
         /\ \A y \in AllRetrieved(flash, ta) : x.at = y.at => x = y
         /\ pc = "gccopy" /\ RoomLeft /\ Bank(x.pg.lpn) = bank => x.ppn.blk # victim
<1>1. ASSUME NEW c \in Banks, NEW y \in Retrieved(c, flash[c], ta[c])
      PROVE  /\ y.pg \in DataPage /\ Bank(y.pg.lpn) = c
             /\ y.ppn \in [blk : Blks, page : Nat]
             /\ y.ppn.page < Len(flash[c][y.ppn.blk].pages)
             /\ y.pg = flash[c][y.ppn.blk].pages[y.ppn.page + 1]
             /\ y.ppn.blk # ring[c].vt
             /\ \E n, p \in Nat : y.at = <<c, n, p>>
             /\ \A z \in Retrieved(c, flash[c], ta[c]) : y.at = z.at => y = z
             /\ pc = "gccopy" /\ RoomLeft /\ c = bank => y.ppn.blk # victim
  <2>1. PICK fl, r, ac, t : fl = flash[c] /\ r = ring[c] /\ ac = active[c] /\ t = ta[c]
    OBVIOUS
  <2>2. PICK m \in Nat : ChainAt(fl, r, t, m)
    BY <2>1 DEF Chains, ChainOk
  <2>3. /\ fl \in [Blks -> Block] /\ r \in RingType /\ ac \in Ppn
        /\ BankOk(fl, r, ac) /\ HomeOk(c, fl) /\ t \in Ppn
    BY <2>1, BankOkNow
  <2>4. y \in Retrieved(c, fl, t)
    BY <1>1, <2>1
  <2>5. /\ y.pg \in DataPage /\ Bank(y.pg.lpn) = c
        /\ y.ppn \in [blk : Blks, page : Nat] /\ y.ppn.page < Len(fl[y.ppn.blk].pages)
        /\ y.pg = fl[y.ppn.blk].pages[y.ppn.page + 1]
        /\ y.ppn.blk # r.vt
        /\ \A j \in 0..(m - 1) : y.ppn.blk # Nth(r, j)
        /\ \E n, p \in Nat : y.at = <<c, n, p>>
        /\ \A z \in Retrieved(c, fl, t) : y.at = z.at => y = z
    BY <2>2, <2>3, <2>4, RetrievedFacts
  <2>6. pc = "gccopy" /\ RoomLeft /\ c = bank => y.ppn.blk # victim
    <3> SUFFICES ASSUME pc = "gccopy", RoomLeft, c = bank  PROVE y.ppn.blk # victim
      OBVIOUS
    <3>1. m > 0 /\ victim = Nth(r, 0)
      BY <2>1, <2>2, VictimBefore
    <3>2. 0 \in 0..(m - 1)
      BY <2>2, <3>1
    <3> QED
      BY <2>5, <3>1, <3>2
  <2> QED
    BY <2>1, <2>5, <2>6
<1>2. PICK b \in Banks : x \in Retrieved(b, flash[b], ta[b])
  BY ScanMember
<1>3. /\ x.pg \in DataPage /\ Bank(x.pg.lpn) = b
      /\ \E n, p \in Nat : x.at = <<b, n, p>>
  BY <1>1, <1>2
<1>4. ASSUME NEW y \in AllRetrieved(flash, ta), x.at = y.at
      PROVE  x = y
  <2>1. PICK c \in Banks : y \in Retrieved(c, flash[c], ta[c])
    BY ScanMember
  <2>2. PICK n, p \in Nat : x.at = <<b, n, p>>
    BY <1>3
  <2>3. PICK i, j \in Nat : y.at = <<c, i, j>>
    BY <1>1, <2>1
  <2>4. c = b
    <3>1. x.at[1] = b
      BY <2>2
    <3>2. y.at[1] = c
      BY <2>3
    <3> QED
      BY <1>4, <3>1, <3>2
  <2> QED
    BY <1>1, <1>2, <1>4, <2>1, <2>4
<1> QED
  BY <1>1, <1>2, <1>3, <1>4

\* Between two tags only a program changes what is scanned.
LEMMA ScanSteps ==
  ASSUME TypeOK, SInv, TypeOK', SInv', RoomLeft, RoomLeft', [Next]_vars,
         pc # "recovered", pc' # "recovered", ~RecordTag,
         NEW ta \in [Banks -> Ppn], Chains(ta)
  PROVE  \/ ScanStays(ta)
         \/ \E b \in Banks : Dequeue(b)
         \/ GcCopy
<1>1. CASE Quiet
  BY <1>1 DEF Quiet, ScanStays, Chains
<1>2. CASE Buffering
  BY <1>2, EraseScan DEF Buffering
<1>3. CASE Closing
  BY <1>3, CloseScan
<1>4. CASE GcBegin
  BY <1>4, GcBeginScan
<1>5. CASE GcEnd
  BY <1>5, GcEndScan
<1>6. CASE CrashAndRecover
  BY <1>6 DEF CrashAndRecover
<1> QED
  BY <1>1, <1>2, <1>3, <1>4, <1>5, <1>6, SpaceSteps

\* A new tag: nothing is scanned but what will be written after it.
LEMMA TagScan ==
  ASSUME TypeOK, SInv, TypeOK', SInv', RecordTag
  PROVE  /\ \A b \in Banks : ChainOk(flash'[b], ring'[b], active[b])
         /\ AllRetrieved(flash', active) = {}
<1>1. /\ pc # "recovered" /\ pc' # "recovered" /\ UNCHANGED <<flash, active>>
      /\ ring' = [b \in Banks |-> PushRsv(ring[b])]
  BY DEF RecordTag
<1>2. ASSUME NEW b \in Banks
      PROVE  /\ ChainOk(flash'[b], ring'[b], active[b])
             /\ Retrieved(b, flash'[b], active[b]) = {}
  <2>1. PICK fl, r, ac, u : fl = flash[b] /\ r = ring[b] /\ ac = active[b] /\ u = Used(r) - 1
    OBVIOUS
  <2>2. /\ fl \in [Blks -> Block] /\ r \in RingType /\ ac \in Ppn /\ BankOk(fl, r, ac)
    BY <1>1, <2>1, BankOkNow
  <2>3. ChainAt(fl, PushRsv(r), ac, Used(r) - 1) /\ Retrieved(b, fl, ac) = {}
    BY <2>2, ChainRsv
  <2>4. u \in Nat
    <3>1. Used(r) \in 1..NumBlks
      BY <2>2, BankFacts
    <3> QED
      BY <2>1, <3>1, NumBlksAssumption
  <2> QED
    BY <1>1, <2>1, <2>3, <2>4 DEF ChainOk
<1>3. \A x : x \in AllRetrieved(flash', active) <=>
               \E c \in Banks : x \in Retrieved(c, flash'[c], active[c])
  BY ScanMember
<1> QED
  BY <1>2, <1>3

-----------------------------------------------------------------------------
(* Names for what the log says.                                            *)

\* Writes issued; the page replay begins after, the write points, the first
\* write not covered and the map of the last tag.
Live   == pc # "recovered"
Issued == Len(hist)
Tagged == TagsOf(log) # {}
From   == ReachLast(log)
Act    == LastTag(log).active
Saved  == EpochSucc(LastTag(log).epoch)
Base   == RestoredMap(maps).map
Fresh  == {"persist", "erasemap", "eraselog", "closed"}

\* What a step does to the log.
LogsDeps == /\ DepFull \/ FlushDeps
            /\ deps # <<>> /\ log' = Append(log, [type |-> "depent", ents |-> deps])
LogsMap  == RecordMapent /\ mapents # <<>>

\* Four places append to the log, one erases it.
LEMMA LogSteps ==
  ASSUME TypeOK, [Next]_vars, pc # "recovered", pc' # "recovered"
  PROVE  \/ log' = log /\ ~RecordTag /\ ~EraseLog
         \/ LogsDeps \/ LogsMap \/ RecordTag \/ EraseLog
<1> USE DEF nand, wbuf, tables, chkpt, loops, gcvars, ghosts
<1>1. CASE WriteStep
  <2>1. CASE WritePool \/ CleanPool
    BY <2>1 DEF WritePool, CleanPool, PoolWriteBuf, Dequeue, Program, EraseVt, RecordTag, EraseLog
  <2>2. CASE LookupMiss \/ LookupHit \/ CleanFound \/ Written
    BY <2>2 DEF LookupMiss, LookupHit, CleanFound, Written, RecordTag, EraseLog
  <2>3. CASE DepFull
    BY <2>3 DEF DepFull, RecordDepent, LogsDeps, RecordTag, EraseLog
  <2> QED
    BY <1>1, <2>1, <2>2, <2>3 DEF WriteStep
<1>2. CASE FlushStep
  <2>1. CASE FlushDeps
    BY <2>1 DEF FlushDeps, RecordDepent, LogsDeps, RecordTag, EraseLog
  <2>2. CASE FlushBank \/ FlushAgain \/ FlushDone
    BY <2>2 DEF FlushBank, FlushAgain, FlushDone, Dequeue, Program, RecordTag, EraseLog
  <2> QED
    BY <1>2, <2>1, <2>2 DEF FlushStep
<1>3. CASE GcStep
  <2>1. CASE GcCopy
    BY <2>1 DEF GcCopy, Program, RecordTag, EraseLog
  <2>2. CASE GcSkip \/ GcBegin \/ GcEnd \/ GcRound
    BY <2>2 DEF GcSkip, GcBegin, GcEnd, GcRound, RecordTag, EraseLog
  <2> QED
    BY <1>3, <2>1, <2>2 DEF GcStep
<1>4. CASE ChkptStep
  BY <1>4 DEF ChkptStep, RecordMapent, PersistMap, EraseMap, LogsMap, RecordTag, EraseLog
<1>5. CASE SummaryPage
  BY <1>5 DEF SummaryPage, NextProgram, RecordTag, EraseLog
<1>6. CASE PoolStep
  BY <1>6 DEF PoolStep, PoolWriteBuf, Dequeue, Program, EraseVt, RecordTag, EraseLog
<1>7. CASE \/ HostFlush \/ IdlePool \/ Timer
           \/ \E c \in WriteCmds : HostWrite(c[1], c[2])
  <2>1. log' = log
    BY <1>7 DEF HostFlush, IdlePool, Timer, HostWrite
  <2>2. ~RecordTag /\ ~EraseLog
    <3>1. pc = "tag" \/ pc = "eraselog" => pc' = pc
      BY <1>7 DEF HostFlush, IdlePool, Timer, HostWrite
    <3> QED
      BY <2>1, <3>1 DEF RecordTag, EraseLog
  <2> QED
    BY <2>1, <2>2
<1>8. CASE UNCHANGED vars
  BY <1>8 DEF vars, RecordTag, EraseLog
<1>9. CASE CrashAndRecover
  BY <1>9 DEF CrashAndRecover
<1> QED
  BY <1>1, <1>2, <1>3, <1>4, <1>5, <1>6, <1>7, <1>8, <1>9 DEF Next, FtlStep

\* An append that is no tag leaves what the last tag says as it was.
LogKeeps == Tagged' /\ Saved' = Saved /\ From' = From /\ LastTag(log') = LastTag(log)

\* The log grows by a page of the given type.
LogGrows(type) ==
  /\ TagsOf(log') = TagsOf(log) /\ log' \in Seq(LogPage) /\ Len(log') = Len(log) + 1
  /\ log'[Len(log) + 1].type = type
  /\ \A j \in DOMAIN log : log'[j] = log[j]

\* A page that is no tag leaves the last tag.
LEMMA AppendKeeps ==
  ASSUME TypeOK, Tagged, NEW pg \in LogPage, pg.type # "tag", log' = Append(log, pg)
  PROVE  LogKeeps /\ LogGrows(pg.type)
<1>1. log \in Seq(LogPage) /\ TagsOf(log) # {}
  BY DEF TypeOK, Tagged
<1>2. PICK lg, lh : lg = log /\ lh = log'
  OBVIOUS
<1>3. lh = Append(lg, pg)
  BY <1>2
<1>4. /\ lh \in Seq(LogPage) /\ TagsOf(lh) = TagsOf(lg) /\ LastTag(lh) = LastTag(lg)
      /\ ReachLast(lh) = ReachLast(lg)
  BY <1>1, <1>2, <1>3, LogOther
<1>5. /\ Len(lh) = Len(lg) + 1 /\ lh[Len(lg) + 1] = pg
      /\ \A j \in DOMAIN lg : lh[j] = lg[j]
  <2>1. lg \in Seq(LogPage)
    BY <1>1, <1>2
  <2> QED
    BY <1>3, <2>1
<1> QED
  BY <1>1, <1>2, <1>4, <1>5 DEF LogKeeps, LogGrows, Tagged, Saved, From

\* Dependencies and map entries leave the last tag.
LEMMA DepsKeep ==
  ASSUME TypeOK, Tagged, LogsDeps \/ LogsMap
  PROVE  /\ LogKeeps
         /\ LogsDeps => LogGrows("depent")
         /\ LogsMap => LogGrows("mapent")
         /\ ~(LogsDeps /\ LogsMap)
<1>0. ~(LogsDeps /\ LogsMap)
  BY DEF LogsDeps, LogsMap, RecordMapent, DepFull, FlushDeps
<1>1. CASE LogsDeps
  <2>1. [type |-> "depent", ents |-> deps] \in LogPage
    BY DEF TypeOK, LogPage
  <2>2. PICK pg \in LogPage : pg = [type |-> "depent", ents |-> deps]
    BY <2>1
  <2>3. pg.type = "depent" /\ log' = Append(log, pg)
    BY <1>1, <2>2 DEF LogsDeps
  <2> QED
    BY <1>0, <1>1, <2>3, AppendKeeps
<1>2. CASE LogsMap
  <2>1. PICK n : log' = Append(log, [type |-> "mapent", ents |-> SubSeq(mapents, 1, n)])
                  /\ n = IF Len(mapents) < MapentsPerPage THEN Len(mapents)
                                                  ELSE MapentsPerPage
    BY <1>2 DEF LogsMap, RecordMapent
  <2>2. mapents \in Seq(MapEnt) /\ n \in Nat /\ n <= Len(mapents)
    BY <2>1, FtlAssumption DEF TypeOK
  <2>3. SubSeq(mapents, 1, n) \in Seq(MapEnt)
    BY <2>2
  <2>4. [type |-> "mapent", ents |-> SubSeq(mapents, 1, n)] \in LogPage
    BY <2>3 DEF LogPage
  <2>5. PICK pg \in LogPage : pg = [type |-> "mapent", ents |-> SubSeq(mapents, 1, n)]
    BY <2>4
  <2>6. pg.type = "mapent" /\ log' = Append(log, pg)
    BY <2>1, <2>5
  <2> QED
    BY <1>0, <1>2, <2>6, AppendKeeps
<1> QED
  BY <1>1, <1>2

\* What the control flow may do to what recovery depends on.
Late == {"tag", "persist", "erasemap", "eraselog", "closed"}
Steady ==
  /\ UNCHANGED <<maps, mapIdx, g_epoch, flushed>> \/ pc = "flush"
  /\ UNCHANGED <<maps, mapIdx, g_epoch>>
  /\ pc \in Late => UNCHANGED <<pc, back, log, hist, pgmap>>
  /\ pc' \in Late => pc' = pc
  /\ pc = "mapent" => pc' = pc
  /\ pc' = "mapent" => (pc = "mapent" /\ back' = back) \/ (pc = "flush" /\ back' = back /\ back \in {"chkpt", "close"})
  /\ pc' = "flush" => pc \in {"dep", "flush"} /\ back' = back
  /\ pc' = "dep" /\ back' = "chkpt" => pc = "dep" /\ back' = back

\* The end of a write.
Ends ==
  /\ pc \in {"written", "gc"} /\ UNCHANGED <<log, maps, mapIdx, deps, mapents, hist, flash, ring, cache, pgmap, flushed>>
  /\ g_epoch' = g_epoch + 1 /\ pc' \in {"dep", "idle"}

\* Most steps leave maps and epoch and stay on this side of a checkpoint
\* (Steady); the others are the end of a write (Ends) and those of the
\* checkpoint.
LEMMA CtrlSteps ==
  ASSUME TypeOK, [Next]_vars, pc # "recovered", pc' # "recovered"
  PROVE  \/ Steady \/ Ends
         \/ RecordMapent /\ mapents = <<>>
         \/ RecordTag \/ PersistMap \/ EraseMap \/ EraseLog
<1> USE DEF nand, wbuf, tables, chkpt, loops, gcvars, ghosts, Late
<1>1. CASE WriteStep
  <2>1. CASE WritePool \/ CleanPool
    BY <2>1 DEF WritePool, CleanPool, PoolWriteBuf, Dequeue, Program, EraseVt, Steady
  <2>2. CASE LookupMiss
    BY <2>2 DEF LookupMiss, Steady
  <2>3. CASE LookupHit
    BY <2>3 DEF LookupHit, Enqueue, Steady
  <2>4. CASE CleanFound
    BY <2>4 DEF CleanFound, Enqueue, Steady
  <2>5. CASE DepFull
    BY <2>5 DEF DepFull, RecordDepent, Enqueue, Steady
  <2>6. CASE Written
    <3>1. CASE ReachBatchGc
      BY <2>6, <3>1 DEF Written, Steady
    <3>2. CASE ~ReachBatchGc
      BY <2>6, <3>2 DEF Written, EndWrite, Ends
    <3> QED
      BY <3>1, <3>2
  <2> QED
    BY <1>1, <2>1, <2>2, <2>3, <2>4, <2>5, <2>6 DEF WriteStep
<1>2. CASE FlushStep
  <2>1. CASE FlushDeps
    BY <2>1 DEF FlushDeps, RecordDepent, Steady
  <2>2. CASE FlushBank \/ FlushAgain
    BY <2>2 DEF FlushBank, FlushAgain, Dequeue, Program, Steady
  <2>3. CASE FlushDone
    <3>1. /\ pc = "flush" /\ UNCHANGED <<nand, tables, chkpt, g_epoch, back, hist>>
          /\ pc' = IF back = "gc" THEN "gc"
                   ELSE IF back \in {"chkpt", "close"} THEN "mapent" ELSE "idle"
      BY <2>3 DEF FlushDone, TypeOK, Returns
    <3> QED
      BY <3>1 DEF Steady
  <2> QED
    BY <1>2, <2>1, <2>2, <2>3 DEF FlushStep
<1>3. CASE GcStep
  <2>1. CASE GcCopy
    BY <2>1 DEF GcCopy, Program, Steady
  <2>2. CASE GcSkip \/ GcBegin \/ GcEnd
    BY <2>2 DEF GcSkip, GcBegin, GcEnd, Steady
  <2>3. CASE GcRound
    <3>1. CASE \E b \in Banks : ReachGc(b)
      BY <2>3, <3>1 DEF GcRound, Steady
    <3>2. CASE ~\E b \in Banks : ReachGc(b)
      BY <2>3, <3>2 DEF GcRound, EndWrite, Ends
    <3> QED
      BY <3>1, <3>2
  <2> QED
    BY <1>3, <2>1, <2>2, <2>3 DEF GcStep
<1>4. CASE ChkptStep
  <2>1. CASE RecordMapent /\ mapents # <<>>
    BY <2>1 DEF RecordMapent, Steady
  <2> QED
    BY <1>4, <2>1 DEF ChkptStep
<1>5. CASE SummaryPage
  BY <1>5 DEF SummaryPage, NextProgram, CloseBlock, Steady
<1>6. CASE PoolStep
  BY <1>6 DEF PoolStep, PoolWriteBuf, Dequeue, Program, EraseVt, Steady
<1>7. CASE \/ HostFlush \/ IdlePool \/ Timer
           \/ \E c \in WriteCmds : HostWrite(c[1], c[2])
  BY <1>7 DEF HostFlush, IdlePool, Timer, HostWrite, Steady
<1>8. CASE UNCHANGED vars
  BY <1>8 DEF vars, Steady
<1>9. CASE CrashAndRecover
  BY <1>9 DEF CrashAndRecover
<1> QED
  BY <1>1, <1>2, <1>3, <1>4, <1>5, <1>6, <1>7, <1>8, <1>9 DEF Next, FtlStep

-----------------------------------------------------------------------------
(* The invariant of the log and of the map tables.                         *)

\* There is no tag only between the erase of the log and the tag that
\* follows. Epochs of the tags grow, and right after a tag it covers every
\* write issued.
TagShape ==
  /\ ~Tagged => /\ pc = "tag" /\ log = <<>> /\ g_epoch # 1
                /\ Base = pgmap /\ RestoredMap(maps).epoch = EpochPred(g_epoch)
  /\ Tagged => /\ Saved <= g_epoch
               /\ \A i \in TagsOf(log) : EpochSucc(log[i].epoch) <= Saved
  /\ pc \in Fresh => Tagged /\ Saved = Issued

\* Behind the tag from which the replay goes on: dependencies; map entries
\* of the checkpoint under way; tags of the same epoch.
LogTail ==
  Tagged => \A j \in DOMAIN log : j > From =>
     \/ log[j].type = "depent"
     \/ log[j].type = "mapent" /\ pc \in {"mapent", "tag"}
     \/ log[j].type = "tag" /\ pc \in Fresh

\* A checkpoint is only reached from the end of a write or from close; the
\* first comes with an epoch that has grown since the last tag.
BackInv ==
  /\ pc \in {"mapent", "tag", "persist", "erasemap", "eraselog"} =>
       back \in {"chkpt", "close"}
  /\ pc \in {"dep", "flush", "mapent", "tag"} \cup Fresh /\ back = "chkpt" => g_epoch >= 1
  /\ pc \in {"dep", "flush", "mapent", "tag"} /\ back = "chkpt" /\ Tagged => Saved < g_epoch

\* A map table with the epoch of some write is older than the last tag, or
\* belongs to a close before the first write.
MapAge ==
  \A i \in {0, 1} : maps[i].epoch # 0 =>
     \/ g_epoch >= 2 /\ (Tagged => Saved >= 1)
     \/ g_epoch = 0 /\ back = "close" /\ pc \in Fresh \cup {"tag"}

\* The new map table is the current map, and the block for the next one is
\* empty.
MapsInv ==
  /\ pc \in {"erasemap", "eraselog"} => maps[1 - mapIdx].map = pgmap
  /\ pc # "erasemap" => maps[mapIdx].epoch = 0
AllClean == \A b \in Banks : Clean(b)

\* As long as the tag covers every write nothing is left in DRAM.
FreshTail ==
  Tagged /\ Saved = Issued =>
    /\ AllClean /\ deps = <<>> /\ mapents = <<>>
    /\ \A j \in DOMAIN log : j > From => log[j].type = "tag"

\* What holds of log and map tables while the firmware runs.
LogInv == Live => TagShape /\ LogTail /\ BackInv /\ MapAge /\ MapsInv /\ FreshTail

\* The types of what is derived from the last tag.
LEMMA SavedType ==
  ASSUME TypeOK, Tagged
  PROVE  /\ Saved \in Epochs /\ Saved \in Nat /\ LastTag(log).epoch = EpochPred(Saved)
         /\ LastTag(log).epoch \in Epochs /\ Act \in [Banks -> Ppn]
         /\ From \in DOMAIN log /\ From \in TagsOf(log)
<1>1. log \in Seq(LogPage) /\ TagsOf(log) # {}
  BY DEF TypeOK, Tagged
<1>2. PICK lg : lg = log
  OBVIOUS
<1>3. /\ LastTag(lg) \in [type: {"tag"}, epoch: Epochs, active: [Banks -> Ppn]]
      /\ ReachLast(lg) \in TagsOf(lg)
  BY <1>1, <1>2, LogTags
<1>4. PICK e : e = LastTag(lg).epoch
  OBVIOUS
<1>5. e \in Epochs
  BY <1>3, <1>4
<1>6. EpochSucc(e) \in Epochs /\ EpochPred(EpochSucc(e)) = e
  BY <1>5, EpochSteps
<1>7. EpochSucc(e) \in Nat
  BY <1>6, RecoveryAssumption DEF Epochs
<1>8. ReachLast(lg) \in DOMAIN lg
  BY <1>3 DEF TagsOf
<1> QED
  BY <1>2, <1>3, <1>4, <1>5, <1>6, <1>7, <1>8 DEF Saved, Act, From

\* The types of the counters.
LEMMA IssuedType ==
  ASSUME TypeOK
  PROVE  Issued \in Nat /\ g_epoch \in Nat
BY RecoveryAssumption DEF TypeOK, Issued, Epochs

\* After record_tag the checkpoint covers every write.
LEMMA TagFacts ==
  ASSUME TypeOK, EpochInv, TagShape, RecordTag
  PROVE  /\ Tagged' /\ Saved' = g_epoch /\ Saved' = Issued /\ Act' = active
         /\ Issued' = Issued
         /\ LastTag(log') = Tag(g_epoch, active)
         /\ \A i \in TagsOf(log') : EpochSucc(log'[i].epoch) <= Saved'
         /\ \A i \in TagsOf(log) : log'[i] = log[i]
         /\ log' = Append(log, Tag(g_epoch, active))
         /\ \/ From' = Len(log) + 1
            \/ Tagged /\ Saved = Issued /\ From' = From
<1>1. /\ pc = "tag" /\ log' = Append(log, Tag(g_epoch, active)) /\ hist' = hist
      /\ g_epoch' = g_epoch
  BY DEF RecordTag, ghosts
<1>2. PICK lg, lh, pg : lg = log /\ lh = log' /\ pg = Tag(g_epoch, active)
  OBVIOUS
<1>3. lg \in Seq(LogPage) /\ g_epoch \in Epochs /\ active \in [Banks -> Ppn]
  BY <1>2 DEF TypeOK
<1>4. /\ pg \in LogPage /\ pg.type = "tag" /\ pg.epoch = EpochPred(g_epoch)
      /\ pg.active = active
  BY <1>2, <1>3, EpochType DEF Tag, LogPage
<1>5. lh = Append(lg, pg)
  BY <1>1, <1>2
<1>6. /\ TagsOf(lh) = TagsOf(lg) \cup {Len(lg) + 1}
      /\ LastTag(lh) = pg
      /\ \A i \in TagsOf(lg) : lh[i] = lg[i]
      /\ (\A i \in TagsOf(lg) : lg[i].epoch # pg.epoch) => ReachLast(lh) = Len(lg) + 1
      /\ TagsOf(lg) # {} /\ LastTag(lg).epoch = pg.epoch => ReachLast(lh) = ReachLast(lg)
  <2> HIDE DEF Tag
  <2>1. lg \in Seq(LogPage) /\ pg \in LogPage /\ pg.type = "tag"
    BY <1>3, <1>4
  <2> QED
    <3>1. TagAppended(lg, pg, lh)
      BY <1>5, <2>1, LogTag
    <3> QED
      BY <3>1 DEF TagAppended
<1>7. EpochSucc(EpochPred(g_epoch)) = g_epoch
  BY <1>3, EpochSteps
<1>8. Tagged' /\ Saved' = g_epoch /\ Act' = active /\ LastTag(log') = Tag(g_epoch, active)
  BY <1>2, <1>4, <1>6, <1>7 DEF Tagged, Saved, Act
<1>9. Issued = g_epoch /\ Issued' = Issued
  BY <1>1, IssuedType DEF EpochInv, InWrite, Writing, Issued
<1>10. \A i \in TagsOf(log) : EpochSucc(log[i].epoch) <= g_epoch
  <2>1. CASE Tagged
    <3>1. Saved <= g_epoch /\ \A i \in TagsOf(log) : EpochSucc(log[i].epoch) <= Saved
      BY <2>1 DEF TagShape
    <3>2. \A i \in TagsOf(log) : EpochSucc(log[i].epoch) \in Int
      <4>1. \A i \in TagsOf(log) : log[i].epoch \in Epochs
        <5>1. \A i \in TagsOf(log) : log[i] \in LogPage /\ log[i].type = "tag"
          BY DEF TypeOK, TagsOf
        <5> QED
          BY <5>1 DEF LogPage
      <4> QED
        BY <4>1, EpochSteps, RecoveryAssumption DEF Epochs
    <3>3. Saved \in Int /\ g_epoch \in Int
      BY <2>1, SavedType, IssuedType
    <3> QED
      BY <3>1, <3>2, <3>3
  <2>2. CASE ~Tagged
    BY <2>2 DEF Tagged
  <2> QED
    BY <2>1, <2>2
<1>11. \A i \in TagsOf(log') : EpochSucc(log'[i].epoch) <= Saved'
  <2>1. lh[Len(lg) + 1] = pg
    BY <1>3, <1>4, <1>5
  <2>2. g_epoch <= g_epoch
    BY IssuedType
  <2> QED
    BY <1>2, <1>4, <1>6, <1>7, <1>8, <1>10, <2>1, <2>2
<1>12. \/ From' = Len(log) + 1
       \/ Tagged /\ Saved = Issued /\ From' = From
  <2>1. CASE Tagged /\ Saved = g_epoch
    <3>1. LastTag(log).epoch = EpochPred(g_epoch)
      BY <2>1, SavedType
    <3> QED
      BY <1>2, <1>4, <1>6, <1>9, <2>1, <3>1 DEF Tagged, From
  <2>2. CASE Tagged /\ Saved # g_epoch
    <3>1. Saved \in Nat /\ g_epoch \in Nat /\ Saved < g_epoch
      BY <2>2, SavedType, IssuedType DEF TagShape
    <3>2. ASSUME NEW i \in TagsOf(lg)
          PROVE  lg[i].epoch # pg.epoch
      <4>1. EpochSucc(lg[i].epoch) <= Saved
        BY <1>2, <2>2, <3>2 DEF TagShape
      <4>2. EpochSucc(pg.epoch) = g_epoch
        BY <1>4, <1>7
      <4>3. ~(g_epoch <= Saved)
        BY <3>1
      <4> QED
        BY <4>1, <4>2, <4>3
    <3> QED
      BY <1>2, <1>6, <3>2 DEF From
  <2>3. CASE ~Tagged
    BY <1>2, <1>6, <2>3 DEF Tagged, From
  <2> QED
    BY <2>1, <2>2, <2>3
<1> QED
  BY <1>1, <1>2, <1>6, <1>8, <1>9, <1>11, <1>12

\* A log that stays keeps its last tag.
LEMMA SameLog ==
  ASSUME UNCHANGED log
  PROVE  (Tagged' <=> Tagged) /\ Saved' = Saved /\ From' = From /\ Act' = Act
         /\ LastTag(log') = LastTag(log) /\ TagsOf(log') = TagsOf(log)
BY DEF Tagged, Saved, From, Act

\* An empty log has no tag.
LEMMA NoTags ==
  ASSUME log = <<>>
  PROVE  ~Tagged
BY DEF Tagged, TagsOf

\* The erase of the log: the map table has all that the log had.
LEMMA EraseLogFacts ==
  ASSUME TypeOK, TagInv, MapsInv, RoomLeft, EraseLog
  PROVE  /\ ~Tagged' /\ pc' = "tag" /\ log' = <<>> /\ g_epoch # 1
         /\ Base = pgmap /\ RestoredMap(maps).epoch = EpochPred(g_epoch)
         /\ UNCHANGED <<maps, mapIdx, g_epoch, back, hist, pgmap, mapents, deps, cache>>
<1>1. /\ pc = "eraselog" /\ log' = <<>> /\ pc' = "tag"
      /\ UNCHANGED <<maps, mapIdx, g_epoch, back, hist, pgmap, mapents, deps, cache>>
  BY DEF EraseLog, tables, ghosts, wbuf, chkpt
<1>2. ~Tagged'
  BY <1>1 DEF Tagged, TagsOf
<1>3. g_epoch # 1 /\ g_epoch \in Epochs
  BY <1>1 DEF RoomLeft, TypeOK
<1>4. /\ mapIdx \in {0, 1} /\ maps[1 - mapIdx].epoch = EpochPred(g_epoch)
      /\ maps[mapIdx].epoch = 0 /\ maps[1 - mapIdx].map = pgmap
  BY <1>1 DEF TagInv, MapsInv, TypeOK
<1>5. EpochPred(g_epoch) \in Nat /\ EpochPred(g_epoch) > 0
  BY <1>3, RecoveryAssumption DEF EpochPred, Epochs
<1>6. CASE mapIdx = 0
  BY <1>1, <1>2, <1>3, <1>4, <1>5, <1>6 DEF RestoredMap, Base
<1>7. CASE mapIdx = 1
  BY <1>1, <1>2, <1>3, <1>4, <1>5, <1>7 DEF RestoredMap, Base
<1> QED
  BY <1>4, <1>6, <1>7

\* The steps after which the log is the old one or has one more page, no tag.
LEMMA Growing ==
  ASSUME TypeOK, [Next]_vars, pc # "recovered", pc' # "recovered", ~RecordTag, ~EraseLog,
         Tagged
  PROVE  /\ LogKeeps /\ Act' = Act /\ \A i \in TagsOf(log) : log'[i] = log[i]
         /\ TagsOf(log') = TagsOf(log)
         /\ log' = log \/ LogsDeps \/ LogsMap
<1>1. CASE log' = log
  BY <1>1, SameLog DEF LogKeeps
<1>2. CASE LogsDeps \/ LogsMap
  <2>1. LogKeeps /\ (LogGrows("depent") \/ LogGrows("mapent"))
    BY <1>2, DepsKeep
  <2> QED
    BY <1>2, <2>1 DEF LogKeeps, LogGrows, Act, TagsOf
<1> QED
  BY <1>1, <1>2, LogSteps

\* The parts of LogInv are kept, one by one.
LEMMA NextTagShape ==
  ASSUME TypeOK, EpochInv, TagInv, LogInv, RoomLeft, [Next]_vars,
         pc # "recovered", pc' # "recovered"
  PROVE  TagShape'
<1>1. TagShape /\ MapsInv
  BY DEF LogInv, Live
<1>2. CASE RecordTag
  <2>1. /\ Tagged' /\ Saved' = g_epoch /\ Saved' = Issued /\ Issued' = Issued
        /\ \A i \in TagsOf(log') : EpochSucc(log'[i].epoch) <= Saved'
    BY <1>1, <1>2, TagFacts
  <2>2. g_epoch' = g_epoch /\ g_epoch <= g_epoch
    BY <1>2, IssuedType DEF RecordTag
  <2> QED
    BY <2>1, <2>2 DEF TagShape
<1>3. CASE EraseLog
  <2>1. /\ ~Tagged' /\ pc' = "tag" /\ log' = <<>> /\ g_epoch # 1
        /\ Base = pgmap /\ RestoredMap(maps).epoch = EpochPred(g_epoch)
        /\ UNCHANGED <<maps, g_epoch, pgmap>>
    BY <1>1, <1>3, EraseLogFacts
  <2> QED
    BY <2>1 DEF TagShape, Base, Fresh
<1>4. CASE ~RecordTag /\ ~EraseLog /\ Tagged
  <2>1. /\ Tagged' /\ Saved' = Saved /\ \A i \in TagsOf(log) : log'[i] = log[i]
        /\ TagsOf(log') = TagsOf(log)
    BY <1>4, Growing DEF LogKeeps
  <2>2. g_epoch <= g_epoch' /\ g_epoch' \in Nat /\ g_epoch \in Nat /\ Saved \in Nat
    <3>1. g_epoch' = g_epoch \/ g_epoch' = g_epoch + 1
      BY <1>4, CtrlSteps DEF Steady, Ends, RecordMapent, PersistMap, EraseMap
    <3> QED
      BY <1>4, <3>1, IssuedType, SavedType
  <2>3. Saved' <= g_epoch'
    BY <1>1, <1>4, <2>1, <2>2 DEF TagShape
  <2>4. pc' \in Fresh => Saved' = Issued'
    <3>1. pc' \in Fresh => pc \in Fresh /\ hist' = hist
      BY <1>4, CtrlSteps DEF Steady, Ends, RecordMapent, PersistMap, EraseMap, Fresh, Late, ghosts
    <3> QED
      BY <1>1, <2>1, <3>1 DEF TagShape, Issued
  <2> QED
    BY <1>1, <1>4, <2>1, <2>3, <2>4 DEF TagShape
<1>5. CASE ~RecordTag /\ ~EraseLog /\ ~Tagged
  <2>1. /\ pc = "tag" /\ log = <<>> /\ g_epoch # 1
        /\ Base = pgmap /\ RestoredMap(maps).epoch = EpochPred(g_epoch)
    BY <1>1, <1>5 DEF TagShape
  <2>2. UNCHANGED <<pc, log, maps, g_epoch, pgmap>>
    BY <1>5, <2>1, CtrlSteps DEF Steady, Ends, RecordMapent, PersistMap, EraseMap, Late
  <2>3. ~Tagged'
    BY <1>5, <2>2, SameLog
  <2> QED
    BY <2>1, <2>2, <2>3 DEF TagShape, Base, Fresh
<1> QED
  BY <1>2, <1>3, <1>4, <1>5

\* A checkpoint begins where BackInv says.
LEMMA NextBack ==
  ASSUME TypeOK, EpochInv, LogInv, [Next]_vars,
         pc # "recovered", pc' # "recovered"
  PROVE  BackInv'
<1>1. TagShape /\ BackInv /\ g_epoch \in Nat
  BY IssuedType DEF LogInv, Live
<1>2. CASE RecordTag
  <2>1. pc' \in {"persist", "dep", "idle"} /\ pc = "tag" /\ g_epoch' = g_epoch
        /\ (pc' = "persist" => back' = back) /\ (pc' = "dep" => back' = "auto")
    BY <1>2 DEF RecordTag
  <2> QED
    BY <1>1, <2>1 DEF BackInv, Fresh
<1>3. CASE EraseLog
  <2>1. pc' = "tag" /\ pc = "eraselog" /\ g_epoch' = g_epoch /\ back' = back /\ ~Tagged'
    BY <1>3 DEF EraseLog, Tagged, TagsOf
  <2> QED
    BY <1>1, <2>1 DEF BackInv, Fresh
<1>4. CASE PersistMap \/ EraseMap
  <2>1. pc' \in {"erasemap", "eraselog", "closed"} /\ pc \in {"persist", "erasemap"}
        /\ g_epoch' = g_epoch /\ back' = back
    BY <1>4 DEF PersistMap, EraseMap
  <2> QED
    BY <1>1, <2>1 DEF BackInv, Fresh
<1>5. CASE Ends
  <2>1. Tagged /\ Tagged' /\ Saved' = Saved /\ Saved <= g_epoch /\ Saved \in Nat
    <3>1. pc # "tag" /\ log' = log
      BY <1>5 DEF Ends
    <3> QED
      BY <1>1, <3>1, SameLog, SavedType DEF TagShape
  <2>2. pc' \in {"dep", "idle"} /\ g_epoch' = g_epoch + 1
    BY <1>5 DEF Ends
  <2> QED
    BY <1>1, <2>1, <2>2 DEF BackInv, Fresh
<1>6. CASE RecordMapent /\ mapents = <<>>
  <2>1. pc = "mapent" /\ pc' = "tag" /\ back' = back /\ g_epoch' = g_epoch /\ log' = log
    BY <1>6 DEF RecordMapent
  <2>2. (Tagged' <=> Tagged) /\ Saved' = Saved
    BY <2>1, SameLog
  <2> QED
    BY <1>1, <2>1, <2>2 DEF BackInv, Fresh
<1>7. CASE Steady /\ ~RecordTag /\ ~EraseLog
  <2>1. Tagged' => Tagged /\ Saved' = Saved
    <3>1. CASE Tagged
      BY <1>7, <3>1, Growing DEF LogKeeps
    <3>2. CASE ~Tagged
      BY <1>1, <1>7, <3>2, SameLog DEF TagShape, Steady, Late
    <3> QED
      BY <3>1, <3>2
  <2>2. CASE pc \in Late
    BY <1>1, <1>7, <2>1, <2>2 DEF BackInv, Steady, Late, Fresh
  <2>3. CASE pc \notin Late
    BY <1>1, <1>7, <2>1, <2>3 DEF BackInv, Steady, Late, Fresh
  <2> QED
    BY <2>2, <2>3
<1> QED
  BY <1>2, <1>3, <1>4, <1>5, <1>6, <1>7, CtrlSteps

\* With nothing buffered and no write running, nothing becomes pending.
LEMMA CleanStays ==
  ASSUME TypeOK, [Next]_vars, pc # "recovered", pc' # "recovered",
         ~InWrite, AllClean, deps = <<>>, mapents = <<>>
  PROVE  AllClean' /\ deps' = <<>> /\ mapents' = <<>>
<1> USE DEF nand, wbuf, tables, chkpt, loops, gcvars, ghosts
<1>1. \A b \in Banks : ~Dequeue(b)
  BY DEF AllClean, Clean, Dequeue, LruLast
<1>2. pool \in Banks /\ (pc = "flush" /\ bank < NumBanks => bank \in Banks)
  BY RecoveryAssumption DEF TypeOK, Banks
<1>3. pc \notin {"page", "lookup", "clean", "depfull", "written", "gc", "gccopy"}
  BY DEF InWrite, Writing
<1>4. UNCHANGED cache => AllClean'
  BY DEF AllClean, Clean, DirtyBufs
<1>5. CASE WriteStep
  BY <1>3, <1>5 DEF WriteStep, WritePool, LookupMiss, LookupHit, CleanPool,
                    CleanFound, DepFull, Written
<1>6. CASE FlushStep
  BY <1>1, <1>2, <1>4, <1>6 DEF FlushStep, FlushDeps, FlushBank, FlushAgain, FlushDone, RecordDepent
<1>7. CASE GcStep
  BY <1>3, <1>7 DEF GcStep, GcSkip, GcBegin, GcCopy, GcEnd, GcRound
<1>8. CASE ChkptStep
  BY <1>4, <1>8 DEF ChkptStep, RecordMapent, RecordTag, PersistMap, EraseMap, EraseLog
<1>9. CASE SummaryPage
  BY <1>4, <1>9 DEF SummaryPage
<1>10. CASE PoolStep
  BY <1>1, <1>2, <1>4, <1>10 DEF PoolStep, PoolWriteBuf, EraseVt
<1>11. CASE \/ HostFlush \/ IdlePool \/ Timer
           \/ \E c \in WriteCmds : HostWrite(c[1], c[2])
  BY <1>4, <1>11 DEF HostFlush, IdlePool, Timer, HostWrite
<1>12. CASE UNCHANGED vars
  BY <1>4, <1>12 DEF vars
<1>13. CASE CrashAndRecover
  BY <1>13 DEF CrashAndRecover
<1> QED
  BY <1>5, <1>6, <1>7, <1>8, <1>9, <1>10, <1>11, <1>12, <1>13 DEF Next, FtlStep

\* Writing only goes on after the last tag: with nothing issued since, no write runs.
LEMMA SavedAllIdle ==
  ASSUME TypeOK, EpochInv, TagShape, Live, Tagged, Saved = Issued
  PROVE  ~InWrite /\ Issued = g_epoch
<1>1. Saved <= g_epoch /\ Issued \in Nat /\ g_epoch \in Nat /\ Saved \in Nat
  BY IssuedType, SavedType DEF TagShape
<1> QED
  BY <1>1 DEF EpochInv, Live, Issued

\* What a step does to the number of writes and to what the tag covers.
LEMMA SavedSteps ==
  ASSUME TypeOK, EpochInv, LogInv, [Next]_vars, pc # "recovered", pc' # "recovered",
         ~RecordTag, Tagged', Saved' = Issued'
  PROVE  /\ Tagged /\ Saved = Issued /\ Saved' = Saved /\ From' = From /\ hist' = hist
         /\ ~EraseLog /\ Act' = Act
<1>1. ~EraseLog
  BY DEF EraseLog, Tagged, TagsOf
<1>2. Tagged
  <2> SUFFICES ASSUME ~Tagged  PROVE FALSE
    OBVIOUS
  <2>1. TagShape
    BY DEF LogInv, Live
  <2>2. log' = log
    BY <1>1, <2>1, CtrlSteps DEF TagShape, Steady, Ends, RecordMapent, PersistMap, EraseMap, Late
  <2> QED
    BY <2>2, SameLog
<1>3. Saved' = Saved /\ From' = From /\ Act' = Act
  BY <1>1, <1>2, Growing DEF LogKeeps
<1>4. Saved <= g_epoch /\ g_epoch <= Issued /\ Issued <= Issued' /\ Issued \in Nat
      /\ Issued' \in Nat /\ Saved \in Nat /\ g_epoch \in Nat
  BY <1>2, IssuedType, SavedType, HistGrows DEF LogInv, Live, TagShape, EpochInv, Issued
<1>5. Saved = Issued /\ Issued' = Issued
  BY <1>3, <1>4
<1>6. hist' = hist
  <2>1. CASE \E c \in WriteCmds : HostWrite(c[1], c[2])
    <3>1. Len(hist') = Len(hist) + 1
      BY <2>1 DEF HostWrite, TypeOK
    <3> QED
      BY <1>4, <1>5, <3>1 DEF Issued
  <2>2. CASE ~\E c \in WriteCmds : HostWrite(c[1], c[2])
    <3>1. pc = "idle" => hist' = hist
      <4> USE DEF ghosts
      <4>1. CASE IdlePool \/ HostFlush \/ Timer \/ UNCHANGED vars
        BY <4>1 DEF IdlePool, HostFlush, Timer, vars
      <4>2. CASE FtlStep /\ pc = "idle"
        BY <4>2 DEF FtlStep, WriteStep, WritePool, LookupMiss, LookupHit, CleanPool,
                    CleanFound, DepFull, Written, FlushStep, FlushDeps, FlushBank,
                    FlushAgain, FlushDone, GcStep, GcSkip, GcBegin, GcCopy, GcEnd, GcRound,
                    ChkptStep, RecordMapent, RecordTag, PersistMap, EraseMap, EraseLog,
                    SummaryPage, NextProgram, PoolStep
      <4> QED
        BY <2>2, <4>1, <4>2 DEF Next, CrashAndRecover
    <3> QED
      BY <3>1, HistGrows
  <2> QED
    BY <2>1, <2>2
<1> QED
  BY <1>1, <1>2, <1>3, <1>5, <1>6

\* A page that is written, an entry or a dependency means a write that the
\* tag does not cover.
LEMMA NextFreshTail ==
  ASSUME TypeOK, EpochInv, FlushInv, LogInv, [Next]_vars, pc # "recovered", pc' # "recovered"
  PROVE  FreshTail'
<1> SUFFICES ASSUME Tagged', Saved' = Issued'
             PROVE  /\ AllClean' /\ deps' = <<>> /\ mapents' = <<>>
                    /\ \A j \in DOMAIN log' : j > From' => log'[j].type = "tag"
  BY DEF FreshTail
<1>1. TagShape /\ FreshTail
  BY DEF LogInv, Live
<1>2. CASE RecordTag
  <2>1. AllClean' /\ deps' = <<>> /\ mapents' = <<>>
    BY <1>2 DEF RecordTag, FlushInv, AllClean, Clean, DirtyBufs, wbuf, chkpt
  <2>2. /\ log' = Append(log, Tag(g_epoch, active))
        /\ \/ From' = Len(log) + 1
           \/ Tagged /\ Saved = Issued /\ From' = From
    BY <1>1, <1>2, TagFacts
  <2>3. PICK pg : pg = Tag(g_epoch, active)
    OBVIOUS
  <2>4. pg.type = "tag"
    BY <2>3 DEF Tag
  <2>5. log \in Seq(LogPage)
    BY DEF TypeOK
  <2>6. /\ \A j \in DOMAIN log' : j \in 1..(Len(log) + 1)
        /\ log'[Len(log) + 1] = pg /\ \A j \in 1..Len(log) : log'[j] = log[j]
    BY <2>2, <2>3, <2>5
  <2>7. \A j \in DOMAIN log' : j > From' => log'[j].type = "tag"
    <3>1. CASE From' = Len(log) + 1
      BY <2>5, <2>6, <3>1
    <3>2. CASE Tagged /\ Saved = Issued /\ From' = From
      <4>1. \A j \in 1..Len(log) : j > From => log[j].type = "tag"
        BY <1>1, <2>5, <3>2 DEF FreshTail
      <4>2. Len(log) \in Nat
        BY <2>5
      <4> QED
        BY <2>4, <2>6, <3>2, <4>1, <4>2
    <3> QED
      BY <2>2, <3>1, <3>2
  <2> QED
    BY <2>1, <2>7
<1>3. CASE ~RecordTag
  <2>1. Tagged /\ Saved = Issued /\ From' = From /\ ~EraseLog
    BY <1>3, SavedSteps
  <2>2. AllClean' /\ deps' = <<>> /\ mapents' = <<>>
    BY <1>1, <2>1, CleanStays, SavedAllIdle DEF FreshTail, Live
  <2>3. log' = log
    BY <1>1, <1>3, <2>1, LogSteps DEF FreshTail, LogsDeps, LogsMap
  <2> QED
    BY <1>1, <2>1, <2>2, <2>3 DEF FreshTail
<1> QED
  BY <1>2, <1>3

\* Map entries are appended between a flush and a tag only.
LEMMA NextLogTail ==
  ASSUME TypeOK, EpochInv, FlushInv, LogInv, [Next]_vars, pc # "recovered", pc' # "recovered",
         FreshTail'
  PROVE  LogTail'
<1> SUFFICES ASSUME Tagged'
             PROVE  LogTail'
  BY DEF LogTail
<1>1. TagShape /\ LogTail /\ BackInv /\ log \in Seq(LogPage)
  BY DEF LogInv, Live, TypeOK
<1>2. CASE RecordTag
  <2>1. Saved' = Issued'
    BY <1>1, <1>2, TagFacts
  <2>2. \A j \in DOMAIN log' : j > From' => log'[j].type = "tag"
    BY <2>1 DEF FreshTail
  <2>3. /\ log' = Append(log, Tag(g_epoch, active))
        /\ \/ From' = Len(log) + 1
           \/ Tagged /\ Saved = Issued /\ From' = From
    BY <1>1, <1>2, TagFacts
  <2>4. CASE From' = Len(log) + 1
    <3>1. \A j \in DOMAIN log' : ~(j > From')
      BY <1>1, <2>3, <2>4
    <3> QED
      BY <3>1 DEF LogTail
  <2>5. CASE Tagged /\ Saved = Issued /\ From' = From
    <3>1. Issued = g_epoch /\ g_epoch \in Nat /\ Saved \in Nat
      BY <1>1, <2>5, SavedAllIdle, IssuedType, SavedType DEF Live
    <3>2. pc = "tag" /\ back = "close"
      BY <1>1, <1>2, <2>5, <3>1 DEF RecordTag, BackInv
    <3>3. pc' = "persist"
      BY <1>2, <3>2 DEF RecordTag
    <3> QED
      BY <2>2, <3>3 DEF LogTail, Fresh
  <2> QED
    BY <2>3, <2>4, <2>5
<1>3. CASE EraseLog
  BY <1>3 DEF EraseLog, Tagged, TagsOf
<1>4. CASE ~RecordTag /\ ~EraseLog /\ ~Tagged
  <2>1. log' = log
    BY <1>1, <1>4, CtrlSteps DEF TagShape, Steady, Ends, RecordMapent, PersistMap, EraseMap, Late
  <2> QED
    BY <1>4, <2>1, SameLog
<1>5. CASE ~RecordTag /\ ~EraseLog /\ Tagged
  <2>1. From' = From /\ (log' = log \/ LogsDeps \/ LogsMap)
    BY <1>5, Growing DEF LogKeeps
  <2>2. CASE log' = log
    <3>1. /\ pc \in {"mapent", "tag"} => pc' \in {"mapent", "tag"}
          /\ pc \in Fresh => pc' \in Fresh
      BY <1>5, <2>2, CtrlSteps DEF Steady, Ends, RecordMapent, PersistMap, EraseMap, Late, Fresh
    <3> QED
      BY <1>1, <1>5, <2>1, <2>2, <3>1 DEF LogTail
  <2>3. CASE LogsDeps
    <3>1. LogGrows("depent")
      BY <1>5, <2>3, DepsKeep
    <3>2. pc \in {"depfull", "dep"}
      BY <2>3 DEF LogsDeps, DepFull, FlushDeps
    <3>3. \A j \in DOMAIN log : j > From => log[j].type = "depent"
      BY <1>1, <1>5, <3>2 DEF LogTail, Fresh
    <3>4. \A j \in DOMAIN log' : j \in DOMAIN log \/ j = Len(log) + 1
      BY <1>1, <3>1 DEF LogGrows
    <3> QED
      BY <2>1, <3>1, <3>3, <3>4 DEF LogTail, LogGrows
  <2>4. CASE LogsMap
    <3>1. LogGrows("mapent")
      BY <1>5, <2>4, DepsKeep
    <3>2. pc = "mapent" /\ pc' = "mapent"
      BY <2>4 DEF LogsMap, RecordMapent
    <3>4. \A j \in DOMAIN log' : j \in DOMAIN log \/ j = Len(log) + 1
      BY <1>1, <3>1 DEF LogGrows
    <3> QED
      BY <1>1, <1>5, <2>1, <3>1, <3>2, <3>4 DEF LogTail, LogGrows, Fresh
  <2> QED
    BY <2>1, <2>2, <2>3, <2>4
<1> QED
  BY <1>2, <1>3, <1>4, <1>5

\* A step without a new tag leaves what the last tag covers as it was.
LEMMA SavedKept ==
  ASSUME TypeOK, LogInv, [Next]_vars, pc # "recovered", pc' # "recovered", ~RecordTag
  PROVE  Tagged' => Tagged /\ Saved' = Saved /\ From' = From /\ Act' = Act
<1>1. CASE EraseLog
  BY <1>1 DEF EraseLog, Tagged, TagsOf
<1>2. CASE ~EraseLog /\ Tagged
  BY <1>2, Growing DEF LogKeeps
<1>3. CASE ~EraseLog /\ ~Tagged
  <2>1. log' = log
    BY <1>3, CtrlSteps DEF LogInv, Live, TagShape, Steady, Ends, RecordMapent, PersistMap, EraseMap, Late
  <2> QED
    BY <1>3, <2>1, SameLog
<1> QED
  BY <1>1, <1>2, <1>3

\* A map table is committed with the epoch of the last write.
LEMMA NextMapAge ==
  ASSUME TypeOK, EpochInv, LogInv, [Next]_vars, pc # "recovered", pc' # "recovered"
  PROVE  MapAge'
<1>1. /\ TagShape /\ BackInv /\ MapAge /\ g_epoch \in Nat /\ g_epoch \in Epochs
      /\ mapIdx \in {0, 1} /\ Issued \in Nat
  BY IssuedType DEF LogInv, Live, TypeOK
<1>2. CASE RecordTag
  <2>1. /\ Saved' = g_epoch /\ g_epoch' = g_epoch /\ UNCHANGED maps
        /\ back = "close" => back' = back /\ pc' = "persist"
    BY <1>1, <1>2, TagFacts DEF RecordTag
  <2> QED
    BY <1>1, <2>1 DEF MapAge, Fresh
<1>3. CASE EraseLog
  <2>1. ~Tagged' /\ UNCHANGED <<maps, g_epoch, back>> /\ pc' = "tag"
    BY <1>3 DEF EraseLog, Tagged, TagsOf
  <2> QED
    BY <1>1, <2>1 DEF MapAge
<1>4. CASE PersistMap
  <2>1. /\ pc = "persist" /\ pc' = "erasemap" /\ UNCHANGED <<log, hist, g_epoch, back>>
        /\ maps' = [maps EXCEPT ![mapIdx] = [epoch |-> EpochPred(g_epoch), map |-> pgmap]]
    BY <1>4 DEF PersistMap, ghosts
  <2>2. Tagged' /\ Saved' = Saved /\ Saved = Issued
    BY <1>1, <2>1, SameLog DEF TagShape, Fresh
  <2>3. Issued = g_epoch
    BY <1>1, <2>1 DEF EpochInv, InWrite, Writing, Issued
  <2>4. EpochPred(g_epoch) # 0 => g_epoch >= 2 \/ g_epoch = 0
    BY <1>1 DEF EpochPred
  <2>5. g_epoch = 0 => back = "close"
    BY <1>1, <2>1 DEF BackInv, Fresh
  <2>6. \A i \in {0, 1} : maps'[i].epoch = IF i = mapIdx THEN EpochPred(g_epoch) ELSE maps[i].epoch
    BY <1>1, <2>1 DEF TypeOK
  <2>7. ASSUME NEW i \in {0, 1}, maps'[i].epoch # 0
        PROVE  \/ g_epoch' >= 2 /\ (Tagged' => Saved' >= 1)
               \/ g_epoch' = 0 /\ back' = "close" /\ pc' \in Fresh
    <3>1. CASE i = mapIdx
      BY <1>1, <2>1, <2>2, <2>3, <2>4, <2>5, <2>6, <2>7, <3>1 DEF Fresh
    <3>2. CASE i # mapIdx
      BY <1>1, <2>1, <2>2, <2>3, <2>6, <2>7, <3>2 DEF Fresh, MapAge
    <3> QED
      BY <3>1, <3>2
  <2> QED
    BY <2>7 DEF MapAge
<1>5. CASE EraseMap
  <2>1. /\ pc = "erasemap" /\ pc' \in Fresh /\ UNCHANGED <<log, g_epoch, back>>
        /\ maps' = [maps EXCEPT ![mapIdx] = NoMap]
    BY <1>5 DEF EraseMap, Fresh
  <2>2. (Tagged' <=> Tagged) /\ Saved' = Saved
    BY <2>1, SameLog
  <2>6. \A i \in {0, 1} : maps'[i].epoch = IF i = mapIdx THEN 0 ELSE maps[i].epoch
    BY <1>1, <2>1 DEF TypeOK, NoMap
  <2> QED
    BY <1>1, <2>1, <2>2, <2>6 DEF MapAge
<1>6. CASE RecordMapent /\ mapents = <<>>
  <2>1. pc = "mapent" /\ UNCHANGED <<log, maps, g_epoch>>
    BY <1>6 DEF RecordMapent
  <2>2. (Tagged' <=> Tagged) /\ Saved' = Saved
    BY <2>1, SameLog
  <2> QED
    BY <1>1, <2>1, <2>2 DEF MapAge, Fresh
<1>7. CASE Ends
  <2>1. pc \in {"written", "gc"} /\ UNCHANGED <<log, maps>> /\ g_epoch' = g_epoch + 1
    BY <1>7 DEF Ends
  <2>2. (Tagged' <=> Tagged) /\ Saved' = Saved
    BY <2>1, SameLog
  <2> QED
    BY <1>1, <2>1, <2>2 DEF MapAge, Fresh
<1>8. CASE Steady /\ ~RecordTag
  <2>1. /\ UNCHANGED <<maps, g_epoch>> /\ (pc \in Fresh \cup {"tag"} => UNCHANGED <<pc, back>>)
    BY <1>8 DEF Steady, Fresh, Late
  <2>2. Tagged' => Tagged /\ Saved' = Saved
    BY <1>8, SavedKept
  <2> QED
    BY <1>1, <2>1, <2>2 DEF MapAge
<1> QED
  BY <1>2, <1>3, <1>4, <1>5, <1>6, <1>7, <1>8, CtrlSteps

\* Commit and erase go to the two blocks in turn.
LEMMA NextMaps ==
  ASSUME TypeOK, LogInv, [Next]_vars, pc # "recovered", pc' # "recovered"
  PROVE  MapsInv'
<1>1. MapsInv /\ mapIdx \in {0, 1} /\ maps \in [{0, 1} -> MapTable]
  BY DEF LogInv, Live, TypeOK
<1>2. CASE RecordTag \/ EraseLog \/ Ends \/ (RecordMapent /\ mapents = <<>>)
  <2>1. UNCHANGED <<maps, mapIdx>> /\ pc # "erasemap" /\ pc' \notin {"erasemap", "eraselog"}
    BY <1>2 DEF RecordTag, EraseLog, Ends, RecordMapent
  <2> QED
    BY <1>1, <2>1 DEF MapsInv
<1>3. CASE PersistMap
  <2>1. /\ pc = "persist" /\ pc' = "erasemap" /\ mapIdx' = 1 - mapIdx /\ pgmap' = pgmap
        /\ maps' = [maps EXCEPT ![mapIdx] = [epoch |-> EpochPred(g_epoch), map |-> pgmap]]
    BY <1>3 DEF PersistMap, tables
  <2>2. 1 - mapIdx' = mapIdx
    BY <1>1, <2>1
  <2>3. maps'[mapIdx].map = pgmap
    BY <1>1, <2>1
  <2> QED
    BY <2>1, <2>2, <2>3 DEF MapsInv
<1>4. CASE EraseMap
  <2>1. /\ pc = "erasemap" /\ mapIdx' = mapIdx /\ pgmap' = pgmap
        /\ maps' = [maps EXCEPT ![mapIdx] = NoMap]
    BY <1>4 DEF EraseMap, tables
  <2>2. 1 - mapIdx \in {0, 1} /\ 1 - mapIdx # mapIdx
    BY <1>1
  <2>3. maps'[mapIdx].epoch = 0 /\ maps'[1 - mapIdx] = maps[1 - mapIdx]
    BY <1>1, <2>1, <2>2 DEF NoMap
  <2> QED
    BY <1>1, <2>1, <2>3 DEF MapsInv
<1>5. CASE Steady
  BY <1>1, <1>5 DEF MapsInv, Steady, Late
<1> QED
  BY <1>2, <1>3, <1>4, <1>5, CtrlSteps

\* Every step keeps LogInv.
LEMMA NextLogInv ==
  ASSUME TypeOK, EpochInv, FlushInv, TagInv, LogInv, RoomLeft, [Next]_vars
  PROVE  LogInv'
<1>1. CASE pc # "recovered" /\ pc' # "recovered"
  BY <1>1, NextTagShape, NextBack, NextFreshTail, NextLogTail, NextMapAge, NextMaps DEF LogInv
<1>2. CASE pc' = "recovered"
  BY <1>2 DEF LogInv, Live
<1>3. CASE pc = "recovered" /\ pc' # "recovered"
  <2>1. pc' = pc
    BY <1>3, RecoveredStays DEF vars
  <2> QED
    BY <1>3, <2>1
<1> QED
  BY <1>1, <1>2, <1>3

\* The log of a new drive: the tag of format().
LEMMA InitTag ==
  ASSUME Init
  PROVE  /\ Tagged /\ Saved = 0 /\ From = 1 /\ Act = active /\ TagsOf(log) = {1} /\ Len(log) = 1
         /\ log[1] = Tag(0, active) /\ LastTag(log) = Tag(0, active)
         /\ Issued = 0
<1>1. log = <<Tag(0, active)>> /\ hist = <<>>
  BY DEF Init
<1>2. PICK pg : pg = Tag(0, active)
  OBVIOUS
<1>3. pg.type = "tag" /\ pg.epoch = EpochPred(0) /\ pg.active = active
  BY <1>2 DEF Tag
<1>4. log = <<pg>> /\ Len(log) = 1 /\ log[1] = pg /\ DOMAIN log = {1}
  BY <1>1, <1>2
<1>5. TagsOf(log) = {1}
  BY <1>3, <1>4 DEF TagsOf
<1>6. Max({1}) = 1 /\ Min({1}) = 1
  <2>1. \A S : S = {1} => Max(S) = 1 /\ Min(S) = 1
    <3>1. SUFFICES ASSUME NEW S, S = {1}  PROVE Max(S) = 1 /\ Min(S) = 1
      OBVIOUS
    <3>2. 1 \in S /\ \A y \in S : y \in Int /\ y <= 1 /\ 1 <= y
      BY <3>1
    <3> QED
      BY <3>2, MaxIs, MinIs
  <2> QED
    BY <2>1
<1>7. LastTag(log) = pg
  BY <1>4, <1>5, <1>6 DEF LastTag
<1>8. {i \in TagsOf(log) : log[i].epoch = LastTag(log).epoch} = {1}
  BY <1>4, <1>5, <1>7
<1>9. ReachLast(log) = 1
  BY <1>6, <1>8 DEF ReachLast
<1>10. EpochSucc(EpochPred(0)) = 0
  BY EpochSteps
<1> QED
  BY <1>1, <1>2, <1>3, <1>4, <1>5, <1>7, <1>9, <1>10 DEF Tagged, Saved, From, Act, Issued

\* Format writes the first tag.
LEMMA InitLogInv ==
  ASSUME Init
  PROVE  LogInv
<1>1. /\ Tagged /\ Saved = 0 /\ From = 1 /\ TagsOf(log) = {1} /\ Len(log) = 1
      /\ log[1] = Tag(0, active) /\ Issued = 0
  BY InitTag
<1>2. /\ pc = "idle" /\ back = "host" /\ g_epoch = 0 /\ mapIdx = 1
      /\ maps = [i \in {0, 1} |-> NoMap] /\ deps = <<>> /\ mapents = <<>>
      /\ cache = [b \in Banks |-> [i \in Bufs |-> NoEnt]] /\ log = <<Tag(0, active)>>
  BY DEF Init
<1>3. DOMAIN log = {1}
  BY <1>2
<1>4. \A j \in DOMAIN log : ~(j > From)
  BY <1>1, <1>3
<1>5. TagShape
  <2>1. EpochSucc(log[1].epoch) = 0
    BY <1>1, EpochSteps DEF Tag
  <2> QED
    BY <1>1, <1>2, <2>1 DEF TagShape, Fresh
<1>6. \A i \in {0, 1} : maps[i].epoch = 0
  BY <1>2 DEF NoMap
<1>7. AllClean
  BY <1>2 DEF AllClean, Clean, DirtyBufs, NoEnt
<1>8. LogTail /\ FreshTail
  BY <1>2, <1>4, <1>7 DEF LogTail, FreshTail
<1>9. BackInv /\ MapAge /\ MapsInv
  BY <1>2, <1>6 DEF BackInv, MapAge, MapsInv, Fresh
<1> QED
  BY <1>5, <1>8, <1>9 DEF LogInv

-----------------------------------------------------------------------------
(* Which pages are programmed, and what the scan makes of them.            *)

\* Buffer i of bank b goes to flash as the page pg.
Dequeued(b, i, e, pg) ==
  /\ i \in Bufs /\ e = cache[b][i] /\ e.dirty
  /\ e.lpn \in Lpns /\ e.epoch \in Epochs /\ e.span \in Nat /\ pg \in DataPage
  /\ pg.lpn = e.lpn /\ pg.epoch = e.epoch /\ pg.span = e.span /\ pg.ver = e.epoch + 1
  /\ Bank(pg.lpn) = b
  /\ \E released : Program(b, pg, released)
  /\ cache' = [cache EXCEPT ![b][i].dirty = FALSE]
  /\ UNCHANGED <<lru, deps, timer>>

\* Page p of the victim is copied as the page pg.
Copied(b, p, pg) ==
  /\ b = bank /\ b \in Banks /\ p \in Nat /\ p < Len(flash[b][victim].pages)
  /\ pg \in DataPage /\ pg.epoch = GcTag /\ Bank(pg.lpn) = b
  /\ pgmap[pg.lpn] = [blk |-> victim, page |-> p]
  /\ pg.ver = flash[b][victim].pages[p + 1].ver
  /\ \E released : Program(b, pg, released)

\* A dequeue programs the page of a dirty buffer ...
LEMMA DequeueIs ==
  ASSUME TypeOK, CacheHome, NEW b \in Banks, Dequeue(b)
  PROVE  \E i, e, pg : Dequeued(b, i, e, pg)
<1>1. PICK i \in Bufs :
        /\ i \in DirtyBufs(b)
        /\ Program(b, [lpn |-> cache[b][i].lpn, span |-> cache[b][i].span,
                       epoch |-> cache[b][i].epoch,
                       ver |-> cache[b][i].epoch + 1],
                   pgmap[cache[b][i].lpn].blk)
        /\ cache' = [cache EXCEPT ![b][i].dirty = FALSE]
        /\ UNCHANGED <<lru, deps, timer>>
  BY DEF Dequeue, LruLast
<1>2. PICK e, f : e = cache[b][i] /\ f = pgmap[e.lpn].blk
  OBVIOUS
<1>3. /\ e.dirty
      /\ e.lpn \in Lpns /\ e.span \in Nat /\ e.epoch \in Epochs
      /\ e.epoch + 1 \in Nat /\ e.lpn # NoLpn
  <2>1. e \in CacheEnt /\ e.dirty
    BY <1>1, <1>2 DEF TypeOK, DirtyBufs
  <2> QED
    BY <2>1, RecoveryAssumption DEF CacheEnt, NoEnt, Epochs, NoLpn
<1>4. PICK pg : pg = [lpn |-> e.lpn, span |-> e.span, epoch |-> e.epoch,
                      ver |-> e.epoch + 1]
  OBVIOUS
<1>5. /\ pg \in DataPage /\ pg.lpn = e.lpn /\ pg.ver = e.epoch + 1
      /\ pg.epoch = e.epoch /\ pg.span = e.span
      /\ Program(b, pg, f)
  BY <1>1, <1>2, <1>3, <1>4 DEF DataPage
<1>6. Bank(pg.lpn) = b
  BY <1>2, <1>3, <1>5 DEF CacheHome
<1> QED
  BY <1>1, <1>2, <1>3, <1>5, <1>6 DEF Dequeued

\* ... and a copy a page of the victim that the map leads to.
LEMMA GcCopyIs ==
  ASSUME TypeOK, SInv, GcCopy
  PROVE  \E p, pg : Copied(bank, p, pg)
<1>1. PICK b, v, fl : b = bank /\ v = victim /\ fl = flash[b]
  OBVIOUS
<1>2. /\ pc = "gccopy" /\ b \in Banks /\ v \in Blks /\ fl \in [Blks -> Block]
  BY <1>1 DEF GcCopy, TypeOK
<1>3. PICK p \in ValidLeft :
        Program(b, [flash[b][v].pages[p + 1] EXCEPT !.span = 0, !.epoch = GcTag], NoBlk)
  BY <1>1 DEF GcCopy
<1>4. PICK x : x = fl[v].pages[p + 1]
  OBVIOUS
<1>5. /\ p \in Nat /\ p < Len(fl[v].pages)
      /\ pgmap[x.lpn] = [blk |-> v, page |-> p]
  BY <1>1, <1>3, <1>4 DEF ValidLeft, Pages
<1>6. x \in DataPage /\ p + 1 \in DOMAIN fl[v].pages
  <2>1. fl[v].pages \in Seq(DataPage)
    BY <1>2 DEF Block
  <2>2. p + 1 \in 1..Len(fl[v].pages)
    BY <1>5, <2>1
  <2> QED
    BY <1>4, <2>1, <2>2, ElementOfSeq
<1>7. PICK pg : pg = [x EXCEPT !.span = 0, !.epoch = GcTag]
  OBVIOUS
<1>8. pg \in DataPage /\ pg.lpn = x.lpn /\ pg.ver = x.ver /\ pg.epoch = GcTag
  <2>1. GcTag \in Epochs /\ 0 \in Nat
    BY RecoveryAssumption DEF GcTag, Epochs
  <2> QED
    BY <1>6, <1>7, <2>1 DEF DataPage
<1>9. Bank(pg.lpn) = b
  <2>1. HomeOk(b, fl)
    BY <1>1, <1>2, BankOkNow
  <2> QED
    BY <1>2, <1>4, <1>6, <1>8, <2>1 DEF HomeOk
<1>10. Program(b, pg, NoBlk)
  BY <1>1, <1>3, <1>4, <1>7
<1> QED
  BY <1>1, <1>2, <1>4, <1>5, <1>8, <1>9, <1>10 DEF Copied

\* All the places recovery scans after the last tag.
Scan == AllRetrieved(flash, Act)

\* x is the page just programmed.
ScanAdds(b, pg, x) ==
  /\ Scan' = Scan \cup {x} /\ x.ppn = active[b] /\ x.pg = pg
  /\ \E n, p \in Nat : x.at = <<b, n, p>>
  /\ Latest(Scan, x)

\* What is scanned is complete and in order: once there is a tag, every page
\* programmed since is found.
ChainInv == Live /\ Tagged => Chains(Act)

\* Between two tags each program, and nothing else, adds its page to what is
\* scanned.
LEMMA NextScan ==
  ASSUME TypeOK, SInv, TypeOK', SInv', RoomLeft, RoomLeft', LogInv, ChainInv,
         [Next]_vars, pc # "recovered", pc' # "recovered", ~RecordTag, Tagged'
  PROVE  /\ Chains(Act)'
         /\ \/ Scan' = Scan /\ Chains(Act)' /\ ~GcCopy /\ \A b \in Banks : ~Dequeue(b)
            \/ \E b \in Banks : \E i, e, pg, x : Dequeued(b, i, e, pg) /\ ScanAdds(b, pg, x)
            \/ GcCopy /\ \E p, pg, x : Copied(bank, p, pg) /\ ScanAdds(bank, pg, x)
<1>1. Tagged /\ Act' = Act
  BY SavedKept
<1>2. PICK ta : ta = Act
  OBVIOUS
<1>3. ta \in [Banks -> Ppn] /\ Chains(ta)
  BY <1>1, <1>2, SavedType DEF ChainInv, Live, Chains
<1>4. ScanStays(ta) => Chains(Act)' /\ Scan' = Scan
  BY <1>1, <1>2 DEF ScanStays, Scan, Chains
<1>5. ASSUME NEW b \in Banks, NEW pg \in DataPage, Bank(pg.lpn) = b,
             \E released : Program(b, pg, released)
      PROVE  Chains(Act)' /\ \E x : ScanAdds(b, pg, x)
  <2>1. PICK released : Program(b, pg, released)
    BY <1>5
  <2>2. /\ Chains(ta)'
        /\ \E x : /\ AllRetrieved(flash', ta) = AllRetrieved(flash, ta) \cup {x}
                   /\ x.ppn = active[b] /\ x.pg = pg
                   /\ \E n, p \in Nat : x.at = <<b, n, p>>
                   /\ Latest(AllRetrieved(flash, ta), x)
    BY <1>3, <1>5, <2>1, ProgramScan
  <2>3. Chains(Act)'
    BY <1>1, <1>2, <2>2 DEF Chains
  <2>4. AllRetrieved(flash', ta) = Scan' /\ AllRetrieved(flash, ta) = Scan
    BY <1>1, <1>2 DEF Scan
  <2> QED
    BY <2>2, <2>3, <2>4 DEF ScanAdds
<1>6. CASE \E b \in Banks : Dequeue(b)
  <2>1. PICK b \in Banks : Dequeue(b)
    BY <1>6
  <2>2. PICK i, e, pg : Dequeued(b, i, e, pg)
    BY <2>1, DequeueIs DEF SInv
  <2>3. Chains(Act)' /\ \E x : ScanAdds(b, pg, x)
    BY <1>5, <2>2 DEF Dequeued
  <2> QED
    BY <2>2, <2>3
<1>7. CASE GcCopy
  <2>1. PICK p, pg : Copied(bank, p, pg)
    BY <1>7, GcCopyIs
  <2>2. bank \in Banks
    BY <2>1 DEF Copied
  <2>3. Chains(Act)' /\ \E x : ScanAdds(bank, pg, x)
    BY <1>5, <2>1, <2>2 DEF Copied
  <2> QED
    BY <1>7, <2>1, <2>3
<1>8. CASE ~GcCopy /\ \A b \in Banks : ~Dequeue(b)
  BY <1>3, <1>4, <1>8, ScanSteps
<1> QED
  BY <1>6, <1>7, <1>8

\* Every step keeps the chains.
LEMMA NextChain ==
  ASSUME TypeOK, EpochInv, SInv, TypeOK', SInv', RoomLeft, RoomLeft', LogInv, ChainInv,
         [Next]_vars
  PROVE  ChainInv'
<1> SUFFICES ASSUME pc' # "recovered", Tagged'
             PROVE  Chains(Act)'
  BY DEF ChainInv, Live
<1>1. pc # "recovered"
  BY RecoveredStays DEF vars
<1>2. CASE RecordTag
  <2>1. Act' = active
    BY <1>1, <1>2, TagFacts DEF LogInv, Live
  <2>2. \A b \in Banks : ChainOk(flash'[b], ring'[b], active[b])
    BY <1>2, TagScan
  <2> QED
    BY <2>1, <2>2 DEF Chains
<1>3. CASE ~RecordTag
  BY <1>1, <1>3, NextScan
<1> QED
  BY <1>2, <1>3

\* Right after a tag there is nothing to scan.
FreshScan == Live /\ Tagged /\ Saved = Issued => Scan = {}

\* The first program after a tag means a write issued after it.
LEMMA NextFreshScan ==
  ASSUME TypeOK, EpochInv, SInv, TypeOK', SInv', RoomLeft, RoomLeft', LogInv, ChainInv,
         FreshScan, [Next]_vars
  PROVE  FreshScan'
<1> SUFFICES ASSUME pc' # "recovered", Tagged', Saved' = Issued'
             PROVE  Scan' = {}
  BY DEF FreshScan, Live
<1>1. pc # "recovered"
  BY RecoveredStays DEF vars
<1>2. CASE RecordTag
  <2>1. Act' = active
    BY <1>1, <1>2, TagFacts DEF LogInv, Live
  <2>2. AllRetrieved(flash', active) = {}
    BY <1>2, TagScan
  <2> QED
    BY <2>1, <2>2 DEF Scan
<1>3. CASE ~RecordTag
  <2>1. Tagged /\ Saved = Issued
    BY <1>1, <1>3, SavedSteps
  <2>2. ~InWrite /\ AllClean
    BY <1>1, <2>1, SavedAllIdle DEF LogInv, Live, FreshTail
  <2>3. ~GcCopy
    BY <2>2 DEF GcCopy, InWrite
  <2>4. \A b \in Banks : ~Dequeue(b)
    BY <2>2 DEF Dequeue, LruLast, AllClean, Clean
  <2>5. Scan' = Scan
    <3>1. \A b \in Banks : \A i, e, pg : ~Dequeued(b, i, e, pg)
      BY <2>2 DEF Dequeued, AllClean, Clean, DirtyBufs
    <3> QED
      BY <1>1, <1>3, <2>3, <3>1, NextScan
  <2> QED
    BY <1>1, <2>1, <2>5 DEF FreshScan, Live
<1> QED
  BY <1>2, <1>3

-----------------------------------------------------------------------------
(* Before the first tag of a write.                                        *)

\* Before the first write only the active block is used, and before the first
\* checkpoint there is nothing garbage collection may take.
ZeroInv ==
  Live => /\ Issued = 0 => \A b \in Banks : /\ ring[b].rsv = ring[b].tail
                                            /\ Used(ring[b]) = 1
          /\ Tagged /\ Saved = 0 => \A b \in Banks : ring[b].rsv = ring[b].tail

\* Before the first write no buffer is dirty.
LEMMA NothingDirty ==
  ASSUME TypeOK, EpochInv, CacheInv, pc # "recovered", Issued = 0
  PROVE  AllClean /\ ~InWrite
<1>1. g_epoch = 0 /\ ~InWrite
  BY IssuedType DEF EpochInv, Issued
<1>2. ASSUME NEW b \in Banks, NEW i \in Bufs, cache[b][i].dirty
      PROVE  FALSE
  <2>1. PICK e : e = cache[b][i]
    OBVIOUS
  <2>2. e \in CacheEnt /\ e.dirty
    BY <1>2, <2>1 DEF TypeOK
  <2>3. e.lpn # NoLpn /\ e.epoch \in Nat
    BY <2>2, RecoveryAssumption DEF CacheEnt, NoEnt, Epochs, NoLpn
  <2>4. Older(e)
    BY <2>1, <2>3 DEF CacheInv
  <2> QED
    BY <1>1, <2>3, <2>4 DEF Older
<1> QED
  BY <1>1, <1>2 DEF AllClean, Clean, DirtyBufs

\* With clean buffers and no write the ring stays, late erases apart.
LEMMA RingIdle ==
  ASSUME TypeOK, [Next]_vars, pc # "recovered", pc' # "recovered", AllClean, ~InWrite,
         ~RecordTag
  PROVE  ring' = ring \/ \E b \in Banks : EraseVt(b)
<1> USE DEF nand, wbuf, tables, chkpt, loops, gcvars, ghosts
<1>1. pool \in Banks
  BY DEF TypeOK
<1>2. pc \notin {"page", "lookup", "clean", "depfull", "written", "gc", "gccopy"}
  BY DEF InWrite, Writing
<1>3. ring' = ring \/ \E b \in Banks : EraseVt(b) \/ CloseBlock(b)
  <2>1. CASE Quiet
    BY <2>1 DEF Quiet
  <2>2. CASE Buffering
    BY <2>2 DEF Buffering, Dequeue, Program
  <2>3. CASE Closing
    BY <2>3 DEF Closing
  <2> QED
    BY <1>2, <2>1, <2>2, <2>3, SpaceSteps DEF GcBegin, GcCopy, GcEnd, CrashAndRecover
<1>4. CASE SummaryPage
  <2>1. PICK b \in Banks : NextProgram(b)
    BY <1>4 DEF SummaryPage
  <2>2. DirtyBufs(b) = {}
    BY DEF AllClean, Clean
  <2>3. ~HalfDirty(b)
    <3>1. NumBufs \div 2 \in Nat
      BY FtlAssumption
    <3>2. Cardinality(DirtyBufs(b)) = 0
      BY <2>2, FS_EmptySet
    <3> QED
      BY <3>1, <3>2 DEF HalfDirty
  <2> QED
    BY <1>2, <2>1, <2>2, <2>3 DEF NextProgram
<1>5. CASE ~SummaryPage
  <2>1. CASE WriteStep
    BY <1>2, <2>1 DEF WriteStep, WritePool, LookupMiss, LookupHit, CleanPool,
                    CleanFound, DepFull, Written
  <2>2. CASE FlushStep
    BY <2>2 DEF FlushStep, FlushDeps, FlushBank, FlushAgain, FlushDone, Dequeue, Program
  <2>3. CASE GcStep
    BY <1>2, <2>3 DEF GcStep, GcSkip, GcBegin, GcCopy, GcEnd, GcRound
  <2>4. CASE ChkptStep
    BY <2>4 DEF ChkptStep, RecordMapent, PersistMap, EraseMap, EraseLog
  <2>5. CASE PoolStep
    BY <1>1, <2>5 DEF PoolStep, PoolWriteBuf, Dequeue, Program
  <2>6. CASE \/ HostFlush \/ IdlePool \/ Timer
           \/ \E c \in WriteCmds : HostWrite(c[1], c[2])
    BY <2>6 DEF HostFlush, IdlePool, Timer, HostWrite
  <2>7. CASE UNCHANGED vars
    BY <2>7 DEF vars
  <2> QED
    BY <1>5, <2>1, <2>2, <2>3, <2>4, <2>5, <2>6, <2>7 DEF Next, FtlStep, CrashAndRecover
<1> QED
  BY <1>4, <1>5

\* A late erase leaves the pointers of the ring.
LEMMA EraseRing ==
  ASSUME TypeOK, NEW b \in Banks, EraseVt(b)
  PROVE  \A c \in Banks : /\ ring'[c].rsv = ring[c].rsv /\ ring'[c].tail = ring[c].tail
                          /\ Used(ring'[c]) = Used(ring[c])
<1>1. \A c \in Banks : ring'[c] = ring[c] \/ ring'[c] = VtErased(ring[c])
  BY DEF EraseVt, TypeOK
<1>2. \A c \in Banks : ring[c] \in RingType
  BY DEF TypeOK
<1> QED
  BY <1>1, <1>2 DEF VtErased, RingType, Used

\* Every step keeps ZeroInv.
LEMMA NextZero ==
  ASSUME TypeOK, EpochInv, CacheInv, SInv, RoomLeft, LogInv, ZeroInv, [Next]_vars
  PROVE  ZeroInv'
<1> SUFFICES ASSUME pc' # "recovered"
             PROVE  /\ Issued' = 0 => \A b \in Banks : /\ ring'[b].rsv = ring'[b].tail
                                                       /\ Used(ring'[b]) = 1
                    /\ Tagged' /\ Saved' = 0 => \A b \in Banks : ring'[b].rsv = ring'[b].tail
  BY DEF ZeroInv, Live
<1>1. pc # "recovered" /\ \A b \in Banks : ring[b] \in RingType
  BY RecoveredStays DEF vars, TypeOK
<1>2. ASSUME Issued' = 0
      PROVE  \A b \in Banks : ring'[b].rsv = ring'[b].tail /\ Used(ring'[b]) = 1
  <2>1. Issued = 0
    BY <1>2, HistGrows DEF Issued
  <2>2. AllClean /\ ~InWrite
    BY <1>1, <2>1, NothingDirty
  <2>3. \A b \in Banks : ring[b].rsv = ring[b].tail /\ Used(ring[b]) = 1
    BY <1>1, <2>1 DEF ZeroInv, Live
  <2>4. CASE RecordTag
    <3>1. SUFFICES ASSUME NEW b \in Banks
                   PROVE  ring'[b].rsv = ring'[b].tail /\ Used(ring'[b]) = 1
      OBVIOUS
    <3>2. PICK r, ac, fl : r = ring[b] /\ ac = active[b] /\ fl = flash[b]
      OBVIOUS
    <3>3. r \in RingType /\ ac \in Ppn /\ BankOk(fl, r, ac)
      BY <1>1, <3>2, BankOkNow
    <3>4. ring'[b] = PushRsv(r)
      BY <2>4, <3>2 DEF RecordTag
    <3>5. r.head = At(r, 1) /\ r.tail \in 0..(NumBlks - 1) /\ NumBlks \in Nat /\ NumBlks > 1
      BY <2>3, <3>2, <3>3, NumBlksAssumption DEF BankOk, RingOk, RingType, Idx
    <3>w. \A y \in 0..(2 * NumBlks - 1) : (y % NumBlks) = IF y < NumBlks THEN y ELSE y - NumBlks
      <4> SUFFICES ASSUME NEW y \in 0..(2 * NumBlks - 1)
                   PROVE  (y % NumBlks) = IF y < NumBlks THEN y ELSE y - NumBlks
        OBVIOUS
      <4>1. NumBlks \in Nat \ {0}
        BY NumBlksAssumption
      <4> QED
        BY <4>1, Wrap
    <3>6. (r.head + NumBlks - 1) % NumBlks = r.tail
      <4>1. CASE r.tail + 1 < NumBlks
        <5>1. r.head = r.tail + 1
          <6>1. PICK y : y = r.tail + 1
            OBVIOUS
          <6>2. y \in 0..(2 * NumBlks - 1) /\ y < NumBlks
            BY <3>5, <4>1, <6>1
          <6>3. (y % NumBlks) = y
            BY <3>w, <6>2
          <6> QED
            BY <3>5, <6>1, <6>3 DEF At
        <5>2. PICK y : y = r.tail + NumBlks
          OBVIOUS
        <5>3. y \in 0..(2 * NumBlks - 1) /\ r.head + NumBlks - 1 = y /\ ~(y < NumBlks)
          BY <3>5, <5>1, <5>2
        <5>4. (y % NumBlks) = y - NumBlks
          BY <3>w, <5>3
        <5> QED
          BY <3>5, <5>2, <5>3, <5>4
      <4>2. CASE ~(r.tail + 1 < NumBlks)
        <5>1. r.tail = NumBlks - 1
          BY <3>5, <4>2
        <5>2. r.head = 0
          <6>1. PICK y : y = r.tail + 1
            OBVIOUS
          <6>2. y \in 0..(2 * NumBlks - 1) /\ y = NumBlks
            BY <3>5, <5>1, <6>1
          <6>3. (y % NumBlks) = 0
            BY <3>w, <3>5, <6>2
          <6> QED
            BY <3>5, <6>1, <6>3 DEF At
        <5>3. PICK y : y = NumBlks - 1
          OBVIOUS
        <5>4. y \in 0..(2 * NumBlks - 1) /\ y < NumBlks /\ r.head + NumBlks - 1 = y
          BY <3>5, <5>2, <5>3
        <5>5. (y % NumBlks) = y
          BY <3>w, <5>4
        <5> QED
          BY <5>1, <5>3, <5>4, <5>5
      <4> QED
        BY <4>1, <4>2
    <3>7. Used(r) = 1
      BY <2>3, <3>2
    <3> QED
      BY <3>3, <3>4, <3>6, <3>7 DEF PushRsv, RingType, Used
  <2>5. CASE ~RecordTag
    <3>1. ring' = ring \/ \E b \in Banks : EraseVt(b)
      BY <1>1, <2>2, <2>5, RingIdle
    <3> QED
      BY <2>3, <3>1, EraseRing
  <2> QED
    BY <2>4, <2>5
<1>3. ASSUME Tagged', Saved' = 0
      PROVE  \A b \in Banks : ring'[b].rsv = ring'[b].tail
  <2>1. CASE RecordTag
    <3>1. Issued' = 0
      BY <1>1, <1>3, <2>1, TagFacts DEF LogInv, Live
    <3> QED
      BY <1>2, <3>1
  <2>2. CASE ~RecordTag
    <3>1. Tagged /\ Saved = 0
      BY <1>1, <1>3, <2>2, SavedKept
    <3>2. \A b \in Banks : ring[b].rsv = ring[b].tail
      BY <1>1, <3>1 DEF ZeroInv, Live
    <3>3. CASE Quiet
      BY <3>2, <3>3 DEF Quiet
    <3>4. CASE Buffering
      BY <3>2, <3>4, EraseRing DEF Buffering, Dequeue, Program
    <3>5. CASE Closing
      <4>1. PICK b \in Banks : ring' = [ring EXCEPT ![b] = TakeBlk(ring[b])]
        BY <3>5 DEF Closing, CloseBlock
      <4>2. \A c \in Banks : ring'[c] = ring[c] \/ ring'[c] = TakeBlk(ring[c])
        BY <4>1 DEF TypeOK
      <4> QED
        BY <1>1, <3>2, <4>2 DEF TakeBlk, RingType
    <3>6. CASE GcBegin
      <4>1. PICK i : ring' = [ring EXCEPT ![bank] = SwapVictim(VtErased(ring[bank]), i)]
        BY <3>6 DEF GcBegin
      <4>2. \A c \in Banks : ring'[c] = ring[c] \/ ring'[c] = SwapVictim(VtErased(ring[c]), i)
        BY <4>1 DEF TypeOK
      <4>3. SUFFICES ASSUME NEW c \in Banks
                     PROVE  ring'[c].rsv = ring'[c].tail
        OBVIOUS
      <4>4. PICK r : r = VtErased(ring[c])
        OBVIOUS
      <4>5. r \in RingType
        BY <1>1, <4>4, VtErasedType
      <4>6. r.rsv = ring[c].rsv /\ r.tail = ring[c].tail
        BY <1>1, <4>4 DEF VtErased, RingType
      <4>7. SwapVictim(r, i).rsv = r.rsv /\ SwapVictim(r, i).tail = r.tail
        BY <4>5 DEF SwapVictim, RingType
      <4> QED
        BY <3>2, <4>2, <4>4, <4>6, <4>7
    <3>7. CASE GcEnd
      <4>1. pc = "gccopy" /\ bank \in Banks
        BY <3>7 DEF GcEnd, TypeOK
      <4> QED
        BY <3>2, <4>1 DEF RoomLeft
    <3>8. CASE GcCopy
      BY <3>2, <3>8 DEF GcCopy, Program
    <3> QED
      BY <1>1, <2>2, <3>3, <3>4, <3>5, <3>6, <3>7, <3>8, SpaceSteps DEF CrashAndRecover
  <2> QED
    BY <2>1, <2>2
<1> QED
  BY <1>2, <1>3

\* After format nothing is scanned.
LEMMA InitScan ==
  ASSUME Init
  PROVE  ChainInv /\ FreshScan /\ ZeroInv
<1>1. /\ Tagged /\ Saved = 0 /\ Act = active /\ Issued = 0 /\ TypeOK /\ SInv
      /\ pc # "recovered"
  BY InitTag, InitInv, InitSpace DEF Init, IInv
<1>2. \A b \in Banks : ring[b] = PushRsv(TakeBlk(InitRing))
  BY DEF Init
<1>3. NumBlks \in Nat \ {0} /\ NumBlks > 1
  BY NumBlksAssumption
<1>4. PICK r : r = PushRsv(TakeBlk(InitRing))
  OBVIOUS
<1>5. r \in RingType
  BY <1>4, InitRingType, TakeBlkType, PushRsvType
<1>6. r.tail = 0 /\ r.head = 1 /\ r.rsv = 0 /\ r.free = NumBlks - 1
  <2>1. PICK y : y = NumBlks
    OBVIOUS
  <2>2. (1 % NumBlks) = 1
    BY <1>3, Wrap
  <2>3. y \in 0..(2 * NumBlks - 1) /\ (y % NumBlks) = 0
    BY <1>3, <2>1, Wrap
  <2>4. PICK t : t = TakeBlk(InitRing)
    OBVIOUS
  <2>5. t \in RingType
    BY <2>4, InitRingType, TakeBlkType
  <2>6. t.tail = 0 /\ t.head = 1 /\ t.free = NumBlks - 1
    BY <1>3, <2>2, <2>4 DEF TakeBlk, InitRing
  <2> QED
    BY <1>3, <1>4, <2>1, <2>3, <2>4, <2>5, <2>6 DEF PushRsv, RingType
<1>7. PushRsv(r) = r
  <2>1. PICK y : y = r.head + NumBlks - 1
    OBVIOUS
  <2>2. y = NumBlks /\ y \in 0..(2 * NumBlks - 1)
    BY <1>3, <1>6, <2>1
  <2>3. (y % NumBlks) = 0
    BY <1>3, <2>2, Wrap
  <2> QED
    BY <1>5, <1>6, <2>1, <2>3 DEF PushRsv, RingType
<1>8. ASSUME NEW b \in Banks
      PROVE  /\ ChainOk(flash[b], ring[b], active[b])
             /\ Retrieved(b, flash[b], active[b]) = {}
             /\ ring[b].rsv = ring[b].tail /\ Used(ring[b]) = 1
  <2>1. PICK fl, ac : fl = flash[b] /\ ac = active[b]
    OBVIOUS
  <2>2. fl \in [Blks -> Block] /\ ac \in Ppn /\ BankOk(fl, r, ac) /\ ring[b] = r
    BY <1>1, <1>2, <1>4, <2>1, BankOkNow
  <2>3. Used(r) = 1
    BY <1>3, <1>6 DEF Used
  <2>4. ChainAt(fl, r, ac, Used(r) - 1) /\ Retrieved(b, fl, ac) = {}
    BY <1>5, <1>7, <2>2, ChainRsv
  <2>5. Used(r) - 1 \in Nat
    BY <2>3
  <2> QED
    BY <1>6, <2>1, <2>2, <2>3, <2>4, <2>5 DEF ChainOk
<1>9. Chains(active)
  BY <1>8 DEF Chains
<1>10. AllRetrieved(flash, active) = {}
  BY <1>8, ScanMember
<1> QED
  BY <1>1, <1>8, <1>9, <1>10 DEF ChainInv, FreshScan, ZeroInv, Scan, Live

-----------------------------------------------------------------------------

-----------------------------------------------------------------------------
(* The account of a write: where its pieces are.                           *)

\* Where the pages of the writes since the tag are.  h stands for the writes
\* issued, k for the number of them the tag covers, S for the scanned pages,
\* c for the buffers, D for the dependencies, P for the pages still to come.
PagesOf(S, e)   == {x \in S : x.pg.epoch = e}
BufsOf(c, e)    == {u \in Banks \X Bufs : c[u[1]][u[2]].dirty /\ c[u[1]][u[2]].epoch = e}
DepsOf(D, e)    == {d \in DOMAIN D : D[d].src = e}
ToCome(h, P, e) == IF e = Len(h) - 1 THEN P ELSE {}

\* Pages, dirty buffers and dependencies name the write they are of, one
\* that the tag does not cover, and its number of pages.
PageOk(h, k, S) ==
  \A x \in S : x.pg.epoch # GcTag =>
    /\ x.pg.epoch \in k..(Len(h) - 1) /\ x.pg.lpn \in h[x.pg.epoch + 1]
    /\ x.pg.span = Cardinality(h[x.pg.epoch + 1]) /\ x.pg.ver = x.pg.epoch + 1
DirtyOk(h, k, c) ==
  \A b \in Banks, i \in Bufs : c[b][i].dirty =>
    /\ c[b][i].epoch \in k..(Len(h) - 1) /\ c[b][i].lpn \in h[c[b][i].epoch + 1]
    /\ c[b][i].span = Cardinality(h[c[b][i].epoch + 1])
DepOk(h, k, D) ==
  \A d \in DOMAIN D :
    /\ D[d].src \in k..(Len(h) - 1) /\ D[d].dst \in Nat /\ D[d].src < D[d].dst
    /\ D[d].dst <= Len(h) - 1 /\ D[d].span = Cardinality(h[D[d].src + 1])

\* Where a page of a write may be: in flash, in a buffer, or overwritten in
\* DRAM before it was programmed and so covered by a dependency.
InScan(S, e, l) == \E x \in S : x.pg.lpn = l /\ x.pg.epoch = e
InBuf(c, e, l)  == \E b \in Banks, i \in Bufs : c[b][i].dirty /\ c[b][i].lpn = l /\ c[b][i].epoch = e
Covered(h, D, e, l) == \E d \in DOMAIN D : D[d].src = e /\ l \in h[D[d].dst + 1]

\* No page of a write is lost.
Located(h, k, S, c, D, P) ==
  \A e \in k..(Len(h) - 1) : \A l \in h[e + 1] :
    l \in ToCome(h, P, e) \/ InBuf(c, e, l) \/ InScan(S, e, l) \/ Covered(h, D, e, l)

\* Each page of a write is counted once: in flash, in a buffer, as a
\* dependency, or as still to come.
CountOk(h, k, S, c, D, P) ==
  \A e \in k..(Len(h) - 1) :
    /\ IsFiniteSet(PagesOf(S, e)) /\ IsFiniteSet(BufsOf(c, e)) /\ IsFiniteSet(DepsOf(D, e))
    /\ IsFiniteSet(ToCome(h, P, e))
    /\ Cardinality(PagesOf(S, e)) + Cardinality(BufsOf(c, e)) + Cardinality(DepsOf(D, e))
         + Cardinality(ToCome(h, P, e)) = Cardinality(h[e + 1])

\* The account of all writes since the tag.
AcctOk(h, k, S, c, D, P) ==
  /\ PageOk(h, k, S) /\ DirtyOk(h, k, c) /\ DepOk(h, k, D)
  /\ Located(h, k, S, c, D, P) /\ CountOk(h, k, S, c, D, P)

\* Counting: a set with one element more ...
LEMMA AddOne ==
  ASSUME NEW A, IsFiniteSet(A), NEW x, x \notin A, NEW B, B = A \cup {x}
  PROVE  IsFiniteSet(B) /\ Cardinality(B) = Cardinality(A) + 1 /\ Cardinality(A) \in Nat
BY FS_AddElement, FS_CardinalityType

\* ... and with one element less.
LEMMA DropOne ==
  ASSUME NEW A, IsFiniteSet(A), NEW x, x \in A, NEW B, B = A \ {x}
  PROVE  /\ IsFiniteSet(B) /\ Cardinality(B) = Cardinality(A) - 1
         /\ Cardinality(A) \in Nat /\ Cardinality(B) \in Nat
BY FS_RemoveElement, FS_CardinalityType

\* Only buffer i of bank b changes: it becomes clean, or takes a page.
OthersKept(c, d, b, i) ==
  \A a \in Banks, j \in Bufs : ~(a = b /\ j = i) => d[a][j] = c[a][j]

\* Buffer i of bank b holds page l of the write e of n pages.
Holding(c, b, i, l, e, n) ==
  c[b][i].dirty /\ c[b][i].lpn = l /\ c[b][i].epoch = e /\ c[b][i].span = n

\* A dirty buffer, and no other, becomes clean.
Cleaned(c, d, b, i) == OthersKept(c, d, b, i) /\ c[b][i].dirty /\ ~d[b][i].dirty

\* A buffer that becomes clean no longer counts for its write.
LEMMA BufsDrop ==
  ASSUME NEW c, NEW d, NEW b \in Banks, NEW i \in Bufs, Cleaned(c, d, b, i), NEW e
  PROVE  /\ c[b][i].epoch # e => BufsOf(d, e) = BufsOf(c, e)
         /\ c[b][i].epoch = e => /\ BufsOf(d, e) = BufsOf(c, e) \ {<<b, i>>}
                                 /\ <<b, i>> \in BufsOf(c, e)
<1> USE DEF Cleaned
<1>1. \A u \in Banks \X Bufs : u \in BufsOf(d, e) <=> u \in BufsOf(c, e) /\ u # <<b, i>>
  <2> SUFFICES ASSUME NEW a \in Banks, NEW j \in Bufs
               PROVE  <<a, j>> \in BufsOf(d, e) <=> <<a, j>> \in BufsOf(c, e) /\ <<a, j>> # <<b, i>>
    OBVIOUS
  <2>1. CASE a = b /\ j = i
    BY <2>1 DEF BufsOf
  <2>2. CASE ~(a = b /\ j = i)
    <3>1. d[a][j] = c[a][j] /\ <<a, j>> # <<b, i>>
      BY <2>2 DEF OthersKept
    <3> QED
      BY <3>1 DEF BufsOf
  <2> QED
    BY <2>1, <2>2
<1>2. BufsOf(d, e) \subseteq Banks \X Bufs /\ BufsOf(c, e) \subseteq Banks \X Bufs
  BY DEF BufsOf
<1>3. <<b, i>> \in BufsOf(c, e) <=> c[b][i].epoch = e
  BY DEF BufsOf
<1> QED
  BY <1>1, <1>2, <1>3

\* A buffer is filled with a page of another write.
Dirtied(c, d, b, i) ==
  OthersKept(c, d, b, i) /\ d[b][i].dirty /\ (c[b][i].dirty => c[b][i].epoch # d[b][i].epoch)

\* The write of epoch e gains or loses the buffer i of bank b.
BufsTook(c, d, b, i, e) ==
  /\ d[b][i].epoch = e => /\ BufsOf(d, e) = BufsOf(c, e) \cup {<<b, i>>}
                          /\ <<b, i>> \notin BufsOf(c, e)
  /\ d[b][i].epoch # e /\ c[b][i].dirty /\ c[b][i].epoch = e =>
        BufsOf(d, e) = BufsOf(c, e) \ {<<b, i>>} /\ <<b, i>> \in BufsOf(c, e)
  /\ d[b][i].epoch # e /\ ~(c[b][i].dirty /\ c[b][i].epoch = e) => BufsOf(d, e) = BufsOf(c, e)

\* A buffer that is filled counts for the new write, and no longer for the
\* one it held.
LEMMA BufsTake ==
  ASSUME NEW c, NEW d, NEW b \in Banks, NEW i \in Bufs, Dirtied(c, d, b, i), NEW e
  PROVE  BufsTook(c, d, b, i, e)
<1> USE DEF Dirtied
<1>1. \A u \in (Banks \X Bufs) \ {<<b, i>>} : u \in BufsOf(d, e) <=> u \in BufsOf(c, e)
  <2> SUFFICES ASSUME NEW a \in Banks, NEW j \in Bufs, <<a, j>> # <<b, i>>
               PROVE  <<a, j>> \in BufsOf(d, e) <=> <<a, j>> \in BufsOf(c, e)
    OBVIOUS
  <2>1. d[a][j] = c[a][j]
    BY DEF OthersKept
  <2> QED
    BY <2>1 DEF BufsOf
<1>2. BufsOf(d, e) \subseteq Banks \X Bufs /\ BufsOf(c, e) \subseteq Banks \X Bufs
  BY DEF BufsOf
<1>3. <<b, i>> \in BufsOf(c, e) <=> c[b][i].dirty /\ c[b][i].epoch = e
  BY DEF BufsOf
<1>4. <<b, i>> \in BufsOf(d, e) <=> d[b][i].epoch = e
  BY DEF BufsOf
<1>5. ASSUME d[b][i].epoch = e
      PROVE  BufsOf(d, e) = BufsOf(c, e) \cup {<<b, i>>} /\ <<b, i>> \notin BufsOf(c, e)
  <2>1. <<b, i>> \notin BufsOf(c, e)
    BY <1>5 DEF BufsOf
  <2> QED
    BY <1>1, <1>2, <1>4, <1>5, <2>1
<1>6. ASSUME d[b][i].epoch # e, c[b][i].dirty, c[b][i].epoch = e
      PROVE  BufsOf(d, e) = BufsOf(c, e) \ {<<b, i>>} /\ <<b, i>> \in BufsOf(c, e)
  BY <1>1, <1>2, <1>3, <1>4, <1>6
<1>7. ASSUME d[b][i].epoch # e, ~(c[b][i].dirty /\ c[b][i].epoch = e)
      PROVE  BufsOf(d, e) = BufsOf(c, e)
  BY <1>1, <1>2, <1>3, <1>4, <1>7
<1> QED
  BY <1>5, <1>6, <1>7 DEF BufsTook

\* A dirty buffer goes to flash.
LEMMA StoreAcct ==
  ASSUME NEW h \in Seq(SUBSET Lpns), NEW k \in Nat, NEW S, NEW c, NEW D, NEW P,
         AcctOk(h, k, S, c, D, P), NEW d, NEW b \in Banks, NEW i \in Bufs,
         Cleaned(c, d, b, i), NEW x, x \notin S, x.pg.lpn = c[b][i].lpn, x.pg.epoch = c[b][i].epoch,
         x.pg.span = c[b][i].span, x.pg.ver = c[b][i].epoch + 1
  PROVE  AcctOk(h, k, S \cup {x}, d, D, P)
<1>1. /\ PageOk(h, k, S) /\ DirtyOk(h, k, c) /\ DepOk(h, k, D)
      /\ Located(h, k, S, c, D, P) /\ CountOk(h, k, S, c, D, P)
  BY DEF AcctOk
<1>2. PageOk(h, k, S \cup {x})
  <2>1. /\ c[b][i].epoch \in k..(Len(h) - 1) /\ c[b][i].lpn \in h[c[b][i].epoch + 1]
        /\ c[b][i].span = Cardinality(h[c[b][i].epoch + 1])
    BY <1>1 DEF DirtyOk, Cleaned
  <2> QED
    BY <1>1, <2>1 DEF PageOk
<1>3. DirtyOk(h, k, d)
  BY <1>1 DEF DirtyOk, OthersKept, Cleaned
<1>4. Located(h, k, S \cup {x}, d, D, P)
  <2> SUFFICES ASSUME NEW e \in k..(Len(h) - 1), NEW l \in h[e + 1]
               PROVE  \/ l \in ToCome(h, P, e) \/ InBuf(d, e, l) \/ InScan(S \cup {x}, e, l)
                      \/ Covered(h, D, e, l)
    BY DEF Located
  <2>1. CASE InBuf(c, e, l)
    <3>1. PICK a \in Banks, j \in Bufs : c[a][j].dirty /\ c[a][j].lpn = l /\ c[a][j].epoch = e
      BY <2>1 DEF InBuf
    <3>2. CASE a = b /\ j = i
      BY <3>1, <3>2 DEF InScan
    <3>3. CASE ~(a = b /\ j = i)
      BY <3>1, <3>3 DEF InBuf, OthersKept, Cleaned
    <3> QED
      BY <3>2, <3>3
  <2>2. CASE InScan(S, e, l)
    BY <2>2 DEF InScan
  <2> QED
    BY <1>1, <2>1, <2>2 DEF Located
<1>5. CountOk(h, k, S \cup {x}, d, D, P)
  <2> SUFFICES ASSUME NEW e \in k..(Len(h) - 1)
               PROVE  /\ IsFiniteSet(PagesOf(S \cup {x}, e)) /\ IsFiniteSet(BufsOf(d, e))
                      /\ IsFiniteSet(DepsOf(D, e)) /\ IsFiniteSet(ToCome(h, P, e))
                      /\ Cardinality(PagesOf(S \cup {x}, e)) + Cardinality(BufsOf(d, e))
                           + Cardinality(DepsOf(D, e)) + Cardinality(ToCome(h, P, e))
                             = Cardinality(h[e + 1])
    BY DEF CountOk
  <2>1. /\ IsFiniteSet(PagesOf(S, e)) /\ IsFiniteSet(BufsOf(c, e)) /\ IsFiniteSet(DepsOf(D, e))
        /\ IsFiniteSet(ToCome(h, P, e))
        /\ Cardinality(PagesOf(S, e)) + Cardinality(BufsOf(c, e)) + Cardinality(DepsOf(D, e))
             + Cardinality(ToCome(h, P, e)) = Cardinality(h[e + 1])
    BY <1>1 DEF CountOk
  <2>0. /\ c[b][i].epoch # e => BufsOf(d, e) = BufsOf(c, e)
        /\ c[b][i].epoch = e => /\ BufsOf(d, e) = BufsOf(c, e) \ {<<b, i>>}
                                /\ <<b, i>> \in BufsOf(c, e)
    BY BufsDrop
  <2>2. CASE c[b][i].epoch # e
    <3>1. PagesOf(S \cup {x}, e) = PagesOf(S, e)
      BY <2>2 DEF PagesOf
    <3>2. BufsOf(d, e) = BufsOf(c, e)
      BY <2>0, <2>2
    <3> QED
      BY <2>1, <3>1, <3>2
  <2>3. CASE c[b][i].epoch = e
    <3>1. PagesOf(S \cup {x}, e) = PagesOf(S, e) \cup {x} /\ x \notin PagesOf(S, e)
      BY <2>3 DEF PagesOf
    <3>2. BufsOf(d, e) = BufsOf(c, e) \ {<<b, i>>} /\ <<b, i>> \in BufsOf(c, e)
      BY <2>0, <2>3
    <3>3. PICK A, B, A2, B2 : /\ A = PagesOf(S, e) /\ B = BufsOf(c, e)
                              /\ A2 = PagesOf(S \cup {x}, e) /\ B2 = BufsOf(d, e)
      OBVIOUS
    <3>4. IsFiniteSet(A2) /\ Cardinality(A2) = Cardinality(A) + 1 /\ Cardinality(A) \in Nat
      BY <2>1, <3>1, <3>3, AddOne
    <3>5. /\ IsFiniteSet(B2) /\ Cardinality(B2) = Cardinality(B) - 1
          /\ Cardinality(B) \in Nat /\ Cardinality(B2) \in Nat
      BY <2>1, <3>2, <3>3, DropOne
    <3>6. Cardinality(DepsOf(D, e)) \in Nat /\ Cardinality(ToCome(h, P, e)) \in Nat
      BY <2>1, FS_CardinalityType
    <3> QED
      BY <2>1, <3>3, <3>4, <3>5, <3>6
  <2> QED
    BY <2>2, <2>3
<1> QED
  BY <1>1, <1>2, <1>3, <1>4, <1>5 DEF AcctOk

\* A page is copied by garbage collection.
LEMMA CopyAcct ==
  ASSUME NEW h \in Seq(SUBSET Lpns), Len(h) < GcTag, NEW k \in Nat, NEW S, NEW c, NEW D, NEW P,
         AcctOk(h, k, S, c, D, P), NEW x, x.pg.epoch = GcTag
  PROVE  AcctOk(h, k, S \cup {x}, c, D, P)
<1>1. \A e \in k..(Len(h) - 1) : PagesOf(S \cup {x}, e) = PagesOf(S, e)
  BY RecoveryAssumption DEF PagesOf, GcTag
<1>2. PageOk(h, k, S \cup {x})
  BY DEF AcctOk, PageOk
<1>3. Located(h, k, S \cup {x}, c, D, P)
  BY DEF AcctOk, Located, InScan
<1>4. CountOk(h, k, S \cup {x}, c, D, P)
  BY <1>1 DEF AcctOk, CountOk
<1> QED
  BY <1>2, <1>3, <1>4 DEF AcctOk

\* The last write puts its page l into buffer i of bank b.
Takes(h, c, d, b, i, l) ==
  /\ OthersKept(c, d, b, i) /\ d[b][i].dirty /\ d[b][i].lpn = l
  /\ d[b][i].epoch = Len(h) - 1 /\ d[b][i].span = Cardinality(h[Len(h)])
Coming(h, P, l) == l \in P /\ P \subseteq h[Len(h)]
Overwrites(h, c, b, i, l) ==
  c[b][i].dirty /\ c[b][i].lpn = l /\ c[b][i].epoch # Len(h) - 1
AddsDep(D, E, y, src, dst, span) ==
  /\ y \notin DOMAIN D /\ DOMAIN E = DOMAIN D \cup {y}
  /\ \A x \in DOMAIN D : E[x] = D[x]
  /\ E[y].src = src /\ E[y].dst = dst /\ E[y].span = span

\* A page put into a buffer: what the dirty buffers hold is right.
LEMMA PutPages ==
  ASSUME NEW h \in Seq(SUBSET Lpns), NEW k \in Nat, k <= Len(h) - 1, NEW S, NEW c, NEW D, NEW P,
         AcctOk(h, k, S, c, D, P), NEW d, NEW b \in Banks, NEW i \in Bufs, NEW l,
         Takes(h, c, d, b, i, l), Coming(h, P, l)
  PROVE  DirtyOk(h, k, d)
<1>1. DirtyOk(h, k, c)
  BY DEF AcctOk
<1>2. Len(h) \in Nat /\ Len(h) - 1 \in k..(Len(h) - 1) /\ (Len(h) - 1) + 1 = Len(h)
  OBVIOUS
<1>3. /\ d[b][i].epoch \in k..(Len(h) - 1) /\ d[b][i].lpn \in h[d[b][i].epoch + 1]
      /\ d[b][i].span = Cardinality(h[d[b][i].epoch + 1])
  BY <1>2 DEF Takes, Coming
<1>4. OthersKept(c, d, b, i)
  BY DEF Takes
<1>5. ASSUME NEW a \in Banks, NEW j \in Bufs, d[a][j].dirty
      PROVE  /\ d[a][j].epoch \in k..(Len(h) - 1) /\ d[a][j].lpn \in h[d[a][j].epoch + 1]
             /\ d[a][j].span = Cardinality(h[d[a][j].epoch + 1])
  <2>1. CASE a = b /\ j = i
    BY <1>3, <2>1
  <2>2. CASE ~(a = b /\ j = i)
    <3>1. d[a][j] = c[a][j]
      BY <1>4, <2>2 DEF OthersKept
    <3>2. PICK f : f = c[a][j]
      OBVIOUS
    <3>3. f.dirty
      BY <1>5, <3>1, <3>2
    <3>4. /\ f.epoch \in k..(Len(h) - 1) /\ f.lpn \in h[f.epoch + 1]
          /\ f.span = Cardinality(h[f.epoch + 1])
      BY <1>1, <3>2, <3>3 DEF DirtyOk
    <3> QED
      BY <3>1, <3>2, <3>4
  <2> QED
    BY <2>1, <2>2
<1> QED
  BY <1>5 DEF DirtyOk

\* A page of the running write goes to a clean buffer.
LEMMA PutAcct ==
  ASSUME NEW h \in Seq(SUBSET Lpns), NEW k \in Nat, k <= Len(h) - 1, NEW S, NEW c, NEW D, NEW P,
         AcctOk(h, k, S, c, D, P), NEW d, NEW b \in Banks, NEW i \in Bufs, NEW l,
         Takes(h, c, d, b, i, l), Coming(h, P, l), ~c[b][i].dirty
  PROVE  AcctOk(h, k, S, d, D, P \ {l})
<1>1. /\ PageOk(h, k, S) /\ DepOk(h, k, D)
      /\ Located(h, k, S, c, D, P) /\ CountOk(h, k, S, c, D, P)
  BY DEF AcctOk
<1>2. DirtyOk(h, k, d)
  BY PutPages
<1>3. /\ OthersKept(c, d, b, i) /\ d[b][i].dirty /\ d[b][i].lpn = l /\ d[b][i].epoch = Len(h) - 1
      /\ l \in P
  BY DEF Takes, Coming
<1>4. Located(h, k, S, d, D, P \ {l})
  <2> SUFFICES ASSUME NEW e \in k..(Len(h) - 1), NEW q \in h[e + 1]
               PROVE  \/ q \in ToCome(h, P \ {l}, e) \/ InBuf(d, e, q) \/ InScan(S, e, q)
                      \/ Covered(h, D, e, q)
    BY DEF Located
  <2>1. CASE InBuf(c, e, q)
    <3>1. PICK a \in Banks, j \in Bufs : c[a][j].dirty /\ c[a][j].lpn = q /\ c[a][j].epoch = e
      BY <2>1 DEF InBuf
    <3>2. ~(a = b /\ j = i)
      BY <3>1
    <3> QED
      BY <1>3, <3>1, <3>2 DEF InBuf, OthersKept
  <2>2. CASE q \in ToCome(h, P, e)
    <3>1. CASE q = l
      BY <1>3, <2>2, <3>1 DEF InBuf, ToCome
    <3>2. CASE q # l
      BY <2>2, <3>2 DEF ToCome
    <3> QED
      BY <3>1, <3>2
  <2> QED
    BY <1>1, <2>1, <2>2 DEF Located
<1>5. CountOk(h, k, S, d, D, P \ {l})
  <2> SUFFICES ASSUME NEW e \in k..(Len(h) - 1)
               PROVE  /\ IsFiniteSet(PagesOf(S, e)) /\ IsFiniteSet(BufsOf(d, e))
                      /\ IsFiniteSet(DepsOf(D, e)) /\ IsFiniteSet(ToCome(h, P \ {l}, e))
                      /\ Cardinality(PagesOf(S, e)) + Cardinality(BufsOf(d, e))
                           + Cardinality(DepsOf(D, e)) + Cardinality(ToCome(h, P \ {l}, e))
                             = Cardinality(h[e + 1])
    BY DEF CountOk
  <2>1. /\ IsFiniteSet(PagesOf(S, e)) /\ IsFiniteSet(BufsOf(c, e)) /\ IsFiniteSet(DepsOf(D, e))
        /\ IsFiniteSet(ToCome(h, P, e))
        /\ Cardinality(PagesOf(S, e)) + Cardinality(BufsOf(c, e)) + Cardinality(DepsOf(D, e))
             + Cardinality(ToCome(h, P, e)) = Cardinality(h[e + 1])
    BY <1>1 DEF CountOk
  <2>0. BufsTook(c, d, b, i, e)
    <3>1. Dirtied(c, d, b, i)
      BY <1>3 DEF Dirtied
    <3> QED
      BY <3>1, BufsTake
  <2>2. CASE e # Len(h) - 1
    <3>1. ToCome(h, P \ {l}, e) = ToCome(h, P, e)
      BY <2>2 DEF ToCome
    <3>2. BufsOf(d, e) = BufsOf(c, e)
      BY <1>3, <2>0, <2>2 DEF BufsTook
    <3> QED
      BY <2>1, <3>1, <3>2
  <2>3. CASE e = Len(h) - 1
    <3>1. ToCome(h, P \ {l}, e) = ToCome(h, P, e) \ {l} /\ l \in ToCome(h, P, e)
      BY <1>3, <2>3 DEF ToCome
    <3>2. BufsOf(d, e) = BufsOf(c, e) \cup {<<b, i>>} /\ <<b, i>> \notin BufsOf(c, e)
      BY <1>3, <2>0, <2>3 DEF BufsTook
    <3>3. PICK A, B, A2, B2 : /\ A = BufsOf(c, e) /\ B = ToCome(h, P, e)
                              /\ A2 = BufsOf(d, e) /\ B2 = ToCome(h, P \ {l}, e)
      OBVIOUS
    <3>4. IsFiniteSet(A2) /\ Cardinality(A2) = Cardinality(A) + 1 /\ Cardinality(A) \in Nat
      BY <2>1, <3>2, <3>3, AddOne
    <3>5. /\ IsFiniteSet(B2) /\ Cardinality(B2) = Cardinality(B) - 1
          /\ Cardinality(B) \in Nat /\ Cardinality(B2) \in Nat
      BY <2>1, <3>1, <3>3, DropOne
    <3>6. Cardinality(DepsOf(D, e)) \in Nat /\ Cardinality(PagesOf(S, e)) \in Nat
      BY <2>1, FS_CardinalityType
    <3> QED
      BY <2>1, <3>3, <3>4, <3>5, <3>6
  <2> QED
    BY <2>2, <2>3
<1> QED
  BY <1>1, <1>2, <1>4, <1>5 DEF AcctOk

\* A page of the running write replaces a dirty one: the earlier write, which
\* loses a page, depends on this one.
LEMMA PutDepAcct ==
  ASSUME NEW h \in Seq(SUBSET Lpns), NEW k \in Nat, k <= Len(h) - 1, NEW S, NEW c, NEW D, NEW P,
         AcctOk(h, k, S, c, D, P), NEW d, NEW b \in Banks, NEW i \in Bufs, NEW l,
         Takes(h, c, d, b, i, l), Coming(h, P, l), Overwrites(h, c, b, i, l),
         NEW E, NEW y, AddsDep(D, E, y, c[b][i].epoch, Len(h) - 1, c[b][i].span)
  PROVE  AcctOk(h, k, S, d, E, P \ {l})
<1>1. /\ PageOk(h, k, S) /\ DirtyOk(h, k, c) /\ DepOk(h, k, D)
      /\ Located(h, k, S, c, D, P) /\ CountOk(h, k, S, c, D, P)
  BY DEF AcctOk
<1>2. DirtyOk(h, k, d)
  BY PutPages
<1>3. /\ OthersKept(c, d, b, i) /\ d[b][i].dirty /\ d[b][i].lpn = l /\ d[b][i].epoch = Len(h) - 1
      /\ l \in P /\ P \subseteq h[Len(h)]
  BY DEF Takes, Coming
<1>4. PICK f : f = c[b][i]
  OBVIOUS
<1>5. f.dirty /\ f.lpn = l /\ f.epoch # Len(h) - 1
  BY <1>4 DEF Overwrites
<1>6. /\ f.epoch \in k..(Len(h) - 1) /\ f.lpn \in h[f.epoch + 1]
      /\ f.span = Cardinality(h[f.epoch + 1])
  BY <1>1, <1>4, <1>5 DEF DirtyOk
<1>7. /\ y \notin DOMAIN D /\ DOMAIN E = DOMAIN D \cup {y}
      /\ \A x \in DOMAIN D : E[x] = D[x]
      /\ E[y].src = f.epoch /\ E[y].dst = Len(h) - 1 /\ E[y].span = f.span
  BY <1>4 DEF AddsDep
<1>8. DepOk(h, k, E)
  <2>1. Len(h) - 1 \in Nat /\ f.epoch < Len(h) - 1
    BY <1>5, <1>6
  <2>2. /\ E[y].src \in k..(Len(h) - 1) /\ E[y].dst \in Nat /\ E[y].src < E[y].dst
        /\ E[y].dst <= Len(h) - 1 /\ E[y].span = Cardinality(h[E[y].src + 1])
    BY <1>6, <1>7, <2>1
  <2> QED
    BY <1>1, <1>7, <2>2 DEF DepOk
<1>9. Located(h, k, S, d, E, P \ {l})
  <2> SUFFICES ASSUME NEW e \in k..(Len(h) - 1), NEW q \in h[e + 1]
               PROVE  \/ q \in ToCome(h, P \ {l}, e) \/ InBuf(d, e, q) \/ InScan(S, e, q)
                      \/ Covered(h, E, e, q)
    BY DEF Located
  <2>1. CASE InBuf(c, e, q)
    <3>1. PICK a \in Banks, j \in Bufs : c[a][j].dirty /\ c[a][j].lpn = q /\ c[a][j].epoch = e
      BY <2>1 DEF InBuf
    <3>2. CASE a = b /\ j = i
      <4>1. q = l /\ e = f.epoch
        BY <1>4, <1>5, <3>1, <3>2
      <4>2. y \in DOMAIN E /\ E[y].src = e /\ (E[y].dst + 1) = Len(h)
        BY <1>7, <4>1
      <4>3. q \in h[E[y].dst + 1]
        BY <1>3, <4>1, <4>2
      <4> QED
        BY <4>2, <4>3 DEF Covered
    <3>3. CASE ~(a = b /\ j = i)
      BY <1>3, <3>1, <3>3 DEF InBuf, OthersKept
    <3> QED
      BY <3>2, <3>3
  <2>2. CASE q \in ToCome(h, P, e)
    <3>1. CASE q = l
      BY <1>3, <2>2, <3>1 DEF InBuf, ToCome
    <3>2. CASE q # l
      BY <2>2, <3>2 DEF ToCome
    <3> QED
      BY <3>1, <3>2
  <2>3. CASE Covered(h, D, e, q)
    BY <1>7, <2>3 DEF Covered
  <2> QED
    BY <1>1, <2>1, <2>2, <2>3 DEF Located
<1>10. CountOk(h, k, S, d, E, P \ {l})
  <2> SUFFICES ASSUME NEW e \in k..(Len(h) - 1)
               PROVE  /\ IsFiniteSet(PagesOf(S, e)) /\ IsFiniteSet(BufsOf(d, e))
                      /\ IsFiniteSet(DepsOf(E, e)) /\ IsFiniteSet(ToCome(h, P \ {l}, e))
                      /\ Cardinality(PagesOf(S, e)) + Cardinality(BufsOf(d, e))
                           + Cardinality(DepsOf(E, e)) + Cardinality(ToCome(h, P \ {l}, e))
                             = Cardinality(h[e + 1])
    BY DEF CountOk
  <2>1. /\ IsFiniteSet(PagesOf(S, e)) /\ IsFiniteSet(BufsOf(c, e)) /\ IsFiniteSet(DepsOf(D, e))
        /\ IsFiniteSet(ToCome(h, P, e))
        /\ Cardinality(PagesOf(S, e)) + Cardinality(BufsOf(c, e)) + Cardinality(DepsOf(D, e))
             + Cardinality(ToCome(h, P, e)) = Cardinality(h[e + 1])
    BY <1>1 DEF CountOk
  <2>0. BufsTook(c, d, b, i, e)
    <3>1. Dirtied(c, d, b, i)
      BY <1>3, <1>4, <1>5 DEF Dirtied
    <3> QED
      BY <3>1, BufsTake
  <2>2. CASE e # Len(h) - 1 /\ e # f.epoch
    <3>1. ToCome(h, P \ {l}, e) = ToCome(h, P, e)
      BY <2>2 DEF ToCome
    <3>2. BufsOf(d, e) = BufsOf(c, e)
      BY <1>3, <1>4, <2>0, <2>2 DEF BufsTook
    <3>3. DepsOf(E, e) = DepsOf(D, e)
      BY <1>7, <2>2 DEF DepsOf
    <3> QED
      BY <2>1, <3>1, <3>2, <3>3
  <2>3. CASE e = Len(h) - 1
    <3>1. ToCome(h, P \ {l}, e) = ToCome(h, P, e) \ {l} /\ l \in ToCome(h, P, e)
      BY <1>3, <2>3 DEF ToCome
    <3>2. BufsOf(d, e) = BufsOf(c, e) \cup {<<b, i>>} /\ <<b, i>> \notin BufsOf(c, e)
      BY <1>3, <2>0, <2>3 DEF BufsTook
    <3>3. PICK A, B, A2, B2 : /\ A = BufsOf(c, e) /\ B = ToCome(h, P, e)
                              /\ A2 = BufsOf(d, e) /\ B2 = ToCome(h, P \ {l}, e)
      OBVIOUS
    <3>4. IsFiniteSet(A2) /\ Cardinality(A2) = Cardinality(A) + 1 /\ Cardinality(A) \in Nat
      BY <2>1, <3>2, <3>3, AddOne
    <3>5. /\ IsFiniteSet(B2) /\ Cardinality(B2) = Cardinality(B) - 1
          /\ Cardinality(B) \in Nat /\ Cardinality(B2) \in Nat
      BY <2>1, <3>1, <3>3, DropOne
    <3>6. Cardinality(DepsOf(D, e)) \in Nat /\ Cardinality(PagesOf(S, e)) \in Nat
      BY <2>1, FS_CardinalityType
    <3>7. DepsOf(E, e) = DepsOf(D, e)
      BY <1>5, <1>7, <2>3 DEF DepsOf
    <3> QED
      BY <2>1, <3>3, <3>4, <3>5, <3>6, <3>7
  <2>4. CASE e # Len(h) - 1 /\ e = f.epoch
    <3>1. ToCome(h, P \ {l}, e) = ToCome(h, P, e)
      BY <2>4 DEF ToCome
    <3>2. BufsOf(d, e) = BufsOf(c, e) \ {<<b, i>>} /\ <<b, i>> \in BufsOf(c, e)
      BY <1>3, <1>4, <1>5, <2>0, <2>4 DEF BufsTook
    <3>3. DepsOf(E, e) = DepsOf(D, e) \cup {y} /\ y \notin DepsOf(D, e)
      BY <1>7, <2>4 DEF DepsOf
    <3>4. PICK A, B, A2, B2 : /\ A = DepsOf(D, e) /\ B = BufsOf(c, e)
                              /\ A2 = DepsOf(E, e) /\ B2 = BufsOf(d, e)
      OBVIOUS
    <3>5. IsFiniteSet(A2) /\ Cardinality(A2) = Cardinality(A) + 1 /\ Cardinality(A) \in Nat
      BY <2>1, <3>3, <3>4, AddOne
    <3>6. /\ IsFiniteSet(B2) /\ Cardinality(B2) = Cardinality(B) - 1
          /\ Cardinality(B) \in Nat /\ Cardinality(B2) \in Nat
      BY <2>1, <3>2, <3>4, DropOne
    <3>7. Cardinality(ToCome(h, P, e)) \in Nat /\ Cardinality(PagesOf(S, e)) \in Nat
      BY <2>1, FS_CardinalityType
    <3> QED
      BY <2>1, <3>1, <3>4, <3>5, <3>6, <3>7
  <2> QED
    BY <2>2, <2>3, <2>4
<1> QED
  BY <1>1, <1>2, <1>8, <1>9, <1>10 DEF AcctOk

\* A write is issued.
LEMMA IssueAcct ==
  ASSUME NEW h \in Seq(SUBSET Lpns), NEW k \in Nat, k <= Len(h), Len(h) < GcTag, NEW S, NEW c, NEW D,
         AcctOk(h, k, S, c, D, {}), NEW T \in SUBSET Lpns, NEW g, g = Append(h, T)
  PROVE  AcctOk(g, k, S, c, D, T)
<1>1. /\ PageOk(h, k, S) /\ DirtyOk(h, k, c) /\ DepOk(h, k, D)
      /\ Located(h, k, S, c, D, {}) /\ CountOk(h, k, S, c, D, {})
  BY DEF AcctOk
<1>2. /\ Len(h) \in Nat /\ Len(g) = Len(h) + 1 /\ g[Len(h) + 1] = T
      /\ \A e \in 0..(Len(h) - 1) : g[e + 1] = h[e + 1]
  OBVIOUS
<1>3. k..(Len(h) - 1) \subseteq 0..(Len(h) - 1) /\ k..(Len(h) - 1) \subseteq k..(Len(g) - 1)
  BY <1>2
<1>4. PageOk(g, k, S)
  BY <1>1, <1>2, <1>3 DEF PageOk
<1>5. DirtyOk(g, k, c)
  BY <1>1, <1>2, <1>3 DEF DirtyOk
<1>6. ASSUME NEW d \in DOMAIN D
      PROVE  /\ D[d].src \in k..(Len(h) - 1) /\ D[d].dst \in 0..(Len(h) - 1) /\ D[d].src < D[d].dst
             /\ D[d].span = Cardinality(h[D[d].src + 1])
  BY <1>1, <1>2 DEF DepOk
<1>7. DepOk(g, k, D)
  BY <1>2, <1>3, <1>6 DEF DepOk
<1>8. Located(g, k, S, c, D, T)
  <2> SUFFICES ASSUME NEW e \in k..(Len(g) - 1), NEW l \in g[e + 1]
               PROVE  \/ l \in ToCome(g, T, e) \/ InBuf(c, e, l) \/ InScan(S, e, l)
                      \/ Covered(g, D, e, l)
    BY DEF Located
  <2>1. CASE e = Len(h)
    BY <1>2, <2>1 DEF ToCome
  <2>2. CASE e # Len(h)
    <3>1. e \in k..(Len(h) - 1) /\ l \in h[e + 1]
      BY <1>2, <2>2
    <3>2. l \notin ToCome(h, {}, e)
      BY DEF ToCome
    <3>3. CASE Covered(h, D, e, l)
      BY <1>2, <1>6, <3>3 DEF Covered
    <3> QED
      BY <1>1, <3>1, <3>2, <3>3 DEF Located
  <2> QED
    BY <2>1, <2>2
<1>9. CountOk(g, k, S, c, D, T)
  <2> SUFFICES ASSUME NEW e \in k..(Len(g) - 1)
               PROVE  /\ IsFiniteSet(PagesOf(S, e)) /\ IsFiniteSet(BufsOf(c, e))
                      /\ IsFiniteSet(DepsOf(D, e)) /\ IsFiniteSet(ToCome(g, T, e))
                      /\ Cardinality(PagesOf(S, e)) + Cardinality(BufsOf(c, e))
                           + Cardinality(DepsOf(D, e)) + Cardinality(ToCome(g, T, e))
                             = Cardinality(g[e + 1])
    BY DEF CountOk
  <2>1. CASE e = Len(h)
    <3>1. PagesOf(S, e) = {}
      <4>1. \A x \in S : x.pg.epoch # e
        BY <1>1, <2>1, <1>2 DEF PageOk
      <4> QED
        BY <4>1 DEF PagesOf
    <3>2. BufsOf(c, e) = {}
      <4>1. \A a \in Banks, j \in Bufs : c[a][j].dirty => c[a][j].epoch # e
        BY <1>1, <2>1, <1>2 DEF DirtyOk
      <4> QED
        BY <4>1 DEF BufsOf
    <3>3. DepsOf(D, e) = {}
      <4>1. \A x \in DOMAIN D : D[x].src # e
        BY <1>6, <2>1, <1>2
      <4> QED
        BY <4>1 DEF DepsOf
    <3>4. ToCome(g, T, e) = T /\ g[e + 1] = T
      BY <1>2, <2>1 DEF ToCome
    <3>5. IsFiniteSet(T)
      BY LpnsAssumption, FS_Subset
    <3>6. Cardinality(T) \in Nat
      BY <3>5, FS_CardinalityType
    <3> QED
      BY <3>1, <3>2, <3>3, <3>4, <3>5, <3>6, FS_EmptySet
  <2>2. CASE e # Len(h)
    <3>1. e \in k..(Len(h) - 1) /\ e \in 0..(Len(h) - 1)
      BY <1>2, <2>2
    <3>2. ToCome(g, T, e) = {} /\ ToCome(h, {}, e) = {}
      BY <1>2, <2>2, <3>1 DEF ToCome
    <3>3. g[e + 1] = h[e + 1]
      BY <1>2, <3>1
    <3> QED
      BY <1>1, <3>1, <3>2, <3>3 DEF CountOk
  <2> QED
    BY <2>1, <2>2
<1> QED
  BY <1>4, <1>5, <1>7, <1>8, <1>9 DEF AcctOk

\* With nothing after the tag there is nothing to account for.
LEMMA EmptyAcct ==
  ASSUME NEW h \in Seq(SUBSET Lpns), NEW c, \A b \in Banks, i \in Bufs : ~c[b][i].dirty,
         NEW D, DOMAIN D = {}, NEW P
  PROVE  AcctOk(h, Len(h), {}, c, D, P)
<1>1. Len(h)..(Len(h) - 1) = {}
  OBVIOUS
<1> QED
  BY <1>1 DEF AcctOk, PageOk, DirtyOk, DepOk, Located, CountOk

-----------------------------------------------------------------------------
(* The dependencies, in the log and in DRAM.                               *)

\* Dependencies are known by page of the log and place in the page.
DepIdsAre(lg, last) ==
  \A d : d \in DepIds(lg, last) <=>
            \E j \in DepPages(lg, last) : \E i \in DOMAIN lg[j].ents : d = <<j, i>>

\* The definition of DepIds, as a fact about each of them.
LEMMA DepIdIs ==
  ASSUME NEW lg, NEW last
  PROVE  DepIdsAre(lg, last)
BY DEF DepIds, DepIdsAre

\* A page of another type adds no dependency.
LEMMA IdsOther ==
  ASSUME NEW lg \in Seq(LogPage), NEW last \in Nat, NEW pg \in LogPage, pg.type # "depent",
         NEW lh, lh = Append(lg, pg)
  PROVE  /\ DepIds(lh, last) = DepIds(lg, last)
         /\ \A d \in DepIds(lg, last) : lh[d[1]].ents = lg[d[1]].ents
<1>1. /\ Len(lg) \in Nat /\ DOMAIN lg = 1..Len(lg) /\ DOMAIN lh = 1..(Len(lg) + 1)
      /\ lh[Len(lg) + 1] = pg /\ \A j \in 1..Len(lg) : lh[j] = lg[j]
  OBVIOUS
<1>a. DepIdsAre(lg, last)
  BY DepIdIs
<1>b. DepIdsAre(lh, last)
  BY DepIdIs
<1>2. DepPages(lh, last) = DepPages(lg, last)
  <2>1. Len(lg) + 1 \notin DepPages(lh, last)
    <3>1. SUFFICES ASSUME Len(lg) + 1 > last
                   PROVE  Len(lg) + 1 \notin DepPages(lh, last)
      BY DEF DepPages
    <3>2. Len(lg) + 1 \in (last + 1)..(Len(lg) + 1)
      BY <1>1, <3>1
    <3> QED
      BY <1>1, <3>2 DEF DepPages
  <2>2. ASSUME NEW j \in 1..Len(lg)
        PROVE  j \in DepPages(lh, last) <=> j \in DepPages(lg, last)
    <3>1. \A i \in (last + 1)..j : lh[i] = lg[i]
      BY <1>1
    <3> QED
      BY <1>1, <3>1 DEF DepPages
  <2>3. DepPages(lh, last) \subseteq 1..(Len(lg) + 1) /\ DepPages(lg, last) \subseteq 1..Len(lg)
    BY <1>1 DEF DepPages
  <2> QED
    <3>1. \A j : j \in DepPages(lh, last) <=> j \in DepPages(lg, last)
      BY <1>1, <2>1, <2>2, <2>3
    <3> QED
      BY <3>1
<1>3. \A j \in DepPages(lg, last) : lh[j] = lg[j]
  BY <1>1 DEF DepPages
<1>4. \A d : d \in DepIds(lh, last) <=> d \in DepIds(lg, last)
  <2> SUFFICES ASSUME NEW d
               PROVE  d \in DepIds(lh, last) <=> d \in DepIds(lg, last)
    OBVIOUS
  <2>1. \A j \in DepPages(lg, last) : lh[j].ents = lg[j].ents
    BY <1>3
  <2>2. (\E j \in DepPages(lh, last) : \E i \in DOMAIN lh[j].ents : d = <<j, i>>)
          <=> \E j \in DepPages(lg, last) : \E i \in DOMAIN lg[j].ents : d = <<j, i>>
    BY <1>2, <2>1, Zenon
  <2> QED
    BY <1>a, <1>b, <2>2, Zenon DEF DepIdsAre
<1>5. \A d \in DepIds(lg, last) : lh[d[1]].ents = lg[d[1]].ents
  <2> SUFFICES ASSUME NEW d \in DepIds(lg, last)
               PROVE  lh[d[1]].ents = lg[d[1]].ents
    OBVIOUS
  <2>1. PICK j \in DepPages(lg, last) : \E i \in DOMAIN lg[j].ents : d = <<j, i>>
    BY <1>a DEF DepIdsAre
  <2>2. d[1] = j
    BY <2>1
  <2> QED
    BY <1>3, <2>1, <2>2
<1> QED
  BY <1>4, <1>5

AllDepents(lg, last) == \A j \in DOMAIN lg : j > last => lg[j].type = "depent"

\* A dependency page adds its dependencies.
IdsGrow(lg, lh, last, pg) ==
  /\ \A d : d \in DepIds(lh, last) <=>
               \/ d \in DepIds(lg, last)
               \/ \E i \in DOMAIN pg.ents : d = <<Len(lg) + 1, i>>
  /\ \A d \in DepIds(lg, last) : lh[d[1]].ents = lg[d[1]].ents

\* What a dependency page does to the dependencies behind the tag.
LEMMA IdsDepent ==
  ASSUME NEW lg \in Seq(LogPage), NEW last \in Nat, last <= Len(lg),
         AllDepents(lg, last),
         NEW pg \in LogPage, pg.type = "depent", NEW lh, lh = Append(lg, pg)
  PROVE  IdsGrow(lg, lh, last, pg)
<1>1. /\ Len(lg) \in Nat /\ DOMAIN lg = 1..Len(lg) /\ DOMAIN lh = 1..(Len(lg) + 1)
      /\ lh[Len(lg) + 1] = pg /\ \A j \in 1..Len(lg) : lh[j] = lg[j]
  OBVIOUS
<1>a. DepIdsAre(lg, last)
  BY DepIdIs
<1>b. DepIdsAre(lh, last)
  BY DepIdIs
<1>d. \A j \in DOMAIN lg : j > last => lg[j].type = "depent"
  BY DEF AllDepents
<1>2. \A j : j \in DepPages(lg, last) <=> j \in 1..Len(lg) /\ j > last
  BY <1>1, <1>d DEF DepPages
<1>3. \A j : j \in DepPages(lh, last) <=> j \in 1..(Len(lg) + 1) /\ j > last
  <2>1. \A j \in 1..(Len(lg) + 1) : j > last => lh[j].type = "depent"
    BY <1>1, <1>d
  <2> QED
    BY <1>1, <2>1 DEF DepPages
<1>4. \A j : j \in DepPages(lh, last) <=> j \in DepPages(lg, last) \/ j = Len(lg) + 1
  BY <1>1, <1>2, <1>3
<1>5. \A j \in DepPages(lg, last) : lh[j] = lg[j]
  BY <1>1, <1>2
<1>6. \A d : d \in DepIds(lh, last) <=>
               \/ d \in DepIds(lg, last)
               \/ \E i \in DOMAIN pg.ents : d = <<Len(lg) + 1, i>>
  <2> SUFFICES ASSUME NEW d
               PROVE  d \in DepIds(lh, last) <=>
                        \/ d \in DepIds(lg, last)
                        \/ \E i \in DOMAIN pg.ents : d = <<Len(lg) + 1, i>>
    OBVIOUS
  <2>1. \A j \in DepPages(lg, last) : lh[j].ents = lg[j].ents
    BY <1>5
  <2>3. (Len(lg) + 1) \in DepPages(lh, last) /\ lh[Len(lg) + 1].ents = pg.ents
    BY <1>1, <1>4
  <2>2. (\E j \in DepPages(lh, last) : \E i \in DOMAIN lh[j].ents : d = <<j, i>>)
          <=> \/ \E j \in DepPages(lg, last) : \E i \in DOMAIN lg[j].ents : d = <<j, i>>
              \/ \E i \in DOMAIN pg.ents : d = <<Len(lg) + 1, i>>
    BY <1>4, <2>1, <2>3, Zenon
  <2> QED
    BY <1>a, <1>b, <2>2, Zenon DEF DepIdsAre
<1>7. \A d \in DepIds(lg, last) : lh[d[1]].ents = lg[d[1]].ents
  <2> SUFFICES ASSUME NEW d \in DepIds(lg, last)
               PROVE  lh[d[1]].ents = lg[d[1]].ents
    OBVIOUS
  <2>1. PICK j \in DepPages(lg, last) : \E i \in DOMAIN lg[j].ents : d = <<j, i>>
    BY <1>a DEF DepIdsAre
  <2>2. d[1] = j
    BY <2>1
  <2> QED
    BY <1>5, <2>1, <2>2
<1> QED
  BY <1>6, <1>7 DEF IdsGrow

\* Every dependency: those recovery would find in the log, and those of the
\* write buffer, with the place they will have in the log.
Ids    == DepIds(log, From)
NDeps  == IF pc = "depfull" THEN Len(deps) - 1 ELSE Len(deps)
XIds   == Ids \cup {<<Len(log) + 1, i>> : i \in 1..NDeps}
Dep(d) == IF d[1] = Len(log) + 1 THEN deps[d[2]] ELSE log[d[1]].ents[d[2]]
Deps   == [d \in XIds |-> Dep(d)]

\* The dependencies in the log, and their types.
LEMMA IdsIn ==
  ASSUME TypeOK, Tagged, NEW d \in Ids
  PROVE  /\ d[1] \in 1..Len(log) /\ d[1] > From /\ log[d[1]].type = "depent"
         /\ d[2] \in DOMAIN log[d[1]].ents /\ d = <<d[1], d[2]>>
         /\ log[d[1]].ents \in Seq(DepEnt) /\ log[d[1]].ents[d[2]] \in DepEnt
         /\ Dep(d) = log[d[1]].ents[d[2]]
<1>1. PICK j \in DepPages(log, From) : \E i \in DOMAIN log[j].ents : d = <<j, i>>
  BY DepIdIs DEF DepIdsAre, Ids
<1>i. PICK i \in DOMAIN log[j].ents : d = <<j, i>>
  BY <1>1
<1>2. log \in Seq(LogPage) /\ From \in Nat
  BY SavedType DEF TypeOK
<1>3. j \in 1..Len(log) /\ j > From /\ log[j].type = "depent" /\ log[j] \in LogPage
  BY <1>1, <1>2 DEF DepPages
<1>4. log[j].ents \in Seq(DepEnt)
  BY <1>3 DEF LogPage
<1>5. log[j].ents[i] \in DepEnt
  BY <1>i, <1>4
<1>6. d[1] = j /\ d[2] = i
  BY <1>i
<1>7. d[1] # Len(log) + 1
  BY <1>2, <1>3, <1>6
<1> QED
  BY <1>1, <1>i, <1>3, <1>4, <1>5, <1>6, <1>7 DEF Dep

\* Right after a tag there is no dependency.
LEMMA FreshIds ==
  ASSUME TypeOK, LogInv, Live, Tagged, Saved = Issued
  PROVE  XIds = {} /\ DOMAIN Deps = {}
<1>1. deps = <<>> /\ \A j \in DOMAIN log : j > From => log[j].type = "tag"
  BY DEF LogInv, FreshTail
<1>2. Ids = {}
  <2>1. \A j : j \notin DepPages(log, From)
    <3> SUFFICES ASSUME NEW j \in DepPages(log, From)
                 PROVE  FALSE
      OBVIOUS
    <3>1. From \in Nat /\ log \in Seq(LogPage)
      BY SavedType DEF TypeOK
    <3>2. j \in DOMAIN log /\ j > From /\ log[j].type = "depent"
      BY <3>1 DEF DepPages
    <3> QED
      BY <1>1, <3>2
  <2> QED
    BY <2>1, DepIdIs DEF DepIdsAre, Ids
<1>3. 1..NDeps = {}
  <2>1. NDeps \in {-1, 0}
    BY <1>1 DEF NDeps
  <2> QED
    BY <2>1
<1>4. XIds = {}
  BY <1>2, <1>3 DEF XIds
<1> QED
  BY <1>4 DEF Deps

\* With the dependency page full the entry just made is its last.
DepFullInv ==
  pc = "depfull" =>
    \E i \in Bufs : /\ FirstHit(w.lpn, i) /\ cache[Bank(w.lpn)][i].dirty
                    /\ deps # <<>> /\ deps[Len(deps)] = DepEntry(cache[Bank(w.lpn)][i])

\* A full list of dependencies is met in a lookup.
LEMMA DepFullSteps ==
  ASSUME TypeOK, [Next]_vars, pc' = "depfull"
  PROVE  \/ pc = "depfull" /\ UNCHANGED <<cache, deps, w, g_epoch>>
         \/ LookupHit
<1> USE DEF nand, wbuf, tables, chkpt, loops, gcvars, ghosts
<1>1. CASE WriteStep
  BY <1>1 DEF WriteStep, WritePool, LookupMiss, CleanPool, CleanFound, DepFull, Written, EndWrite,
              Enqueue
<1>2. CASE FlushStep
  BY <1>2 DEF FlushStep, FlushDeps, FlushBank, FlushAgain, FlushDone, TypeOK, Returns
<1>3. CASE GcStep
  BY <1>3 DEF GcStep, GcSkip, GcBegin, GcCopy, GcEnd, GcRound, EndWrite
<1>4. CASE ChkptStep
  BY <1>4 DEF ChkptStep, RecordMapent, RecordTag, PersistMap, EraseMap, EraseLog
<1>5. CASE SummaryPage \/ Timer \/ UNCHANGED vars
  BY <1>5 DEF SummaryPage, Timer, vars
<1>6. CASE \/ PoolStep \/ HostFlush \/ IdlePool \/ CrashAndRecover
           \/ \E c \in WriteCmds : HostWrite(c[1], c[2])
  BY <1>6 DEF PoolStep, HostFlush, IdlePool, HostWrite, CrashAndRecover
<1> QED
  BY <1>1, <1>2, <1>3, <1>4, <1>5, <1>6 DEF Next, FtlStep

\* A lookup that hits a dirty buffer records a dependency.
LEMMA LookupHitIs ==
  ASSUME TypeOK, LookupHit
  PROVE  \E i \in Bufs :
           /\ FirstHit(w.lpn, i) /\ i \in Hits(w.lpn) /\ Writing /\ pc = "lookup"
           /\ UNCHANGED <<log, hist, g_epoch, flash>>
           /\ \/ ~cache[Bank(w.lpn)][i].dirty /\ deps' = deps /\ Enqueue(i)
              \/ /\ cache[Bank(w.lpn)][i].dirty
                 /\ deps' = Append(deps, DepEntry(cache[Bank(w.lpn)][i]))
                 /\ Enqueue(i) \/ (pc' = "depfull" /\ UNCHANGED <<cache, w>>)
<1>1. PICK i \in Bufs :
        /\ FirstHit(w.lpn, i)
        /\ deps' = Overwrite(cache[Bank(w.lpn)][i])
        /\ IF cache[Bank(w.lpn)][i].dirty /\ Len(deps') >= DepentsPerPage
             THEN pc' = "depfull" /\ UNCHANGED <<wbuf, w>>
             ELSE Enqueue(i)
  BY DEF LookupHit
<1>2. /\ pc = "lookup" /\ UNCHANGED <<log, hist, g_epoch, flash>> /\ Writing
  BY DEF LookupHit, nand, ghosts, Writing
<1>3. i \in Hits(w.lpn)
  BY <1>1 DEF FirstHit
<1>4. CASE ~cache[Bank(w.lpn)][i].dirty
  BY <1>1, <1>2, <1>3, <1>4 DEF Overwrite
<1>5. CASE cache[Bank(w.lpn)][i].dirty
  <2>1. deps' = Append(deps, DepEntry(cache[Bank(w.lpn)][i]))
    BY <1>1, <1>5 DEF Overwrite
  <2>2. Enqueue(i) \/ (pc' = "depfull" /\ UNCHANGED <<cache, w>>)
    BY <1>1 DEF wbuf
  <2> QED
    BY <1>1, <1>2, <1>3, <1>5, <2>1, <2>2
<1> QED
  BY <1>4, <1>5

\* Every step keeps DepFullInv.
LEMMA NextDepFull ==
  ASSUME TypeOK, DepFullInv, [Next]_vars
  PROVE  DepFullInv'
<1> SUFFICES ASSUME pc' = "depfull"
             PROVE  DepFullInv'
  BY DEF DepFullInv
<1>1. CASE pc = "depfull" /\ UNCHANGED <<cache, deps, w, g_epoch>>
  <2>1. PICK i \in Bufs : /\ FirstHit(w.lpn, i) /\ cache[Bank(w.lpn)][i].dirty
                    /\ deps # <<>> /\ deps[Len(deps)] = DepEntry(cache[Bank(w.lpn)][i])
    BY <1>1 DEF DepFullInv
  <2>2. FirstHit(w.lpn, i)'
    BY <1>1, <2>1 DEF FirstHit, Hits
  <2>3. DepEntry(cache[Bank(w.lpn)][i])' = DepEntry(cache[Bank(w.lpn)][i])
    BY <1>1 DEF DepEntry
  <2> QED
    BY <1>1, <2>1, <2>2, <2>3 DEF DepFullInv
<1>2. CASE LookupHit
  <2>1. PICK i \in Bufs :
           /\ FirstHit(w.lpn, i) /\ UNCHANGED g_epoch
           /\ \/ ~cache[Bank(w.lpn)][i].dirty /\ deps' = deps /\ Enqueue(i)
              \/ /\ cache[Bank(w.lpn)][i].dirty
                 /\ deps' = Append(deps, DepEntry(cache[Bank(w.lpn)][i]))
                 /\ Enqueue(i) \/ (pc' = "depfull" /\ UNCHANGED <<cache, w>>)
    BY <1>2, LookupHitIs
  <2>2. ~Enqueue(i)
    BY DEF Enqueue
  <2>3. /\ cache[Bank(w.lpn)][i].dirty /\ UNCHANGED <<cache, w>>
        /\ deps' = Append(deps, DepEntry(cache[Bank(w.lpn)][i]))
    BY <2>1, <2>2
  <2>4. FirstHit(w.lpn, i)'
    BY <2>1, <2>3 DEF FirstHit, Hits
  <2>5. PICK y : y = DepEntry(cache[Bank(w.lpn)][i])
    OBVIOUS
  <2>6. DepEntry(cache[Bank(w.lpn)][i])' = y
    BY <2>1, <2>3, <2>5 DEF DepEntry
  <2>7. deps' # <<>> /\ deps'[Len(deps')] = y
    BY <2>3, <2>5 DEF TypeOK
  <2> QED
    BY <2>3, <2>4, <2>6, <2>7 DEF DepFullInv
<1> QED
  BY <1>1, <1>2, DepFullSteps

\* A page of the running write is buffered, in a clean buffer or in the place
\* of a dirty one.
PutClean(i) ==
  /\ i \in Bufs /\ Enqueue(i) /\ Writing /\ ~cache[Bank(w.lpn)][i].dirty
  /\ UNCHANGED <<log, deps, hist, g_epoch, flash>> /\ pc # "depfull"
PutDirty(i) ==
  /\ i \in Bufs /\ Enqueue(i) /\ Writing
  /\ cache[Bank(w.lpn)][i].dirty /\ cache[Bank(w.lpn)][i].lpn = w.lpn
  /\ UNCHANGED <<hist, g_epoch, flash>>
  /\ \/ /\ pc # "depfull" /\ log' = log
        /\ deps' = Append(deps, DepEntry(cache[Bank(w.lpn)][i]))
     \/ /\ pc = "depfull" /\ log' = Append(log, [type |-> "depent", ents |-> deps])
        /\ deps' = <<>> /\ deps # <<>>
        /\ deps[Len(deps)] = DepEntry(cache[Bank(w.lpn)][i])

\* What the other steps do to dependencies: nothing, or move them to the
\* log.
DepsRest ==
  \/ log' = log /\ deps' = deps /\ (pc = "depfull" <=> pc' = "depfull")
  \/ /\ pc = "dep" /\ pc' = "flush" /\ log' = Append(log, [type |-> "depent", ents |-> deps])
     /\ deps' = <<>>
  \/ LogsMap /\ deps' = deps /\ pc = "mapent" /\ pc' # "depfull"
  \/ RecordTag
  \/ EraseLog
  \/ log' = log /\ pc = "lookup" /\ pc' = "depfull" /\ \E e : deps' = Append(deps, e)

\* All other steps: at most one buffer becomes clean.
Rest ==
  /\ hist' = hist /\ PendingPages' = PendingPages /\ DepsRest
  /\ cache' = cache \/ \E b \in Banks : Dequeue(b)

\* With the list full it goes to the log before the page is put.
LEMMA DepFullIs ==
  ASSUME TypeOK, DepFullInv, DepFull
  PROVE  \E i : PutDirty(i)
<1>1. PICK i \in Bufs : FirstHit(w.lpn, i) /\ Enqueue(i)
  BY DEF DepFull
<1>2. /\ pc = "depfull" /\ RecordDepent /\ UNCHANGED <<hist, g_epoch, flash>> /\ Writing
  BY DEF DepFull, ghosts, Writing
<1>3. PICK j \in Bufs : /\ FirstHit(w.lpn, j) /\ cache[Bank(w.lpn)][j].dirty
                        /\ deps # <<>> /\ deps[Len(deps)] = DepEntry(cache[Bank(w.lpn)][j])
  BY <1>2 DEF DepFullInv
<1>4. i = j
  BY <1>1, <1>3 DEF FirstHit, Bufs
<1>5. cache[Bank(w.lpn)][i].lpn = w.lpn
  BY <1>1 DEF FirstHit, Hits
<1>6. log' = Append(log, [type |-> "depent", ents |-> deps]) /\ deps' = <<>>
  BY <1>2, <1>3 DEF RecordDepent
<1> QED
  BY <1>1, <1>2, <1>3, <1>4, <1>5, <1>6 DEF PutDirty

\* The steps by what they do to buffers and history.
LEMMA BufSteps ==
  ASSUME TypeOK, DepFullInv, [Next]_vars, pc # "recovered", pc' # "recovered"
  PROVE  \/ \E i : PutClean(i)
         \/ \E i : PutDirty(i)
         \/ \E c \in WriteCmds : HostWrite(c[1], c[2])
         \/ Rest
<1> USE DEF nand, wbuf, tables, chkpt, loops, gcvars, ghosts
<1>1. SUFFICES ASSUME \A c \in WriteCmds : ~HostWrite(c[1], c[2])
               PROVE  (\E i : PutClean(i)) \/ (\E i : PutDirty(i)) \/ Rest
  OBVIOUS
<1>2. ASSUME UNCHANGED w \/ pc = "idle", DepsRest,
             cache' = cache \/ \E b \in Banks : Dequeue(b)
      PROVE  Rest
  BY <1>1, <1>2, SamePending DEF Rest
<1>3. pool \in Banks
  BY DEF TypeOK
<1>4. ASSUME PoolWriteBuf
      PROVE  log' = log /\ deps' = deps /\ (cache' = cache \/ \E b \in Banks : Dequeue(b))
  BY <1>3, <1>4 DEF PoolWriteBuf, Dequeue, Program, EraseVt
<1>5. CASE WriteStep
  <2>1. CASE WritePool
    <3>1. UNCHANGED w /\ PoolWriteBuf /\ pc # "depfull" /\ pc' # "depfull"
      BY <2>1 DEF WritePool
    <3> QED
      BY <1>2, <1>4, <3>1 DEF DepsRest
  <2>2. CASE CleanPool
    <3>1. UNCHANGED w /\ PoolWriteBuf /\ pc # "depfull" /\ pc' # "depfull"
      BY <2>2 DEF CleanPool
    <3> QED
      BY <1>2, <1>4, <3>1 DEF DepsRest
  <2>3. CASE LookupMiss
    BY <1>2, <2>3 DEF LookupMiss, DepsRest
  <2>4. CASE LookupHit
    <3>1. PICK i \in Bufs :
           /\ FirstHit(w.lpn, i) /\ i \in Hits(w.lpn) /\ Writing /\ pc = "lookup"
           /\ UNCHANGED <<log, hist, g_epoch, flash>>
           /\ \/ ~cache[Bank(w.lpn)][i].dirty /\ deps' = deps /\ Enqueue(i)
              \/ /\ cache[Bank(w.lpn)][i].dirty
                 /\ deps' = Append(deps, DepEntry(cache[Bank(w.lpn)][i]))
                 /\ Enqueue(i) \/ (pc' = "depfull" /\ UNCHANGED <<cache, w>>)
      BY <2>4, LookupHitIs
    <3>2. CASE ~cache[Bank(w.lpn)][i].dirty
      <4>1. PutClean(i)
        BY <3>1, <3>2 DEF PutClean
      <4> QED
        BY <4>1
    <3>3. CASE cache[Bank(w.lpn)][i].dirty /\ Enqueue(i)
      <4>1. cache[Bank(w.lpn)][i].lpn = w.lpn
        BY <3>1 DEF Hits
      <4>2. PutDirty(i)
        BY <3>1, <3>3, <4>1 DEF PutDirty
      <4> QED
        BY <4>2
    <3>4. CASE /\ cache[Bank(w.lpn)][i].dirty /\ pc' = "depfull" /\ UNCHANGED <<cache, w>>
               /\ deps' = Append(deps, DepEntry(cache[Bank(w.lpn)][i]))
      <4>1. DepsRest
        BY <3>1, <3>4 DEF DepsRest
      <4> QED
        BY <1>2, <3>4, <4>1
    <3> QED
      BY <3>1, <3>2, <3>3, <3>4
  <2>5. CASE CleanFound
    <3>1. PICK i \in Bufs : LruLast(Bank(w.lpn), Bufs \ DirtyBufs(Bank(w.lpn)), i) /\ Enqueue(i)
      BY <2>5 DEF CleanFound
    <3>2. UNCHANGED <<flash, log, deps, hist, g_epoch>> /\ pc = "clean"
      BY <2>5 DEF CleanFound
    <3>3. ~cache[Bank(w.lpn)][i].dirty
      BY <3>1 DEF LruLast, DirtyBufs
    <3>4. PutClean(i)
      BY <3>1, <3>2, <3>3 DEF PutClean, Writing
    <3> QED
      BY <3>4
  <2>6. CASE DepFull
    BY <2>6, DepFullIs
  <2>7. CASE Written
    BY <1>2, <2>7 DEF Written, EndWrite, DepsRest
  <2> QED
    BY <1>5, <2>1, <2>2, <2>3, <2>4, <2>5, <2>6, <2>7 DEF WriteStep
<1>6. CASE FlushStep
  <2>1. CASE FlushBank
    <3>1. bank \in Banks /\ pc = "flush" /\ pc' = pc /\ UNCHANGED w
      BY <2>1, RecoveryAssumption DEF FlushBank, TypeOK, Banks
    <3>2. log' = log /\ deps' = deps /\ (cache' = cache \/ \E b \in Banks : Dequeue(b))
      BY <2>1, <3>1 DEF FlushBank, Dequeue, Program
    <3> QED
      BY <1>2, <3>1, <3>2 DEF DepsRest
  <2>2. CASE FlushDeps
    <3>1. pc = "dep" /\ pc' = "flush" /\ RecordDepent /\ UNCHANGED <<w, cache>>
      BY <2>2 DEF FlushDeps
    <3>2. CASE deps = <<>>
      BY <1>2, <3>1, <3>2 DEF RecordDepent, DepsRest
    <3>3. CASE deps # <<>>
      BY <1>2, <3>1, <3>3 DEF RecordDepent, DepsRest
    <3> QED
      BY <3>2, <3>3
  <2>3. CASE FlushAgain
    BY <1>2, <2>3 DEF FlushAgain, DepsRest
  <2>4. CASE FlushDone
    <3>1. pc' # "depfull"
      BY <2>4 DEF FlushDone, TypeOK, Returns
    <3> QED
      BY <1>2, <2>4, <3>1 DEF FlushDone, DepsRest
  <2> QED
    BY <1>6, <2>1, <2>2, <2>3, <2>4 DEF FlushStep
<1>7. CASE GcStep
  <2>1. UNCHANGED <<log, deps, cache, w>> /\ pc # "depfull" /\ pc' # "depfull"
    <3>1. CASE GcSkip \/ GcBegin \/ GcEnd \/ GcRound
      BY <3>1 DEF GcSkip, GcBegin, GcEnd, GcRound, EndWrite
    <3>2. CASE GcCopy
      BY <3>2 DEF GcCopy, Program
    <3> QED
      BY <1>7, <3>1, <3>2 DEF GcStep
  <2> QED
    BY <1>2, <2>1 DEF DepsRest
<1>8. CASE ChkptStep
  <2>1. CASE RecordMapent
    BY <1>2, <2>1 DEF RecordMapent, LogsMap, DepsRest
  <2>2. CASE RecordTag \/ PersistMap \/ EraseMap \/ EraseLog
    BY <1>2, <2>2 DEF RecordTag, PersistMap, EraseMap, EraseLog, DepsRest
  <2> QED
    BY <1>8, <2>1, <2>2 DEF ChkptStep
<1>9. CASE SummaryPage
  BY <1>2, <1>9 DEF SummaryPage, DepsRest
<1>10. CASE PoolStep
  <2>1. UNCHANGED w /\ PoolWriteBuf /\ pc # "depfull" /\ pc' # "depfull"
    BY <1>10 DEF PoolStep
  <2> QED
    BY <1>2, <1>4, <2>1 DEF DepsRest
<1>11. CASE Timer \/ HostFlush \/ IdlePool \/ UNCHANGED vars
  BY <1>2, <1>11 DEF Timer, HostFlush, IdlePool, DepsRest, vars
<1> QED
  BY <1>1, <1>5, <1>6, <1>7, <1>8, <1>9, <1>10, <1>11 DEF Next, FtlStep, CrashAndRecover

XIdsAre(x, ids, n, m) == \A d : d \in x <=> d \in ids \/ \E i \in 1..m : d = <<n + 1, i>>

\* Ids and the dependencies in DRAM, before and after a step.
LEMMA XIdsIs == XIdsAre(XIds, Ids, Len(log), NDeps)
BY DEF XIds, XIdsAre

\* The same after a step.
LEMMA XIdsNext == XIdsAre(XIds', Ids', Len(log'), NDeps')
BY DEF XIds, XIdsAre

\* How many dependencies in DRAM count, before ...
LEMMA NDepsType ==
  ASSUME TypeOK, DepFullInv
  PROVE  /\ NDeps \in Nat /\ Len(deps) \in Nat /\ NDeps <= Len(deps)
         /\ pc # "depfull" => NDeps = Len(deps)
         /\ pc = "depfull" => NDeps = Len(deps) - 1
<1>1. deps \in Seq(DepEnt)
  BY DEF TypeOK
<1>2. pc = "depfull" => Len(deps) # 0
  BY <1>1 DEF DepFullInv
<1> QED
  BY <1>1, <1>2 DEF NDeps

\* ... and after a step.
LEMMA NDepsNext ==
  ASSUME TypeOK', DepFullInv'
  PROVE  /\ NDeps' \in Nat /\ Len(deps') \in Nat /\ NDeps' <= Len(deps')
         /\ pc' # "depfull" => NDeps' = Len(deps')
         /\ pc' = "depfull" => NDeps' = Len(deps') - 1
<1>1. deps' \in Seq(DepEnt)
  BY DEF TypeOK
<1>2. pc' = "depfull" => Len(deps') # 0
  BY <1>1 DEF DepFullInv
<1> QED
  BY <1>1, <1>2 DEF NDeps

\* What the dependencies are in the next state, for a log that did not change.
LEMMA SameIds ==
  ASSUME TypeOK, Tagged, UNCHANGED log
  PROVE  /\ Ids' = Ids /\ Len(log') = Len(log)
         /\ \A d \in Ids : Dep(d)' = Dep(d)
<1>1. From' = From
  BY SameLog
<1>2. Ids' = Ids
  BY <1>1 DEF Ids
<1>3. \A d \in Ids : d[1] # Len(log) + 1
  <2> SUFFICES ASSUME NEW d \in Ids
               PROVE  d[1] # Len(log) + 1
    OBVIOUS
  <2>1. d[1] \in 1..Len(log)
    BY IdsIn
  <2> QED
    BY <2>1 DEF TypeOK
<1> QED
  BY <1>2, <1>3 DEF Dep

\* What the log says of dependencies after a page is appended.
LEMMA GrownIds ==
  ASSUME TypeOK, Tagged, NEW pg \in LogPage, pg.type # "tag", log' = Append(log, pg),
         pg.type = "depent" => \A j \in DOMAIN log : j > From => log[j].type = "depent"
  PROVE  /\ pg.type # "depent" => Ids' = Ids
         /\ pg.type = "depent" =>
              \A d : d \in Ids' <=> d \in Ids \/ \E i \in DOMAIN pg.ents : d = <<Len(log) + 1, i>>
         /\ \A d \in Ids : Dep(d)' = Dep(d)
         /\ \A d : \A i \in DOMAIN pg.ents : d = <<Len(log) + 1, i>> => Dep(d)' = pg.ents[i]
         /\ Len(log') = Len(log) + 1
<1>1. log \in Seq(LogPage) /\ From \in 1..Len(log) /\ From \in Nat /\ Len(log) \in Nat
  BY SavedType DEF TypeOK
<1>2. From' = From
  BY AppendKeeps DEF LogKeeps
<1>3. Len(log') = Len(log) + 1 /\ log'[Len(log) + 1] = pg
  BY <1>1
<1>4. \A d \in Ids : log'[d[1]].ents = log[d[1]].ents
  <2>1. CASE pg.type # "depent"
    BY <1>1, <2>1, IdsOther DEF Ids
  <2>2. CASE pg.type = "depent"
    <3>1. From <= Len(log) /\ AllDepents(log, From)
      BY <1>1, <2>2 DEF AllDepents
    <3>2. IdsGrow(log, log', From, pg)
      BY <1>1, <2>2, <3>1, IdsDepent
    <3> QED
      BY <3>2 DEF Ids, IdsGrow
  <2> QED
    BY <2>1, <2>2
<1>5. \A d \in Ids : Dep(d)' = Dep(d)
  <2> SUFFICES ASSUME NEW d \in Ids
               PROVE  Dep(d)' = Dep(d)
    OBVIOUS
  <2>1. d[1] \in 1..Len(log) /\ Dep(d) = log[d[1]].ents[d[2]]
    BY IdsIn
  <2>2. d[1] # Len(log') + 1
    BY <1>1, <1>3, <2>1
  <2> QED
    BY <1>4, <2>1, <2>2 DEF Dep
<1>6. \A d : \A i \in DOMAIN pg.ents : d = <<Len(log) + 1, i>> => Dep(d)' = pg.ents[i]
  <2>1. Len(log) + 1 # Len(log') + 1
    BY <1>1, <1>3
  <2> SUFFICES ASSUME NEW d, NEW i \in DOMAIN pg.ents, d = <<Len(log) + 1, i>>
               PROVE  Dep(d)' = pg.ents[i]
    OBVIOUS
  <2>2. d[1] = Len(log) + 1 /\ d[2] = i
    OBVIOUS
  <2> QED
    BY <1>3, <2>1, <2>2 DEF Dep
<1>7. pg.type # "depent" => Ids' = Ids
  BY <1>1, <1>2, IdsOther DEF Ids
<1>8. ASSUME pg.type = "depent"
      PROVE  \A d : d \in Ids' <=> d \in Ids \/ \E i \in DOMAIN pg.ents : d = <<Len(log) + 1, i>>
  <2>1. From <= Len(log)
    BY <1>1
  <2> QED
    <3>1. AllDepents(log, From)
      BY <1>8 DEF AllDepents
    <3>2. IdsGrow(log, log', From, pg)
      BY <1>1, <1>8, <2>1, <3>1, IdsDepent
    <3> QED
      BY <1>2, <3>2 DEF Ids, IdsGrow
<1> QED
  BY <1>3, <1>5, <1>6, <1>7, <1>8

\* Dependencies that stay one by one stay together.
LEMMA SameDeps ==
  ASSUME \A d : d \in XIds' <=> d \in XIds, \A d \in XIds : Dep(d)' = Dep(d)
  PROVE  Deps' = Deps
<1>1. XIds' = XIds
  OBVIOUS
<1> QED
  BY <1>1 DEF Deps

\* The dependencies in DRAM, as if they were the next page of the log.
LEMMA BufDep ==
  ASSUME NEW i
  PROVE  Dep(<<Len(log) + 1, i>>) = deps[i]
BY DEF Dep

\* Moving the dependencies to the log does not change what they are.
LEMMA RestDeps ==
  ASSUME TypeOK, DepFullInv, TypeOK', DepFullInv', FlushInv, LogInv, Live, Tagged,
         DepsRest, ~RecordTag, ~EraseLog
  PROVE  Deps' = Deps
<1>0. XIdsAre(XIds, Ids, Len(log), NDeps) /\ XIdsAre(XIds', Ids', Len(log'), NDeps')
  BY XIdsIs, XIdsNext
<1>t. deps \in Seq(DepEnt) /\ log \in Seq(LogPage) /\ Len(log) \in Nat /\ deps' \in Seq(DepEnt)
  BY DEF TypeOK
<1>n. /\ NDeps \in Nat /\ Len(deps) \in Nat /\ NDeps <= Len(deps)
      /\ pc # "depfull" => NDeps = Len(deps)
      /\ pc = "depfull" => NDeps = Len(deps) - 1
      /\ NDeps' \in Nat /\ Len(deps') \in Nat /\ NDeps' <= Len(deps')
      /\ pc' # "depfull" => NDeps' = Len(deps')
      /\ pc' = "depfull" => NDeps' = Len(deps') - 1
  BY NDepsType, NDepsNext
<1>1. CASE log' = log /\ deps' = deps /\ (pc = "depfull" <=> pc' = "depfull")
  <2>1. NDeps' = NDeps
    BY <1>1 DEF NDeps
  <2>2. Ids' = Ids /\ Len(log') = Len(log) /\ \A d \in Ids : Dep(d)' = Dep(d)
    BY <1>1, SameIds
  <2>3. \A d : d \in XIds' <=> d \in XIds
    BY <1>0, <2>1, <2>2 DEF XIdsAre
  <2>4. \A d : Dep(d)' = Dep(d)
    BY <1>1 DEF Dep
  <2> QED
    BY <2>3, <2>4, SameDeps
<1>2. CASE /\ pc = "dep" /\ pc' = "flush" /\ log' = Append(log, [type |-> "depent", ents |-> deps])
           /\ deps' = <<>>
  <2>1. PICK pg : pg = [type |-> "depent", ents |-> deps]
    OBVIOUS
  <2>2. pg \in LogPage /\ pg.type = "depent" /\ pg.ents = deps /\ log' = Append(log, pg)
    BY <1>2, <1>t, <2>1 DEF LogPage
  <2>3. \A j \in DOMAIN log : j > From => log[j].type = "depent"
    BY <1>2 DEF LogInv, LogTail, Fresh
  <2>4. /\ \A d : d \in Ids' <=> d \in Ids \/ \E i \in DOMAIN pg.ents : d = <<Len(log) + 1, i>>
        /\ \A d \in Ids : Dep(d)' = Dep(d)
        /\ \A d : \A i \in DOMAIN pg.ents : d = <<Len(log) + 1, i>> => Dep(d)' = pg.ents[i]
        /\ Len(log') = Len(log) + 1
    BY <2>2, <2>3, GrownIds
  <2>5. NDeps' = 0 /\ NDeps = Len(deps) /\ DOMAIN pg.ents = 1..NDeps
    BY <1>2, <1>n, <1>t, <2>2
  <2>6. \A d : d \in XIds' <=> d \in XIds
    BY <1>0, <2>4, <2>5 DEF XIdsAre
  <2>7. ASSUME NEW d \in XIds
        PROVE  Dep(d)' = Dep(d)
    <3>1. CASE d \in Ids
      BY <2>4, <3>1
    <3>2. CASE \E i \in 1..NDeps : d = <<Len(log) + 1, i>>
      <4>1. PICK i \in 1..NDeps : d = <<Len(log) + 1, i>>
        BY <3>2
      <4>2. Dep(d)' = pg.ents[i]
        BY <2>4, <2>5, <4>1
      <4>3. Dep(<<Len(log) + 1, i>>) = deps[i]
        BY BufDep
      <4> QED
        BY <2>2, <4>1, <4>2, <4>3
    <3> QED
      BY <1>0, <3>1, <3>2 DEF XIdsAre
  <2> QED
    BY <2>6, <2>7, SameDeps
<1>3. CASE LogsMap /\ deps' = deps /\ pc = "mapent" /\ pc' # "depfull"
  <2>1. deps = <<>> /\ NDeps = 0 /\ NDeps' = 0
    BY <1>3, <1>n DEF FlushInv
  <2>2. PICK pg \in LogPage : log' = Append(log, pg) /\ pg.type = "mapent"
    <3>1. PICK n : log' = Append(log, [type |-> "mapent", ents |-> SubSeq(mapents, 1, n)])
                   /\ n \in 0..Len(mapents)
      <4>1. PICK n : n = IF Len(mapents) < MapentsPerPage THEN Len(mapents) ELSE MapentsPerPage
        OBVIOUS
      <4>2. n \in 0..Len(mapents)
        <5>1. mapents \in Seq(MapEnt)
          BY DEF TypeOK
        <5>2. Len(mapents) \in Nat
          BY <5>1
        <5>3. MapentsPerPage \in Nat
          BY FtlAssumption
        <5> QED
          BY <4>1, <5>2, <5>3
      <4> QED
        BY <1>3, <4>1, <4>2 DEF LogsMap, RecordMapent
    <3>2. SubSeq(mapents, 1, n) \in Seq(MapEnt)
      <4>1. mapents \in Seq(MapEnt)
        BY DEF TypeOK
      <4>2. \A i \in 1..n : mapents[i] \in MapEnt
        BY <3>1, <4>1
      <4> QED
        BY <3>1, <4>1, <4>2
    <3> QED
      BY <3>1, <3>2 DEF LogPage
  <2>3. Ids' = Ids /\ \A d \in Ids : Dep(d)' = Dep(d)
    BY <2>2, GrownIds
  <2>4. \A d : d \in XIds' <=> d \in XIds
    BY <1>0, <2>1, <2>3 DEF XIdsAre
  <2>5. \A d \in XIds : d \in Ids
    BY <1>0, <2>1 DEF XIdsAre
  <2> QED
    BY <2>3, <2>4, <2>5, SameDeps
<1>4. CASE log' = log /\ pc = "lookup" /\ pc' = "depfull" /\ \E e : deps' = Append(deps, e)
  <2>1. PICK e : deps' = Append(deps, e)
    BY <1>4
  <2>2. NDeps' = NDeps /\ NDeps = Len(deps) /\ \A i \in 1..Len(deps) : deps'[i] = deps[i]
    BY <1>4, <1>n, <1>t, <2>1
  <2>3. Ids' = Ids /\ Len(log') = Len(log) /\ \A d \in Ids : Dep(d)' = Dep(d)
    BY <1>4, SameIds
  <2>4. \A d : d \in XIds' <=> d \in XIds
    BY <1>0, <2>2, <2>3 DEF XIdsAre
  <2>5. ASSUME NEW d \in XIds
        PROVE  Dep(d)' = Dep(d)
    <3>1. CASE d \in Ids
      BY <2>3, <3>1
    <3>2. CASE \E i \in 1..NDeps : d = <<Len(log) + 1, i>>
      BY <1>4, <2>2, <3>2 DEF Dep
    <3> QED
      BY <1>0, <3>1, <3>2 DEF XIdsAre
  <2> QED
    BY <2>4, <2>5, SameDeps
<1> QED
  BY <1>1, <1>2, <1>3, <1>4 DEF DepsRest

\* A page that overwrites nothing adds no dependency.
LEMMA PutCleanDeps ==
  ASSUME TypeOK, DepFullInv, TypeOK', DepFullInv', FlushInv, LogInv, Live, Tagged,
         NEW i, PutClean(i)
  PROVE  Deps' = Deps
<1>1. pc # "depfull" /\ pc' # "depfull" /\ log' = log /\ deps' = deps
  BY DEF PutClean, Enqueue
<1>2. DepsRest
  BY <1>1 DEF DepsRest
<1>3. ~RecordTag /\ ~EraseLog
  BY DEF PutClean, Writing, RecordTag, EraseLog
<1> QED
  BY <1>2, <1>3, RestDeps

\* An overwrite adds one, whether the list was full or not.
LEMMA PutDirtyDeps ==
  ASSUME TypeOK, DepFullInv, TypeOK', DepFullInv', LogInv, Live, Tagged,
         NEW i, PutDirty(i), NEW e, e = DepEntry(cache[Bank(w.lpn)][i])
  PROVE  \E y : AddsDep(Deps, Deps', y, e.src, e.dst, e.span)
<1>0. XIdsAre(XIds, Ids, Len(log), NDeps) /\ XIdsAre(XIds', Ids', Len(log'), NDeps')
  BY XIdsIs, XIdsNext
<1>t. deps \in Seq(DepEnt) /\ log \in Seq(LogPage) /\ Len(log) \in Nat /\ deps' \in Seq(DepEnt)
  BY DEF TypeOK
<1>n. /\ NDeps \in Nat /\ Len(deps) \in Nat /\ NDeps <= Len(deps)
      /\ pc # "depfull" => NDeps = Len(deps)
      /\ pc = "depfull" => NDeps = Len(deps) - 1
      /\ NDeps' \in Nat /\ Len(deps') \in Nat /\ NDeps' <= Len(deps')
      /\ pc' # "depfull" => NDeps' = Len(deps')
  BY NDepsType, NDepsNext
<1>p. pc' # "depfull" /\ NDeps' = Len(deps')
  BY <1>n DEF PutDirty, Enqueue
<1>1. PICK y : y = <<Len(log) + 1, NDeps + 1>>
  OBVIOUS
<1>2. y \notin XIds
  <2>1. y \notin Ids
    <3>1. SUFFICES ASSUME y \in Ids
                   PROVE  FALSE
      OBVIOUS
    <3>2. y[1] \in 1..Len(log)
      BY <3>1, IdsIn
    <3> QED
      BY <1>1, <1>t, <3>2
  <2>2. ~\E j \in 1..NDeps : y = <<Len(log) + 1, j>>
    BY <1>1, <1>n
  <2> QED
    BY <1>0, <2>1, <2>2 DEF XIdsAre
<1>3. /\ \A d : d \in XIds' <=> d \in XIds \/ d = y
      /\ \A d \in XIds : Dep(d)' = Dep(d)
      /\ Dep(y)' = e
  <2>1. CASE /\ pc # "depfull" /\ log' = log
             /\ deps' = Append(deps, e)
    <3>1. /\ NDeps' = NDeps + 1 /\ NDeps = Len(deps) /\ deps'[NDeps + 1] = e
          /\ \A j \in 1..Len(deps) : deps'[j] = deps[j]
      BY <1>p, <1>n, <1>t, <2>1
    <3>2. Ids' = Ids /\ Len(log') = Len(log) /\ \A d \in Ids : Dep(d)' = Dep(d)
      BY <2>1, SameIds
    <3>3. \A d : d \in XIds' <=> d \in XIds \/ d = y
      <4>1. \A j : j \in 1..NDeps' <=> j \in 1..NDeps \/ j = NDeps + 1
        BY <1>n, <3>1
      <4> QED
        BY <1>0, <1>1, <3>2, <4>1 DEF XIdsAre
    <3>4. ASSUME NEW d \in XIds
          PROVE  Dep(d)' = Dep(d)
      <4>1. CASE d \in Ids
        BY <3>2, <4>1
      <4>2. CASE \E j \in 1..NDeps : d = <<Len(log) + 1, j>>
        BY <2>1, <3>1, <4>2 DEF Dep
      <4> QED
        BY <1>0, <4>1, <4>2 DEF XIdsAre
    <3>5. Dep(y)' = e
      BY <1>1, <2>1, <3>1 DEF Dep
    <3> QED
      BY <3>3, <3>4, <3>5
  <2>2. CASE /\ pc = "depfull" /\ log' = Append(log, [type |-> "depent", ents |-> deps])
             /\ deps' = <<>> /\ deps[Len(deps)] = e
    <3>1. PICK pg : pg = [type |-> "depent", ents |-> deps]
      OBVIOUS
    <3>2. pg \in LogPage /\ pg.type = "depent" /\ pg.ents = deps /\ log' = Append(log, pg)
      BY <2>2, <1>t, <3>1 DEF LogPage
    <3>3. \A j \in DOMAIN log : j > From => log[j].type = "depent"
      BY <2>2 DEF LogInv, LogTail, Fresh
    <3>4. /\ \A d : d \in Ids' <=> d \in Ids \/ \E j \in DOMAIN pg.ents : d = <<Len(log) + 1, j>>
          /\ \A d \in Ids : Dep(d)' = Dep(d)
          /\ \A d : \A j \in DOMAIN pg.ents : d = <<Len(log) + 1, j>> => Dep(d)' = pg.ents[j]
          /\ Len(log') = Len(log) + 1
      BY <3>2, <3>3, GrownIds
    <3>5. /\ NDeps' = 0 /\ NDeps + 1 = Len(deps) /\ DOMAIN pg.ents = 1..(NDeps + 1)
          /\ NDeps + 1 \in DOMAIN pg.ents /\ pg.ents[NDeps + 1] = e
      BY <1>p, <1>n, <1>t, <2>2, <3>2
    <3>6. \A d : d \in XIds' <=> d \in XIds \/ d = y
      <4>1. \A j : j \in DOMAIN pg.ents <=> j \in 1..NDeps \/ j = NDeps + 1
        BY <1>n, <3>5
      <4>2. \A d : d \in XIds' <=> d \in Ids'
        BY <1>0, <3>5 DEF XIdsAre
      <4> QED
        BY <1>0, <1>1, <3>4, <4>1, <4>2 DEF XIdsAre
    <3>7. ASSUME NEW d \in XIds
          PROVE  Dep(d)' = Dep(d)
      <4>1. CASE d \in Ids
        BY <3>4, <4>1
      <4>2. CASE \E j \in 1..NDeps : d = <<Len(log) + 1, j>>
        <5>1. PICK j \in 1..NDeps : d = <<Len(log) + 1, j>>
          BY <4>2
        <5>2. j \in DOMAIN pg.ents
          BY <1>n, <3>5
        <5>3. Dep(d)' = pg.ents[j]
          BY <3>4, <5>1, <5>2
        <5>4. Dep(<<Len(log) + 1, j>>) = deps[j]
          BY BufDep
        <5> QED
          BY <3>2, <5>1, <5>3, <5>4
      <4> QED
        BY <1>0, <4>1, <4>2 DEF XIdsAre
    <3>8. Dep(y)' = e
      BY <1>1, <3>4, <3>5
    <3> QED
      BY <3>6, <3>7, <3>8
  <2> QED
    BY <2>1, <2>2 DEF PutDirty
<1>4. /\ DOMAIN Deps = XIds /\ DOMAIN Deps' = XIds \cup {y} /\ y \notin DOMAIN Deps
      /\ \A d \in DOMAIN Deps : Deps'[d] = Deps[d]
      /\ Deps'[y] = e
  <2>1. DOMAIN Deps' = XIds' /\ XIds' = XIds \cup {y} /\ DOMAIN Deps = XIds
    BY <1>3 DEF Deps
  <2>2. \A d \in XIds : Deps'[d] = Dep(d)' /\ Deps[d] = Dep(d)
    BY <1>3 DEF Deps
  <2>3. Deps'[y] = Dep(y)'
    BY <1>3 DEF Deps
  <2> QED
    BY <1>2, <1>3, <2>1, <2>2, <2>3
<1>5. AddsDep(Deps, Deps', y, e.src, e.dst, e.span)
  BY <1>4 DEF AddsDep
<1> QED
  BY <1>5

-----------------------------------------------------------------------------
(* The running write.                                                      *)

\* The running write has the pages that the history says; no write is empty.
RunInv ==
  Live => /\ Writing => /\ Issued >= 1 /\ w.span = Cardinality(hist[Issued])
                        /\ PendingPages \subseteq hist[Issued]
          /\ \A e \in 1..Issued : hist[e] # {}

\* The write commands of the host.
LEMMA CmdsType ==
  ASSUME NEW c \in WriteCmds
  PROVE  /\ c[1] \in Nat /\ c[2] \in Nat /\ c[2] > 0
         /\ c[1]..(c[1] + c[2] - 1) \in SUBSET Lpns
<1>1. c \in Lpns \X (Nat \ {0}) /\ c[1]..(c[1] + c[2] - 1) \subseteq Lpns
  BY FtlAssumption
<1>2. c[1] \in Lpns /\ c[2] \in Nat \ {0}
  BY <1>1
<1>3. c[1] \in Nat
  BY <1>2, RecoveryAssumption
<1> QED
  BY <1>1, <1>2, <1>3

\* The span of the running write is set when it is issued.
LEMMA SpanSteps ==
  ASSUME TypeOK, [Next]_vars, pc # "recovered", pc' # "recovered"
  PROVE  w'.span = w.span \/ \E c \in WriteCmds : HostWrite(c[1], c[2])
<1>1. CASE UNCHANGED vars
  BY <1>1 DEF vars
<1>2. CASE WriteStep
  <2>1. ASSUME NEW i, Enqueue(i)
        PROVE  w'.span = w.span
    BY <2>1 DEF Enqueue, TypeOK
  <2>2. CASE WritePool \/ LookupMiss \/ CleanPool \/ Written
    BY <2>2 DEF WritePool, LookupMiss, CleanPool, Written
  <2>3. CASE LookupHit
    BY <2>1, <2>3 DEF LookupHit
  <2>4. CASE CleanFound \/ DepFull
    BY <2>1, <2>4 DEF CleanFound, DepFull
  <2> QED
    BY <1>2, <2>2, <2>3, <2>4 DEF WriteStep
<1>3. CASE FlushStep
  BY <1>3 DEF FlushStep, FlushDeps, FlushBank, FlushAgain, FlushDone
<1>4. CASE GcStep
  BY <1>4 DEF GcStep, GcSkip, GcBegin, GcCopy, GcEnd, GcRound
<1>5. CASE ChkptStep
  BY <1>5 DEF ChkptStep, RecordMapent, RecordTag, PersistMap, EraseMap, EraseLog
<1>6. CASE SummaryPage \/ PoolStep \/ HostFlush \/ IdlePool \/ Timer
  BY <1>6 DEF SummaryPage, PoolStep, HostFlush, IdlePool, Timer
<1>7. CASE CrashAndRecover
  BY <1>7 DEF CrashAndRecover
<1> QED
  BY <1>1, <1>2, <1>3, <1>4, <1>5, <1>6, <1>7 DEF Next, FtlStep

\* What a page put in the buffer changes.
PutIs(i) ==
  /\ i \in Bufs /\ Bank(w.lpn) \in Banks /\ w.lpn \in Lpns /\ w.lpn \in PendingPages
  /\ OthersKept(cache, cache', Bank(w.lpn), i)
  /\ cache'[Bank(w.lpn)][i] = [lpn |-> w.lpn, dirty |-> TRUE, span |-> w.span,
                               epoch |-> g_epoch]
  /\ PendingPages' = PendingPages \ {w.lpn}
  /\ w'.span = w.span /\ hist' = hist

\* Enqueue: the buffer, the pages still to come, the history.
LEMMA PutFacts ==
  ASSUME TypeOK, Writing, NEW i \in Bufs, Enqueue(i), hist' = hist
  PROVE  PutIs(i)
<1>1. w.lpn \in Lpns /\ Bank(w.lpn) \in Banks
  BY WritingBank
<1>2. \A c \in Banks, j \in Bufs :
           cache'[c][j] = IF c = Bank(w.lpn) /\ j = i
                            THEN [lpn |-> w.lpn, dirty |-> TRUE, span |-> w.span,
                                  epoch |-> g_epoch]
                            ELSE cache[c][j]
  BY BuffersEnts
<1>3. OthersKept(cache, cache', Bank(w.lpn), i)
  BY <1>2 DEF OthersKept
<1>4. w \in [lpn: Nat, remain: Nat, span: Nat] /\ w.remain > 0
  BY DEF TypeOK
<1>5. w' = [w EXCEPT !.lpn = @ + 1, !.remain = @ - 1]
      /\ pc' = IF w.remain = 1 THEN "written" ELSE "page"
  BY DEF Enqueue
<1>6. w'.lpn = w.lpn + 1 /\ w'.remain = w.remain - 1 /\ w'.span = w.span
  BY <1>4, <1>5
<1>7. PendingPages = w.lpn..(w.lpn + w.remain - 1) /\ w.lpn \in PendingPages
  BY <1>4 DEF PendingPages
<1>8. PendingPages' = PendingPages \ {w.lpn}
  <2>1. CASE w.remain = 1
    <3>1. PendingPages' = {}
      BY <1>5, <2>1 DEF PendingPages, Writing
    <3>2. PendingPages = {w.lpn}
      BY <1>4, <1>7, <2>1
    <3> QED
      BY <3>1, <3>2
  <2>2. CASE w.remain # 1
    <3>1. PendingPages' = (w.lpn + 1)..(w.lpn + 1 + (w.remain - 1) - 1)
      BY <1>5, <1>6, <2>2 DEF PendingPages, Writing
    <3> QED
      BY <1>4, <1>7, <3>1
  <2> QED
    BY <2>1, <2>2
<1> QED
  BY <1>1, <1>2, <1>3, <1>6, <1>7, <1>8 DEF PutIs

\* A new write: all its pages are still to come.
LEMMA IssueIs ==
  ASSUME TypeOK, NEW c \in WriteCmds, HostWrite(c[1], c[2])
  PROVE  \E T \in SUBSET Lpns :
           /\ hist' = Append(hist, T) /\ T # {} /\ PendingPages' = T /\ PendingPages = {}
           /\ w'.span = Cardinality(T)
<1>1. PICK T : T = c[1]..(c[1] + c[2] - 1)
  OBVIOUS
<1>2. c[1] \in Nat /\ c[2] \in Nat /\ c[2] > 0 /\ T \in SUBSET Lpns
  BY <1>1, CmdsType
<1>3. hist' = Append(hist, T) /\ pc = "idle" /\ pc' = "page"
      /\ w' = [lpn |-> c[1], remain |-> c[2], span |-> c[2]]
  BY <1>1 DEF HostWrite
<1>4. PendingPages = {} /\ PendingPages' = T
  BY <1>1, <1>3 DEF PendingPages, Writing
<1>5. T # {} /\ Cardinality(T) = c[2]
  <2>1. c[1] \in T
    BY <1>1, <1>2
  <2>2. PICK m : m = c[1] + c[2] - 1
    OBVIOUS
  <2>3. c[1] \in Int /\ m \in Int /\ m - c[1] + 1 = c[2] /\ ~(c[1] > m) /\ T = c[1]..m
    BY <1>1, <1>2, <2>2
  <2>4. Cardinality(c[1]..m) = IF c[1] > m THEN 0 ELSE m - c[1] + 1
    BY <2>3, FS_Interval
  <2> QED
    BY <2>1, <2>3, <2>4
<1>6. w'.span = c[2]
  BY <1>3
<1> QED
  BY <1>2, <1>3, <1>4, <1>5, <1>6

\* Every step keeps RunInv.
LEMMA NextRun ==
  ASSUME TypeOK, TypeOK', DepFullInv, RunInv, [Next]_vars
  PROVE  RunInv'
<1> SUFFICES ASSUME pc' # "recovered"
             PROVE  RunInv'
  BY DEF RunInv, Live
<1>1. pc # "recovered"
  BY RecoveredStays DEF vars
<1>t. hist \in Seq(SUBSET Lpns) /\ Issued \in Nat
  BY DEF TypeOK, Issued
<1>2. ASSUME NEW i, i \in Bufs, Enqueue(i), Writing, hist' = hist
      PROVE  RunInv'
  <2>1. PutIs(i)
    BY <1>2, PutFacts
  <2>2. Issued' = Issued
    BY <1>2 DEF Issued
  <2> QED
    BY <1>1, <1>2, <2>1, <2>2 DEF PutIs, RunInv, Live
<1>3. CASE \E i : PutClean(i)
  BY <1>2, <1>3 DEF PutClean
<1>4. CASE \E i : PutDirty(i)
  BY <1>2, <1>4 DEF PutDirty
<1>5. CASE \E c \in WriteCmds : HostWrite(c[1], c[2])
  <2>1. PICK T \in SUBSET Lpns :
           /\ hist' = Append(hist, T) /\ T # {} /\ PendingPages' = T /\ PendingPages = {}
           /\ w'.span = Cardinality(T)
    BY <1>5, IssueIs
  <2>2. Issued' = Issued + 1 /\ hist'[Issued + 1] = T /\ \A e \in 1..Issued : hist'[e] = hist[e]
    BY <1>t, <2>1 DEF Issued
  <2>3. \A e \in 1..(Issued + 1) : e \in 1..Issued \/ e = Issued + 1
    BY <1>t
  <2>4. Issued' >= 1 /\ hist'[Issued'] = T
    BY <1>t, <2>2
  <2>5. w'.span = Cardinality(hist'[Issued']) /\ PendingPages' \subseteq hist'[Issued']
    BY <2>1, <2>4
  <2>6. \A e \in 1..Issued : hist[e] # {}
    BY <1>1 DEF RunInv, Live
  <2>7. \A e \in 1..Issued' : hist'[e] # {}
    BY <2>1, <2>2, <2>3, <2>6
  <2> QED
    BY <2>4, <2>5, <2>7 DEF RunInv
<1>6. CASE Rest /\ ~\E c \in WriteCmds : HostWrite(c[1], c[2])
  <2>1. w'.span = w.span /\ hist' = hist /\ PendingPages' = PendingPages /\ Issued' = Issued
    BY <1>1, <1>6, SpanSteps DEF Rest, Issued
  <2>2. ASSUME Writing'
        PROVE  Writing
    <3>1. w' \in [lpn: Nat, remain: Nat, span: Nat] /\ w'.remain > 0
      BY <2>2 DEF TypeOK
    <3>2. w'.lpn \in PendingPages'
      BY <2>2, <3>1 DEF PendingPages
    <3> QED
      BY <2>1, <3>2 DEF PendingPages
  <2> QED
    BY <1>1, <2>1, <2>2 DEF RunInv, Live
<1> QED
  BY <1>1, <1>3, <1>4, <1>5, <1>6, BufSteps

-----------------------------------------------------------------------------
(* The account is kept.                                                    *)

\* The steps of the firmware, as the accounting of recovery sees them.
AcctSame ==
  hist' = hist /\ PendingPages' = PendingPages /\ Deps' = Deps /\ cache' = cache /\ Scan' = Scan

\* A dequeue.
AcctStore(b, i, x) ==
  /\ hist' = hist /\ PendingPages' = PendingPages /\ Deps' = Deps
  /\ b \in Banks /\ i \in Bufs /\ Cleaned(cache, cache', b, i)
  /\ Scan' = Scan \cup {x} /\ x \notin Scan
  /\ x.pg.lpn = cache[b][i].lpn /\ x.pg.epoch = cache[b][i].epoch
  /\ x.pg.span = cache[b][i].span /\ x.pg.ver = cache[b][i].epoch + 1
  /\ x.ppn = active[b] /\ pgmap' = [pgmap EXCEPT ![cache[b][i].lpn] = active[b]]
  /\ x.pg.lpn \in Lpns /\ x.pg.epoch \in Epochs /\ Bank(x.pg.lpn) = b

\* A copy of garbage collection.
AcctCopy(x) ==
  /\ hist' = hist /\ PendingPages' = PendingPages /\ Deps' = Deps /\ cache' = cache
  /\ Scan' = Scan \cup {x} /\ x \notin Scan /\ x.pg.epoch = GcTag

\* A page put into a clean buffer.
AcctPut(i) ==
  /\ PutIs(i) /\ Writing /\ Scan' = Scan /\ Deps' = Deps /\ ~cache[Bank(w.lpn)][i].dirty

\* A page that overwrites one in a dirty buffer; y is the dependency.
AcctOver(i, y) ==
  /\ PutIs(i) /\ Writing /\ Scan' = Scan
  /\ cache[Bank(w.lpn)][i].dirty /\ cache[Bank(w.lpn)][i].lpn = w.lpn
  /\ AddsDep(Deps, Deps', y, cache[Bank(w.lpn)][i].epoch, g_epoch, cache[Bank(w.lpn)][i].span)

\* A new write of the pages T.
AcctIssue(T) ==
  /\ T \in SUBSET Lpns /\ hist' = Append(hist, T) /\ PendingPages = {} /\ PendingPages' = T
  /\ Deps' = Deps /\ cache' = cache /\ Scan' = Scan

\* The last page of a bank is a new one.
LEMMA LatestNew ==
  ASSUME NEW S, NEW x, Latest(S, x)
  PROVE  x \notin S
BY DEF Latest

\* A program changes flash.
LEMMA ProgramFlash ==
  ASSUME TypeOK, NEW b \in Banks, NEW pg \in DataPage, NEW released, Program(b, pg, released)
  PROVE  flash' # flash
<1>1. active[b].blk \in Blks
  BY FullType
<1>2. flash[b][active[b].blk].pages \in Seq(DataPage)
  BY <1>1 DEF TypeOK, Block
<1>3. flash'[b][active[b].blk].pages = Append(flash[b][active[b].blk].pages, pg)
  <2>1. flash \in [Banks -> [Blks -> Block]] /\ flash[b] \in [Blks -> Block]
        /\ flash[b][active[b].blk] \in Block
    BY <1>1 DEF TypeOK
  <2>2. flash' = [flash EXCEPT ![b][active[b].blk].pages = Append(@, pg)]
    BY DEF Program
  <2>3. flash'[b][active[b].blk]
          = [flash[b][active[b].blk] EXCEPT !.pages = Append(flash[b][active[b].blk].pages, pg)]
    BY <1>1, <2>1, <2>2
  <2> QED
    BY <2>1, <2>3 DEF Block
<1>4. flash'[b][active[b].blk].pages # flash[b][active[b].blk].pages
  <2>1. \A q \in Seq(DataPage) : Append(q, pg) # q
    <3>1. \A q \in Seq(DataPage) : Len(Append(q, pg)) = Len(q) + 1 /\ Len(q) \in Nat
      OBVIOUS
    <3> QED
      BY <3>1
  <2> QED
    BY <1>2, <1>3, <2>1
<1> QED
  BY <1>4

\* The dependency of an overwrite.
LEMMA DepEntryIs ==
  ASSUME NEW b, NEW i
  PROVE  /\ DepEntry(cache[b][i]).src = cache[b][i].epoch
         /\ DepEntry(cache[b][i]).dst = g_epoch
         /\ DepEntry(cache[b][i]).span = cache[b][i].span
BY DEF DepEntry

\* Every step between two tags is one of the six.
LEMMA AcctSteps ==
  ASSUME TypeOK, TypeOK', SInv, SInv', RoomLeft, RoomLeft', FlushInv, LogInv, ChainInv,
         DepFullInv, DepFullInv', [Next]_vars, pc # "recovered", pc' # "recovered",
         ~RecordTag, Tagged'
  PROVE  \/ AcctSame
         \/ \E b, i, x : AcctStore(b, i, x)
         \/ \E x : AcctCopy(x)
         \/ \E i : AcctPut(i)
         \/ \E i, y : AcctOver(i, y)
         \/ \E T : AcctIssue(T)
<1>1. Tagged /\ Live
  BY SavedKept DEF Live
<1>2. ~EraseLog
  BY DEF EraseLog, Tagged, TagsOf
<1>3. ASSUME Rest
      PROVE  hist' = hist /\ PendingPages' = PendingPages /\ Deps' = Deps
  BY <1>1, <1>2, <1>3, RestDeps DEF Rest
<1>4. CASE \E b \in Banks : \E i, e, pg, x : Dequeued(b, i, e, pg) /\ ScanAdds(b, pg, x)
  <2>1. PICK b \in Banks, i \in Bufs : \E e, pg, x : Dequeued(b, i, e, pg) /\ ScanAdds(b, pg, x)
    BY <1>4 DEF Dequeued
  <2>2. PICK e, pg, x : Dequeued(b, i, e, pg) /\ ScanAdds(b, pg, x)
    BY <2>1
  <2>3. PICK released : Program(b, pg, released)
    BY <2>2 DEF Dequeued
  <2>4. flash' # flash
    <3>1. pg \in DataPage
      BY <2>2 DEF Dequeued
    <3> QED
      BY <2>3, <3>1, ProgramFlash
  <2>5. ~(\E j : PutClean(j)) /\ ~(\E j : PutDirty(j)) /\ ~\E c \in WriteCmds : HostWrite(c[1], c[2])
    BY <2>4 DEF PutClean, PutDirty, HostWrite, nand
  <2>6. hist' = hist /\ PendingPages' = PendingPages /\ Deps' = Deps
    BY <1>3, <2>5, BufSteps
  <2>7. Cleaned(cache, cache', b, i)
    <3>1. cache' = [cache EXCEPT ![b][i].dirty = FALSE] /\ cache[b][i].dirty
      BY <2>2 DEF Dequeued
    <3>2. \A c \in Banks, j \in Bufs : ~(c = b /\ j = i) => cache'[c][j] = cache[c][j]
      BY <3>1, StoresEnts
    <3>3. ~cache'[b][i].dirty
      <4>0. cache \in [Banks -> [Bufs -> CacheEnt]]
        BY DEF TypeOK
      <4>1. cache[b] \in [Bufs -> CacheEnt] /\ cache[b][i] \in CacheEnt
        BY <4>0
      <4>2. cache'[b][i] = [cache[b][i] EXCEPT !.dirty = FALSE]
        BY <3>1, <4>1 DEF TypeOK
      <4>3. [cache[b][i] EXCEPT !.dirty = FALSE].dirty = FALSE
        BY <4>1 DEF CacheEnt, NoEnt
      <4> QED
        BY <4>2, <4>3
    <3> QED
      BY <3>1, <3>2, <3>3 DEF Cleaned, OthersKept
  <2>8. /\ Scan' = Scan \cup {x} /\ x \notin Scan /\ x.ppn = active[b] /\ x.pg = pg
    BY <2>2, LatestNew DEF ScanAdds
  <2>9. /\ x.pg.lpn = cache[b][i].lpn /\ x.pg.epoch = cache[b][i].epoch
        /\ x.pg.span = cache[b][i].span /\ x.pg.ver = cache[b][i].epoch + 1
        /\ x.pg.lpn \in Lpns /\ x.pg.epoch \in Epochs /\ Bank(x.pg.lpn) = b
    BY <2>2, <2>8 DEF Dequeued
  <2>10. pgmap' = [pgmap EXCEPT ![cache[b][i].lpn] = active[b]]
    BY <2>3, <2>8, <2>9 DEF Program
  <2> QED
    BY <2>6, <2>7, <2>8, <2>9, <2>10 DEF AcctStore
<1>5. CASE GcCopy /\ \E p, pg, x : Copied(bank, p, pg) /\ ScanAdds(bank, pg, x)
  <2>1. PICK p, pg, x : Copied(bank, p, pg) /\ ScanAdds(bank, pg, x)
    BY <1>5
  <2>2. PICK released : Program(bank, pg, released)
    BY <2>1 DEF Copied
  <2>3. bank \in Banks
    BY <2>1 DEF Copied
  <2>4. flash' # flash
    <3>1. pg \in DataPage
      BY <2>1 DEF Copied
    <3> QED
      BY <2>2, <2>3, <3>1, ProgramFlash
  <2>5. ~(\E j : PutClean(j)) /\ ~(\E j : PutDirty(j)) /\ ~\E c \in WriteCmds : HostWrite(c[1], c[2])
    BY <2>4 DEF PutClean, PutDirty, HostWrite, nand
  <2>6. hist' = hist /\ PendingPages' = PendingPages /\ Deps' = Deps
    BY <1>3, <2>5, BufSteps
  <2>7. cache' = cache
    BY <1>5 DEF GcCopy, wbuf
  <2> QED
    BY <2>1, <2>6, <2>7, LatestNew DEF ScanAdds, Copied, AcctCopy
<1>6. CASE Scan' = Scan /\ ~GcCopy /\ \A b \in Banks : ~Dequeue(b)
  <2>1. CASE \E i : PutClean(i)
    <3>1. PICK i : PutClean(i)
      BY <2>1
    <3>2. Deps' = Deps
      BY <1>1, <3>1, PutCleanDeps
    <3>3. PutIs(i)
      BY <3>1, PutFacts DEF PutClean
    <3> QED
      BY <1>6, <3>1, <3>2, <3>3 DEF AcctPut, PutClean
  <2>2. CASE \E i : PutDirty(i)
    <3>1. PICK i : PutDirty(i)
      BY <2>2
    <3>2. PICK e : e = DepEntry(cache[Bank(w.lpn)][i])
      OBVIOUS
    <3>3. PICK y : AddsDep(Deps, Deps', y, e.src, e.dst, e.span)
      BY <1>1, <3>1, <3>2, PutDirtyDeps
    <3>4. /\ e.src = cache[Bank(w.lpn)][i].epoch /\ e.dst = g_epoch
          /\ e.span = cache[Bank(w.lpn)][i].span
      BY <3>2, DepEntryIs
    <3>5. PutIs(i)
      BY <3>1, PutFacts DEF PutDirty
    <3>6. AddsDep(Deps, Deps', y, cache[Bank(w.lpn)][i].epoch, g_epoch, cache[Bank(w.lpn)][i].span)
      BY <3>3, <3>4
    <3>7. AcctOver(i, y)
      BY <1>6, <3>1, <3>5, <3>6 DEF AcctOver, PutDirty
    <3> QED
      BY <3>7
  <2>3. CASE \E c \in WriteCmds : HostWrite(c[1], c[2])
    <3>1. PICK c \in WriteCmds : HostWrite(c[1], c[2])
      BY <2>3
    <3>2. PICK T \in SUBSET Lpns :
           /\ hist' = Append(hist, T) /\ T # {} /\ PendingPages' = T /\ PendingPages = {}
           /\ w'.span = Cardinality(T)
      BY <3>1, IssueIs
    <3>3. UNCHANGED <<log, deps, cache>> /\ pc = "idle" /\ pc' = "page"
      BY <3>1 DEF HostWrite, nand, chkpt, wbuf
    <3>4. DepsRest
      BY <3>3 DEF DepsRest
    <3>5. Deps' = Deps
      BY <1>1, <1>2, <3>4, RestDeps
    <3> QED
      BY <1>6, <3>2, <3>3, <3>5 DEF AcctIssue
  <2>4. CASE Rest
    <3>1. cache' = cache
      BY <1>6, <2>4 DEF Rest
    <3> QED
      BY <1>3, <1>6, <2>4, <3>1 DEF AcctSame
  <2> QED
    BY <2>1, <2>2, <2>3, <2>4, BufSteps
<1> QED
  BY <1>4, <1>5, <1>6, NextScan

\* The account holds for all writes since the last tag.
AcctInv ==
  Live /\ Tagged => AcctOk(hist, Saved, Scan, cache, Deps, PendingPages)

\* Right after a tag the account is empty.
LEMMA FreshAcct ==
  TypeOK /\ LogInv /\ FreshScan /\ Live /\ Tagged /\ Saved = Issued
    => AcctOk(hist, Saved, Scan, cache, Deps, PendingPages)
<1> SUFFICES ASSUME TypeOK, LogInv, FreshScan, Live, Tagged, Saved = Issued
             PROVE  AcctOk(hist, Saved, Scan, cache, Deps, PendingPages)
  OBVIOUS
<1>1. DOMAIN Deps = {}
  BY FreshIds
<1>2. Scan = {}
  BY DEF FreshScan
<1>3. \A b \in Banks, i \in Bufs : ~cache[b][i].dirty
  BY DEF LogInv, FreshTail, AllClean, Clean, DirtyBufs
<1>4. hist \in Seq(SUBSET Lpns)
  BY DEF TypeOK
<1>5. AcctOk(hist, Len(hist), {}, cache, Deps, PendingPages)
  BY <1>1, <1>3, <1>4, EmptyAcct
<1> QED
  BY <1>2, <1>5 DEF Issued

\* The epoch of the running write.
LEMMA WritingEpoch ==
  ASSUME TypeOK, EpochInv, Writing
  PROVE  /\ Issued = g_epoch + 1 /\ g_epoch \in Nat /\ Issued \in Nat /\ Issued < GcTag
         /\ MaxWrites < GcTag /\ GcTag \in Nat
BY FtlAssumption, RecoveryAssumption DEF TypeOK, EpochInv, InWrite, Writing, Issued, Epochs, GcTag

\* A tag covers writes that were issued and, while one runs, not that one.
LEMMA SavedIssued ==
  ASSUME TypeOK, EpochInv, LogInv, Live, Tagged
  PROVE  Saved \in Nat /\ Issued \in Nat /\ Saved <= Issued /\ (Writing => Saved <= Issued - 1)
<1>1. Saved \in Nat /\ g_epoch \in Nat /\ Issued \in Nat /\ Saved <= g_epoch
  BY SavedType, IssuedType DEF LogInv, TagShape
<1>2. Issued = g_epoch + (IF InWrite THEN 1 ELSE 0)
  BY DEF EpochInv, Issued, Live
<1>3. Writing => InWrite
  BY DEF InWrite
<1> QED
  BY <1>1, <1>2, <1>3

\* Enqueue in the terms of the account.
LEMMA PutTakes ==
  ASSUME TypeOK, EpochInv, RunInv, Live, Writing, NEW i, PutIs(i)
  PROVE  /\ Takes(hist, cache, cache', Bank(w.lpn), i, w.lpn)
         /\ Coming(hist, PendingPages, w.lpn)
<1>1. Issued = g_epoch + 1 /\ g_epoch \in Nat
  BY WritingEpoch
<1>2. w.span = Cardinality(hist[Issued]) /\ PendingPages \subseteq hist[Issued]
  BY DEF RunInv
<1>3. /\ cache'[Bank(w.lpn)][i].dirty /\ cache'[Bank(w.lpn)][i].lpn = w.lpn
      /\ cache'[Bank(w.lpn)][i].epoch = g_epoch /\ cache'[Bank(w.lpn)][i].span = w.span
  BY DEF PutIs
<1> QED
  BY <1>1, <1>2, <1>3 DEF Takes, Coming, PutIs, Issued

\* An overwritten dirty buffer is of an earlier write.
LEMMA OverOld ==
  ASSUME TypeOK, EpochInv, CacheInv, Live, Writing, NEW i \in Bufs,
         cache[Bank(w.lpn)][i].lpn = w.lpn
  PROVE  cache[Bank(w.lpn)][i].epoch # g_epoch
<1>1. w.lpn \in Lpns /\ Bank(w.lpn) \in Banks
  BY WritingBank
<1>2. cache[Bank(w.lpn)][i].lpn # NoLpn
  BY <1>1, LpnNotNone
<1>3. Older(cache[Bank(w.lpn)][i])
  BY <1>1, <1>2 DEF CacheInv, Live
<1>4. w.lpn \in Nat
  BY <1>1, RecoveryAssumption
<1> QED
  BY <1>3, <1>4 DEF Older

\* Every step keeps the account.
LEMMA NextAcct ==
  ASSUME TypeOK, TypeOK', EpochInv, EpochInv', SInv, SInv', RoomLeft, RoomLeft', FlushInv,
         CacheInv, LogInv, LogInv', ChainInv, FreshScan', DepFullInv, DepFullInv',
         RunInv, AcctInv, [Next]_vars
  PROVE  AcctInv'
<1> SUFFICES ASSUME Live', Tagged'
             PROVE  AcctOk(hist, Saved, Scan, cache, Deps, PendingPages)'
  BY DEF AcctInv
<1>0. pc # "recovered" /\ pc' # "recovered" /\ Live
  BY RecoveredStays DEF vars, Live
<1>1. CASE Saved' = Issued'
  <2>1. (TypeOK /\ LogInv /\ FreshScan /\ Live /\ Tagged /\ Saved = Issued
           => AcctOk(hist, Saved, Scan, cache, Deps, PendingPages))'
    BY FreshAcct, PTL
  <2> QED
    BY <1>1, <2>1
<1>2. CASE Saved' # Issued'
  <2>1. ~RecordTag
    <3> SUFFICES ASSUME RecordTag
                 PROVE  FALSE
      OBVIOUS
    <3>1. TagShape
      BY <1>0 DEF LogInv
    <3> QED
      BY <1>2, <3>1, TagFacts
  <2>2. Tagged /\ Saved' = Saved
    BY <1>0, <2>1, SavedKept
  <2>3. AcctOk(hist, Saved, Scan, cache, Deps, PendingPages)
    BY <1>0, <2>2 DEF AcctInv
  <2>4. hist \in Seq(SUBSET Lpns) /\ Saved \in Nat /\ Saved <= Len(hist) /\ Len(hist) \in Nat
        /\ (Writing => Saved <= Len(hist) - 1)
    BY <1>0, <2>2, SavedIssued DEF TypeOK, Issued
  <2>5. Len(hist) < GcTag
    BY <2>4, FtlAssumption, RecoveryAssumption DEF EpochInv, GcTag
  <2> DEFINE Goal == AcctOk(hist', Saved, Scan', cache', Deps', PendingPages')
  <2>6. ASSUME AcctSame
        PROVE  Goal
    BY <2>2, <2>3, <2>6 DEF AcctSame
  <2>7. ASSUME NEW b, NEW i, NEW x, AcctStore(b, i, x)
        PROVE  Goal
    <3>1. PICK d, S, D, P : d = cache' /\ S = Scan /\ D = Deps /\ P = PendingPages
      OBVIOUS
    <3>2. AcctOk(hist, Saved, S \cup {x}, d, D, P)
      BY <2>3, <2>4, <2>7, <3>1, StoreAcct DEF AcctStore
    <3> QED
      BY <2>7, <3>1, <3>2 DEF AcctStore
  <2>8. ASSUME NEW x, AcctCopy(x)
        PROVE  Goal
    <3>1. AcctOk(hist, Saved, Scan \cup {x}, cache, Deps, PendingPages)
      BY <2>3, <2>4, <2>5, <2>8, CopyAcct DEF AcctCopy
    <3> QED
      BY <2>8, <3>1 DEF AcctCopy
  <2>9. ASSUME NEW i, AcctPut(i)
        PROVE  Goal
    <3>1. Takes(hist, cache, cache', Bank(w.lpn), i, w.lpn) /\ Coming(hist, PendingPages, w.lpn)
      BY <1>0, <2>9, PutTakes DEF AcctPut
    <3>2. Bank(w.lpn) \in Banks /\ i \in Bufs /\ ~cache[Bank(w.lpn)][i].dirty
      BY <2>9 DEF AcctPut, PutIs
    <3>3. Saved <= Len(hist) - 1
      BY <2>4, <2>9 DEF AcctPut
    <3>4. AcctOk(hist, Saved, Scan, cache', Deps, PendingPages \ {w.lpn})
      BY <2>3, <2>4, <3>1, <3>2, <3>3, PutAcct
    <3> QED
      BY <2>9, <3>4 DEF AcctPut, PutIs
  <2>10. ASSUME NEW i, NEW y, AcctOver(i, y)
        PROVE  Goal
    <3>1. Takes(hist, cache, cache', Bank(w.lpn), i, w.lpn) /\ Coming(hist, PendingPages, w.lpn)
      BY <1>0, <2>10, PutTakes DEF AcctOver
    <3>2. Bank(w.lpn) \in Banks /\ i \in Bufs
      BY <2>10 DEF AcctOver, PutIs
    <3>3. Saved <= Len(hist) - 1
      BY <2>4, <2>10 DEF AcctOver
    <3>4. Len(hist) - 1 = g_epoch /\ g_epoch \in Nat
      BY <2>10, WritingEpoch DEF AcctOver, Issued
    <3>5. Overwrites(hist, cache, Bank(w.lpn), i, w.lpn)
      BY <1>0, <2>10, <3>2, <3>4, OverOld DEF Overwrites, AcctOver
    <3>6. AddsDep(Deps, Deps', y, cache[Bank(w.lpn)][i].epoch, Len(hist) - 1,
                  cache[Bank(w.lpn)][i].span)
      BY <2>10, <3>4 DEF AcctOver
    <3>7. AcctOk(hist, Saved, Scan, cache', Deps', PendingPages \ {w.lpn})
      BY <2>3, <2>4, <3>1, <3>2, <3>3, <3>5, <3>6, PutDepAcct
    <3> QED
      BY <2>10, <3>7 DEF AcctOver, PutIs
  <2>11. ASSUME NEW T, AcctIssue(T)
        PROVE  Goal
    <3>1. AcctOk(hist, Saved, Scan, cache, Deps, {})
      BY <2>3, <2>11 DEF AcctIssue
    <3>2. AcctOk(hist', Saved, Scan, cache, Deps, T)
      BY <2>4, <2>5, <2>11, <3>1, IssueAcct DEF AcctIssue
    <3> QED
      BY <2>11, <3>2 DEF AcctIssue
  <2>12. Goal
    <3> HIDE DEF Goal
    <3> QED
      BY <1>0, <2>1, <2>6, <2>7, <2>8, <2>9, <2>10, <2>11, AcctSteps
  <2> QED
    BY <2>2, <2>12
<1> QED
  BY <1>1, <1>2

\* After format there is no write.
LEMMA InitAcct ==
  ASSUME Init
  PROVE  RunInv /\ AcctInv /\ DepFullInv
<1>1. TypeOK
  BY InitInv DEF IInv
<1>2. Tagged /\ Saved = Issued /\ Issued = 0 /\ FreshScan /\ LogInv
  BY InitTag, InitScan, InitLogInv
<1>3. AcctInv
  BY <1>1, <1>2, FreshAcct DEF AcctInv
<1>4. RunInv /\ DepFullInv
  BY <1>2 DEF RunInv, DepFullInv, Init, Writing
<1> QED
  BY <1>3, <1>4
=============================================================================
