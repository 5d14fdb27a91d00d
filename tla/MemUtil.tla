------------------------------ MODULE MemUtil ------------------------------
(***************************************************************************)
(* mem_util.c: how the firmware addresses DRAM.  In front of the processor *)
(* every ECC_UNIT bytes of DRAM are followed by a word of check bytes, so  *)
(* it reads at real_addr; the memory unit (MU), which it writes with,      *)
(* takes the address without them, at most MU_MAX_BYTES at a time, and     *)
(* whole words.  Bytes, half words and bits are written by reading their   *)
(* word, changing it and copying it back.                                  *)
(*                                                                         *)
(* A byte is the set of its bits that are one, and a word that of its four *)
(* bytes, the first one lowest.  `bytes` is the memory as the callers see  *)
(* it, changed byte by byte by what they asked for.                        *)
(***************************************************************************)
EXTENDS Integers, Sequences, SequencesExt, FiniteSetsExt

CONSTANTS
  BITS,            \* bits of a byte
  ECC_UNIT,        \* SDRAM_ECC_UNIT
  MU_MAX_BYTES,
  UNITS,           \* DRAM_SIZE in ECC units
  Values,          \* words that are written
  Bases,           \* where bitmaps start
  Bitmap,          \* bits of a bitmap
  MaxOps           \* bound: operations of one behaviour

DRAM_SIZE == UNITS * ECC_UNIT
Word == 4
Byte == SUBSET (0 .. BITS - 1)
Addr == 0 .. DRAM_SIZE - 1
RealAddr == 0 .. (UNITS * (ECC_UNIT + Word)) - 1

MemUtilConstants ==
  /\ {BITS, ECC_UNIT, UNITS} \subseteq Nat \ {0} /\ ECC_UNIT % Word = 0
  /\ MU_MAX_BYTES \in Nat \ {0} /\ MU_MAX_BYTES % ECC_UNIT = 0
  /\ \A v \in Values : v \subseteq 0 .. (Word * BITS) - 1
  /\ \A base \in Bases : (base + (Bitmap + BITS - 1) \div BITS) <= DRAM_SIZE

VARIABLES
  dram,     \* words by real address
  bytes, ops

vars == <<dram, bytes, ops>>

Shift(v, n) == {i + n : i \in v} \cap 0 .. (Word * BITS) - 1
Field(v, first, n) == {i - first : i \in v \cap first .. first + n - 1}

-----------------------------------------------------------------------------
\* Reading

Aligned(addr) == addr - (addr % Word)
real_addr(addr) == ((addr \div ECC_UNIT) * (ECC_UNIT + Word)) + (addr % ECC_UNIT)

WordAt(addr) == dram[real_addr(Aligned(addr))]
read_dram_8(addr) == Field(WordAt(addr), (addr % Word) * BITS, BITS)
read_dram_16(addr) == Field(WordAt(addr), (addr % Word) * BITS, 2 * BITS)
read_dram_32(addr) == dram[real_addr(addr)]

\* A bit of a bitmap that may start at any byte.
BitOffsetFromWord(base, off) ==             \* mutant: base taken as aligned
  off % (Word * BITS)
BitOffset(base, off) == ((base * BITS) + off) % (Word * BITS)
BitAddr(base, off) == base + (off \div BITS)
tst_bit_dram(base, off) ==
  BitOffset(base, off) \in WordAt(BitAddr(base, off))

\* The first of two areas that differ says which is greater; bytes are
\* compared as numbers.
Value(v) == SumSet({2 ^ i : i \in v})
mem_cmp_dram(a, b, n) ==
  LET differ == {i \in 0 .. n - 1 : read_dram_8(a + i) # read_dram_8(b + i)}
  IN  IF differ = {} THEN 0
      ELSE LET i == Min(differ)
           IN  IF Value(read_dram_8(a + i)) > Value(read_dram_8(b + i))
               THEN 1 ELSE -1

\* The simulator's searches: from the first item on, a better one replaces the
\* one found so far; the search for a minimum stops at zero.
Best(vals, better(_, _)) ==
  FoldLeft(LAMBDA idx, i : IF better(vals[i], vals[idx]) THEN i ELSE idx,
           1, [i \in 1 .. Len(vals) |-> i]) - 1
vst_mem_search_min(vals) ==
  LET zero == {i \in 1 .. Len(vals) : vals[i] = 0}
      seen == IF zero = {} THEN vals ELSE SubSeq(vals, 1, Min(zero))
  IN  Best(seen, LAMBDA x, y : x < y)
vst_mem_search_max(vals) == Best(vals, LAMBDA x, y : x > y)

-----------------------------------------------------------------------------
\* Writing: the memory unit works on words at addresses without check bytes.

MuWords(dst, n) == {dst + i : i \in {j \in 0 .. n - 1 : j % Word = 0}}
Mu(dst, n, val(_)) ==
  [r \in DOMAIN dram |->
     IF \E a \in MuWords(dst, n) : real_addr(a) = r
     THEN val(CHOOSE a \in MuWords(dst, n) : real_addr(a) = r) ELSE dram[r]]
CopyFromSram(dst, v) == dram' = Mu(dst, Word, LAMBDA a : v)

write_dram_32(addr, v) == CopyFromSram(addr, v)
Masked(addr, v, n) ==
  LET first == (addr % Word) * BITS
  IN  (WordAt(addr) \ (first .. first + (n * BITS) - 1)) \cup Shift(v, first)
write_dram_16(addr, v) == CopyFromSram(Aligned(addr), Masked(addr, v, 2))
write_dram_8(addr, v) == CopyFromSram(Aligned(addr), Masked(addr, v, 1))
set_bit_dram(base, off) ==
  LET addr == BitAddr(base, off)
  IN  CopyFromSram(Aligned(addr), WordAt(addr) \cup {BitOffset(base, off)})
clr_bit_dram(base, off) ==
  LET addr == BitAddr(base, off)
  IN  CopyFromSram(Aligned(addr), WordAt(addr) \ {BitOffset(base, off)})

\* mem_set: one command for each MU_MAX_BYTES, and one of no bytes for none.
Smaller(a, b) == IF a < b THEN a ELSE b
Chunks(addr, n) ==
  LET count == (n + MU_MAX_BYTES - 1) \div MU_MAX_BYTES
  IN  {<<addr + (i * MU_MAX_BYTES),
       Smaller(n - (i * MU_MAX_BYTES), MU_MAX_BYTES)>> :
           i \in 0 .. count - 1}
mem_set_dram(addr, v, n) ==
  LET set == UNION {MuWords(c[1], c[2]) : c \in Chunks(addr, n)}
  IN  dram' = [r \in DOMAIN dram |->
                 IF \E a \in set : real_addr(a) = r THEN v ELSE dram[r]]

\* mem_copy in DRAM is of whole units.
mem_copy(dst, src, n) ==
  dram' = Mu(dst, n, LAMBDA a : dram[real_addr(src + a - dst)])

-----------------------------------------------------------------------------
\* The calls the assertions allow, and what they ask for.

Ask(area, val(_)) ==
  /\ ops < MaxOps /\ ops' = ops + 1
  /\ bytes' = [a \in Addr |-> IF a \in area THEN val(a) ELSE bytes[a]]
ByteOf(v, i) == Field(v, i * BITS, BITS)

Write8 == \E a \in Addr, v \in Values :
  Ask({a}, LAMBDA x : ByteOf(v, 0)) /\ write_dram_8(a, ByteOf(v, 0))
Write16 == \E a \in {x \in Addr : x % 2 = 0}, v \in Values :
  /\ Ask(a .. a + 1, LAMBDA x : ByteOf(v, x - a))
  /\ write_dram_16(a, Field(v, 0, 2 * BITS))
Write32 == \E a \in {x \in Addr : x % Word = 0}, v \in Values :
  Ask(a .. a + Word - 1, LAMBDA x : ByteOf(v, x - a)) /\ write_dram_32(a, v)
ChangeBit == \E base \in Bases, off \in 0 .. Bitmap - 1 :
  LET a == base + (off \div BITS)
  IN  \/ /\ Ask({a}, LAMBDA x : bytes[x] \cup {off % BITS})
         /\ set_bit_dram(base, off)
      \/ /\ Ask({a}, LAMBDA x : bytes[x] \ {off % BITS})
         /\ clr_bit_dram(base, off)

Units == {x \in Addr : x % ECC_UNIT = 0}
Sizes(a) == {n \in 1 .. DRAM_SIZE - a : n % ECC_UNIT = 0}
Set == \E a \in Units, v \in Values : \E n \in Sizes(a) :
  Ask(a .. a + n - 1, LAMBDA x : ByteOf(v, x % Word)) /\ mem_set_dram(a, v, n)
\* Areas that overlap are not copied.
Copy == \E dst, src \in Units : \E n \in Sizes(dst) \cap Sizes(src) :
  /\ n <= MU_MAX_BYTES /\ (dst + n <= src \/ src + n <= dst)
  /\ Ask(dst .. dst + n - 1, LAMBDA x : bytes[src + x - dst])
  /\ mem_copy(dst, src, n)

Init ==
  /\ bytes \in {[a \in Addr |-> v] : v \in Byte}
  /\ dram = [r \in {x \in RealAddr : x % Word = 0} |->
               UNION {{i + (j * BITS) : i \in bytes[0]} : j \in 0 .. Word - 1}]
  /\ ops = 0

Next == Write8 \/ Write16 \/ Write32 \/ ChangeBit \/ Set \/ Copy
Spec == Init /\ [][Next]_vars
-----------------------------------------------------------------------------
\* Every way of reading gives what was written in any other way: a byte, a
\* half word, a word, and a bit of a bitmap that starts between two words.
ReadsWhatWasWritten ==
  /\ \A a \in Addr :
       /\ read_dram_8(a) = bytes[a]
       /\ a % 2 = 0 =>
            read_dram_16(a) = bytes[a] \cup {i + BITS : i \in bytes[a + 1]}
       /\ a % Word = 0 => \A j \in 0 .. Word - 1 :
                            ByteOf(read_dram_32(a), j) = bytes[a + j]
  /\ \A base \in Bases, off \in 0 .. Bitmap - 1 :
       tst_bit_dram(base, off)
         <=> (off % BITS) \in bytes[base + (off \div BITS)]

\* mem_cmp orders two areas as the sequences of their bytes.
CompareIsLexicographic ==
  \A a, b \in {0, ECC_UNIT \div 2, DRAM_SIZE - Word} :
    LET before == \E n \in 0 .. Word - 1 :
          /\ \A i \in 0 .. n - 1 : bytes[a + i] = bytes[b + i]
          /\ Value(bytes[a + n]) < Value(bytes[b + n])
    IN  /\ (mem_cmp_dram(a, b, Word) = -1) <=> before
        /\ mem_cmp_dram(a, b, Word) = - mem_cmp_dram(b, a, Word)

\* The searches find the first of the items with the extreme value, whether
\* or not the search stopped early.
SearchFindsFirst ==
  \A a \in Units :
    LET vals == [i \in 1 .. ECC_UNIT |-> Value(bytes[a + i - 1])]
        First(extreme) == Min({i \in 1 .. ECC_UNIT : vals[i] = extreme}) - 1
    IN  /\ vst_mem_search_min(vals) = First(Min(ToSet(vals)))
        /\ vst_mem_search_max(vals) = First(Max(ToSet(vals)))

=============================================================================
