------------------------------ MODULE BlkList ------------------------------
(***************************************************************************)
(* blk_list_t of blkmgr.c: the ring of data blocks of one bank (region 1,  *)
(* the only one data is written to), and vt_blk, the garbage-collected     *)
(* block whose erase is still pending.  From the comment at the struct:    *)
(*   [tail, rsv)  used blocks garbage collection may take,                 *)
(*   [rsv, head)  used blocks it may not take (written since the last tag),*)
(*   [head, tail) free blocks.                                             *)
(* The operators are pure; the modules that hold a ring as state use them. *)
(***************************************************************************)
EXTENDS Integers, FiniteSets

CONSTANT NumBlks                \* blk_lists[1].size

ASSUME NumBlksAssumption == NumBlks \in Nat /\ NumBlks > 1

Idx   == 0..(NumBlks - 1)       \* positions of the ring
Blks  == 1..NumBlks             \* block numbers (block 0 is reserved)
NoBlk == 0                      \* vt_blk when no erase is pending

RingType ==
  [list: [Idx -> Blks], rsv: Idx, head: Idx, tail: Idx, free: Int,
   vt: Blks \cup {NoBlk}]

InitRing ==
  [list |-> [i \in Idx |-> i + 1], rsv |-> 0, head |-> 0, tail |-> 0,
   free |-> NumBlks, vt |-> NoBlk]

HeadBlk(r) == r.list[r.head]

\* get_and_inc_active_blk: take the block at the head.
TakeBlk(r) ==
  [r EXCEPT !.head = (r.head + 1) % NumBlks, !.free = r.free - 1]

\* push_rsv: every block but the active one becomes available to GC.
PushRsvKept(r) == r             \* mutant: push_rsv is left out
PushRsv(r) == [r EXCEPT !.rsv = (r.head + NumBlks - 1) % NumBlks]

\* The position k steps after the tail.
At(r, k) == (r.tail + k) % NumBlks

\* get_victim_blk looks at the tail and then at every later position up to
\* rsv; with rsv = tail that is the whole ring.
ScanLastToRsv(r) ==             \* mutant: the scan includes rsv
  (r.rsv - r.tail + NumBlks) % NumBlks
ScanLast(r) == (r.rsv - r.tail + NumBlks - 1) % NumBlks

IsVictim(r, vc, i) ==
  \E k \in 0..ScanLast(r) :
    /\ i = At(r, k)
    /\ \A j \in 0..ScanLast(r) :
         LET vk == vc[r.list[i]]  vj == vc[r.list[At(r, j)]]
         IN  vk <= vj /\ (j < k => vk < vj)

\* The victim, at position i, changes places with the block at the tail.
SwapVictim(r, i) ==
  [r EXCEPT !.list = [@ EXCEPT ![r.tail] = r.list[i], ![i] = r.list[r.tail]]]

\* The end of garbage_collection: the tail passes the victim, which is free
\* although it is not erased yet.
FreeVictim(r, blk) ==
  [r EXCEPT !.vt = blk, !.free = r.free + 1, !.tail = (r.tail + 1) % NumBlks]

\* blkmgr_erase_vt_blk and the head of garbage_collection.
VtErased(r) == [r EXCEPT !.vt = NoBlk]

\* Positions from a (included) to b (excluded), going round the ring.
Segment(a, b) == {i \in Idx : (i - a + NumBlks) % NumBlks
                                < (b - a + NumBlks) % NumBlks}

ReservedBlks(r) == {r.list[i] : i \in Segment(r.rsv, r.head)}
=============================================================================
