---------------------------- MODULE MCTargetSpw ----------------------------
(***************************************************************************)
(* The three modules of src/target_spw in one model.  part says which of   *)
(* them a behaviour is about; the variables of the others rest.            *)
(*                                                                         *)
(*   "planes"   flash_wrapper.c, on the chips the cfg describes            *)
(*   "host"     flash_wrapper.c: reads to the host, a ring of two buffers  *)
(*   "dies"     flash_wrapper.c on chips of two dies of one plane, which   *)
(*              know FC_MODIFY_COPYBACK                                    *)
(*   "hash"     shashtbl.c: two banks, keys that share a bucket            *)
(*   "asserts"  the same with its assertions compiled in                   *)
(*   "memory"   mem_util.c: bytes of two bits, two units of eight bytes    *)
(***************************************************************************)
EXTENDS FlashWrapper

VARIABLES
  part,
  num_elmts, free_node_pool, nodes, buckets, table, most, stopped, \* ShashTbl
  mem, bytes, mem_ops                                   \* MemUtil

tableVars ==
  <<num_elmts, free_node_pool, nodes, buckets, table, most, stopped>>
memVars == <<mem, bytes, mem_ops>>
mcVars == <<part, vars, tableVars, memVars>>

MCBank == 0 .. 1

ToHost == INSTANCE FlashWrapper WITH
  VBLKS_PER_BANK <- 2, Kinds <- {"host", "erase"}, MaxOps <- 3

Dies == INSTANCE FlashWrapper WITH
  VBLKS_PER_BANK <- 4, NUM_PLANES <- 1, NAND_SPEC_DIE <- 2,
  NAND_SPEC_MODIFY_COPY <- TRUE,
  Kinds <- {"copy", "modify"}

MCKeys == {"k1", "k2", "k3"}
Table == INSTANCE ShashTbl WITH
  Key <- MCKeys, Data <- {"a", "b"},
  HASH_BUCKET_SIZE <- 2, SLICE <- 2, LIMIT <- 2,
  Hash <- [k \in MCKeys |-> IF k = "k3" THEN 1 ELSE 0],
  OPTION_ENABLE_ASSERT <- FALSE

\* LIMIT is reached, and keys are removed and inserted again after that.
Asserting == INSTANCE ShashTbl WITH
  Key <- MCKeys, Data <- {"a"},
  HASH_BUCKET_SIZE <- 2, SLICE <- 2, LIMIT <- 2,
  Hash <- [k \in MCKeys |-> IF k = "k3" THEN 1 ELSE 0],
  OPTION_ENABLE_ASSERT <- TRUE

Memory == INSTANCE MemUtil WITH
  BITS <- 2, ECC_UNIT <- 8, MU_MAX_BYTES <- 8, UNITS <- 2,
  Values <- {{}, 0 .. 7, {1, 2, 7}}, Bases <- {0, 3, 10}, Bitmap <- 9,
  MaxOps <- 2, dram <- mem, ops <- mem_ops

ASSUME ConstantsInRange ==
  /\ WrapperConstants /\ Dies!WrapperConstants /\ ToHost!WrapperConstants
  /\ Table!ShashTblConstants /\ Asserting!ShashTblConstants
  /\ Memory!MemUtilConstants

MCInit ==
  /\ part \in {"planes", "host", "dies", "hash", "asserts", "memory"}
  /\ CASE part = "host" -> ToHost!Init
       [] part = "dies" -> Dies!Init
       [] OTHER -> Init
  /\ Table!Init
  /\ IF part = "memory" THEN Memory!Init
     ELSE mem = <<>> /\ bytes = <<>> /\ mem_ops = 0

MCNext ==
  /\ UNCHANGED part
  /\ \/ part = "planes" /\ Next /\ UNCHANGED <<tableVars, memVars>>
     \/ part = "host" /\ ToHost!Next /\ UNCHANGED <<tableVars, memVars>>
     \/ part = "dies" /\ Dies!Next /\ UNCHANGED <<tableVars, memVars>>
     \/ part = "hash" /\ Table!Next /\ UNCHANGED <<vars, memVars>>
     \/ part = "asserts" /\ Asserting!Next /\ UNCHANGED <<vars, memVars>>
     \/ part = "memory" /\ Memory!Next /\ UNCHANGED <<vars, tableVars>>

MCSpec == MCInit /\ [][MCNext]_mcVars

-----------------------------------------------------------------------------
\* Between two calls the flash holds what the caller of the wrappers asked
\* for, and the host has got the sectors it asked for in that order: no
\* command that was not waited for reads a row or a buffer that another one
\* has taken over (flash_wrapper.c).
CallsAsAsked == FlashAsAsked /\ HostInOrder

\* The chains of shashtbl.c hold the keys that were inserted and not removed,
\* with the data last set; every node ever taken is in one chain or in the
\* pool of its bank, and in one of them only; a bank takes no more nodes than
\* it ever has keys.  With the assertions compiled in, an insertion within the
\* limit is stopped (shashtbl.c:63) only in a bank that was full before, where
\* the pool has the node for it.
TableExact ==
  /\ part = "hash" =>
       Table!HoldsTheTable /\ Table!NoNodeLost /\ Table!NodesAsNeeded
  /\ part = "asserts" =>
       /\ Asserting!HoldsTheTable /\ Asserting!NoNodeLost
       /\ Asserting!NodesAsNeeded /\ Asserting!StopsOnlyAfterFull

\* mem_util.c: a bit, byte, half word or word reads what was written by the
\* same or another width, a comparison orders memory as bytes are ordered,
\* and a search finds the first of the smallest or largest items.
DramExact ==
  part = "memory" =>
    /\ Memory!ReadsWhatWasWritten
    /\ Memory!CompareIsLexicographic
    /\ Memory!SearchFindsFirst
=============================================================================
