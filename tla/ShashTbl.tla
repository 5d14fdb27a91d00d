------------------------------ MODULE ShashTbl ------------------------------
(***************************************************************************)
(* The static hash table of shashtbl.c: for each bank an array of buckets, *)
(* chains of nodes, and a pool of the nodes that were removed.  The nodes  *)
(* of all banks lie in one area of the memory, one slice after the other.  *)
(* No part of this firmware calls it, and the sizes in it are those of the *)
(* FTL it was written for: they are constants here.                        *)
(*                                                                         *)
(* The caller's account of what it put into the table is `table`: it       *)
(* inserts keys that are not there, updates and removes ones that are, and *)
(* inserts nothing when there are LIMIT keys in the bank.  An assertion    *)
(* that fails stops the program where assertions are compiled in, and is   *)
(* nothing elsewhere (jasmine.h).                                          *)
(***************************************************************************)
EXTENDS Integers, FiniteSets, FiniteSetsExt, Functions

CONSTANTS
  Bank, Key, Data,
  HASH_BUCKET_SIZE, Hash,    \* hashfunc_RJ(key) % HASH_BUCKET_SIZE
  SLICE,    \* (LOG_BLK_PER_BANK + ISOL_BLK_PER_BANK) * PAGES_PER_BLK
  LIMIT,    \* LOG_BLK_PER_BANK * PAGES_PER_BANK
  OPTION_ENABLE_ASSERT

Bucket == 0 .. HASH_BUCKET_SIZE - 1

ShashTblConstants ==
  /\ Bank = 0 .. Cardinality(Bank) - 1
  /\ {HASH_BUCKET_SIZE, SLICE, LIMIT} \subseteq Nat \ {0}
  /\ Hash \in [Key -> Bucket]
  /\ OPTION_ENABLE_ASSERT \in BOOLEAN

VARIABLES
  num_elmts, free_node_pool, nodes, buckets, table,
  most,      \* history: the largest number of keys a bank has had
  stopped    \* an assertion has failed

vars == <<num_elmts, free_node_pool, nodes, buckets, table, most, stopped>>

NULL == -1
INVALID == "invalid"
\* The last bank may run out of its slice as well.
Node == 0 .. (Cardinality(Bank) - 1) * SLICE + LIMIT - 1
NoNode == [key |-> INVALID, data |-> INVALID, next |-> NULL]

\* The chain of a bucket: its n-th node, and the place of a key in it.
Chain(b, h) ==
  LET at[n \in 0 .. Cardinality(Node)] ==
        IF n = 0 THEN buckets[b][h]
        ELSE IF at[n - 1] = NULL THEN NULL ELSE nodes[at[n - 1]].next
  IN  at
ChainNodes(b, h) == Range(Chain(b, h)) \ {NULL}
Places(b, k) ==
  LET at == Chain(b, Hash[k])
  IN  {n \in DOMAIN at : at[n] # NULL /\ nodes[at[n]].key = k
                          /\ \A m \in 0 .. n - 1 : nodes[at[m]].key # k}

shashtbl_get(b, k) ==
  IF Places(b, k) = {} THEN INVALID
  ELSE nodes[Chain(b, Hash[k])[CHOOSE n \in Places(b, k) : TRUE]].data

Init ==
  /\ num_elmts = [b \in Bank |-> 0]
  /\ free_node_pool = [b \in Bank |-> NULL]
  /\ nodes = [n \in Node |-> NoNode]
  /\ buckets = [b \in Bank |-> [h \in Bucket |-> NULL]]
  /\ table = [b \in Bank |-> <<>>]
  /\ most = [b \in Bank |-> 0] /\ stopped = FALSE

\* A node of the pool, else the next one of the slice.
NewNodeNoBank(b) ==           \* mutant: the slice is left out
  IF free_node_pool[b] = NULL THEN num_elmts[b] ELSE free_node_pool[b]
NewNode(b) ==
  IF free_node_pool[b] = NULL THEN (b * SLICE) + num_elmts[b]
  ELSE free_node_pool[b]
Taken(b) ==
  num_elmts' = [num_elmts EXCEPT ![b] =
                  IF free_node_pool[b] = NULL THEN @ + 1 ELSE @]

Keys(b) == DOMAIN table[b]

\* The assertion on node_idx, before the pool is looked at: it counts the
\* nodes ever taken out of the slice, also those that are in the pool.
IndexInRange(b) == num_elmts[b] < LIMIT
AssertFails(b) ==
  /\ stopped' = TRUE
  /\ UNCHANGED <<num_elmts, free_node_pool, nodes, buckets, table, most>>

InsertNode(b, k, d) ==
  LET h == Hash[k]
      new == NewNode(b)
  IN  /\ Taken(b)
      /\ free_node_pool' = [free_node_pool EXCEPT ![b] =
                              IF @ = NULL THEN NULL ELSE nodes[@].next]
      /\ nodes' = [nodes EXCEPT ![new] =
                     [key |-> k, data |-> d, next |-> buckets[b][h]]]
      /\ buckets' = [buckets EXCEPT ![b][h] = new]
      /\ table' = [table EXCEPT ![b] =
                     [x \in Keys(b) \cup {k} |-> IF x = k THEN d ELSE @[x]]]
      /\ most' = [most EXCEPT ![b] = Max({@, Cardinality(Keys(b)) + 1})]
      /\ UNCHANGED stopped

shashtbl_insert(b, k, d) ==
  /\ k \notin Keys(b) /\ Cardinality(Keys(b)) < LIMIT
  /\ IF OPTION_ENABLE_ASSERT /\ ~IndexInRange(b) THEN AssertFails(b)
     ELSE InsertNode(b, k, d)

\* The bucket, or the node before, takes over the next node.
Unlink(b, k, n) ==
  LET at == Chain(b, Hash[k])
      gone == at[n]
      pooled == [nodes EXCEPT ![gone].next = free_node_pool[b]]
  IN  IF n = 0
      THEN /\ buckets' = [buckets EXCEPT ![b][Hash[k]] = nodes[gone].next]
           /\ nodes' = pooled
      ELSE /\ nodes' = [pooled EXCEPT ![at[n - 1]].next = nodes[gone].next]
           /\ UNCHANGED buckets

\* A key that is not found: ASSERT(0), nothing changes.
shashtbl_remove(b, k) ==
  /\ k \in Keys(b)
  /\ table' = [table EXCEPT ![b] = Restrict(@, Keys(b) \ {k})]
  /\ IF Places(b, k) = {} THEN UNCHANGED <<buckets, nodes, free_node_pool>>
     ELSE \E n \in Places(b, k) :
            /\ Unlink(b, k, n)
            /\ free_node_pool' = [free_node_pool EXCEPT ![b] =
                                    Chain(b, Hash[k])[n]]
  /\ UNCHANGED <<num_elmts, most, stopped>>

shashtbl_update(b, k, d) ==
  /\ k \in Keys(b)
  /\ table' = [table EXCEPT ![b][k] = d]
  /\ IF Places(b, k) = {} THEN UNCHANGED nodes
     ELSE \E n \in Places(b, k) :
            nodes' = [nodes EXCEPT ![Chain(b, Hash[k])[n]].data = d]
  /\ UNCHANGED <<num_elmts, free_node_pool, buckets, most, stopped>>

Next ==
  ~stopped /\ \E b \in Bank, k \in Key :
    \/ \E d \in Data : shashtbl_insert(b, k, d) \/ shashtbl_update(b, k, d)
    \/ shashtbl_remove(b, k)

Spec == Init /\ [][Next]_vars
-----------------------------------------------------------------------------
\* The pool of a bank.
Pool(b) ==
  LET at[n \in 0 .. Cardinality(Node)] ==
        IF n = 0 THEN free_node_pool[b]
        ELSE IF at[n - 1] = NULL THEN NULL ELSE nodes[at[n - 1]].next
  IN  Range(at) \ {NULL}

\* The table holds what the caller put into it, whatever was removed and
\* inserted again in between: every key of its account is found with its
\* last value (else shashtbl_remove ends in ASSERT(0)) and no other is.
HoldsTheTable ==
  \A b \in Bank, k \in Key :
    shashtbl_get(b, k) = IF k \in Keys(b) THEN table[b][k] ELSE INVALID

\* No node is lost: each one that was ever taken is in one chain of its bank
\* or in its pool, in one of them only.
NoNodeLost ==
  \A b \in Bank :
    LET used == b * SLICE .. (b * SLICE) + num_elmts[b] - 1
        chained == UNION {ChainNodes(b, h) : h \in Bucket}
    IN  /\ chained \cup Pool(b) = used /\ chained \cap Pool(b) = {}
        /\ \A g, h \in Bucket :
             g # h => ChainNodes(b, g) \cap ChainNodes(b, h) = {}

\* The slice is never overrun, and no node of it taken while the pool has one:
\* a bank has taken as many as it had keys at once at the most.
NodesAsNeeded == \A b \in Bank : num_elmts[b] = most[b] /\ most[b] <= LIMIT

\* So the assertion of shashtbl_insert stops a caller that keeps to the limit
\* in one case only, and wrongly: the bank was full before, a key of it was
\* removed, and the pool has the node for the new one.
StopsOnlyAfterFull ==
  stopped => \E b \in Bank : /\ most[b] = LIMIT /\ Pool(b) # {}
                            /\ Cardinality(Keys(b)) < LIMIT

=============================================================================
