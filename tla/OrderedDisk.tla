---------------------------- MODULE OrderedDisk ----------------------------
(***************************************************************************)
(* What an order-preserving SSD promises its host, with no mention of      *)
(* caches, logs or flash.  The host issues one write command at a time;    *)
(* the device takes in its pages one after the other.  A power failure     *)
(* leaves the image of a PREFIX of the sequence of writes: never a later   *)
(* write without an earlier one, never half a write, and never less than   *)
(* the writes known to be durable.                                         *)
(***************************************************************************)
EXTENDS Integers, Sequences, FiniteSets

CONSTANT Lpns                   \* logical pages

VARIABLES writes,               \* the writes issued so far: sets of pages
          pending,              \* pages of the last write still to come
          contents,             \* per page: the last write to it, 0 if none
          durable,              \* length of the prefix that must survive
          up                    \* FALSE after a power failure

dvars == <<writes, pending, contents, durable, up>>

\* The image left by the first p writes.
View(p) ==
  [l \in Lpns |->
     LET W == {k \in 1..p : l \in writes[k]}
     IN  IF W = {} THEN 0 ELSE CHOOSE k \in W : \A j \in W : j <= k]

DInit ==
  /\ writes = <<>> /\ pending = {} /\ durable = 0 /\ up = TRUE
  /\ contents = [l \in Lpns |-> 0]

Issue(S) ==
  /\ up /\ pending = {}
  /\ writes' = Append(writes, S) /\ pending' = S
  /\ UNCHANGED <<contents, durable, up>>

Put(l) ==
  /\ up /\ l \in pending
  /\ contents' = [contents EXCEPT ![l] = Len(writes)]
  /\ pending' = pending \ {l}
  /\ UNCHANGED <<writes, durable, up>>

\* A flush command completes, or a flushed prefix becomes covered.
Sync ==
  /\ up
  /\ durable' \in durable..Len(writes) /\ durable' # durable
  /\ UNCHANGED <<writes, pending, contents, up>>

PowerFail ==
  /\ up /\ up' = FALSE /\ pending' = {}
  /\ \E p \in durable..Len(writes) : contents' = View(p)
  /\ UNCHANGED <<writes, durable>>

DNext ==
  \/ \E S \in (SUBSET Lpns) \ {{}} : Issue(S)
  \/ \E l \in Lpns : Put(l)
  \/ Sync
  \/ PowerFail

DSpec == DInit /\ [][DNext]_dvars
=============================================================================
