---------------------------- MODULE MCCachePipe ----------------------------
(* Command sets of the runs of CachePipe. *)
EXTENDS CachePipe

MCRow   == 0..(2 * MaxOps + 2)
MCDatum == 0..MaxOps

W(l, parts) == [kind |-> "write", lpn |-> l, parts |-> parts]
R(l)        == [kind |-> "read", lpn |-> l, parts |-> {}]
Other(k)    == [kind |-> k, lpn |-> 0, parts |-> {}]

\* Every kind of command.  Three pages share a bank with two buffers; holes
\* are at either side or both, and page 0 has two ways to be written.
PipeCmds == {W(0, {1}), W(0, {0, 1, 2}), W(2, {0, 1}), W(4, {0, 1, 2}),
             W(1, {0, 1, 2}), R(0), R(1), R(2), Other("flush"), Other("idle")}
=============================================================================
