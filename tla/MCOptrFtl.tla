----------------------------- MODULE MCOptrFtl -----------------------------
(***************************************************************************)
(* Instances of OptrFtl for TLC: the sets of write commands the host draws *)
(* from, as <<first logical page, number of pages>>.                       *)
(***************************************************************************)
EXTENDS OptrFtl

\* Writes that overlap one another: chains of dependencies.
ChainCmds == {<<0, 1>>, <<0, 2>>, <<1, 2>>}

\* One page that is rarely written and a pair that is written often: blocks
\* end up partly valid.
HotColdCmds == {<<0, 1>>, <<2, 3>>}

\* More pages of one bank than it has buffers, one of them with a neighbour
\* in another bank.
CrowdCmds == {<<0, 2>>, <<2, 1>>, <<4, 1>>}
=============================================================================
