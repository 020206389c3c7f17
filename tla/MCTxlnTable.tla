----------------------------- MODULE MCTxlnTable -----------------------------
(* TLC instance of TxlnTable: two-entry tables, virtual pages that share     *)
(* tables at different depths, and a heap one table too small for all.       *)
EXTENDS TxlnTable, TLC

CONSTANTS Data, Code

Va(a, b, c, d) == 0 :> a @@ 1 :> b @@ 2 :> c @@ 3 :> d

MCIdx == {0, 1}
MCFrames == 0..9
MCAttrs == {Data, Code}

\* The image is mapped at one page; callers remap it and map pages that
\* share its level 3 table, its level 2 table, or only the level 0 table.
MCInitMappings == << [va |-> Va(0, 0, 0, 0), pa |-> 8, attr |-> Code] >>
MCRequests ==
    { [va |-> Va(0, 0, 0, 0), pa |-> 9, attr |-> Data],
      [va |-> Va(0, 0, 0, 1), pa |-> 9, attr |-> Data],
      [va |-> Va(0, 0, 1, 0), pa |-> 9, attr |-> Data],
      [va |-> Va(0, 1, 0, 0), pa |-> 8, attr |-> Data],
      [va |-> Va(1, 0, 0, 1), pa |-> 9, attr |-> Data] }
==============================================================================
