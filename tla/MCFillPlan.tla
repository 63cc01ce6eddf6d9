------------------------------ MODULE MCFillPlan ------------------------------
(***************************************************************************)
(* FillPlan for TLC: a family of small command lines.                      *)
(***************************************************************************)
EXTENDS FillPlan

\* Blocks of 4 units (or 3), headers of up to more than a block, regions of 1 to 4
\* blocks that begin and end inside a block, fills of less and more than a region.
\* minoff may lie behind maxoff, and the larger multipliers lead past Word = 64.
SmallCommands ==
    [size : {3, 4}, skip : {0, 1}, seekoff : {0, 1, 5}, headersz : {0, 1, 4, 6},
     minoff : {0, 1, 9}, maxoff : {2, 8, 13}, multiplier : {0, 1, 2, 6},
     nio : {1, 3, 5}, nrep : {1, 2}]
=============================================================================
