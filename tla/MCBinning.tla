------------------------------ MODULE MCBinning ------------------------------
(* Histograms alone, of a shape whose scale is rounded up. *)
EXTENDS Binning

Init == bench = NothingThere

Spec == Init /\ [][BinningNext]_bench

MCShapes == {<<9, 7>>}
=============================================================================
