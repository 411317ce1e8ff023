------------------------------ MODULE MCLibrary ------------------------------
(* Any object or call of the library on the bench. *)
EXTENDS NSort, Geometry, Binning, Distributions, BitArrays, Synchronized, Ownership, Clocks,
        Logging, Generators, Integrators, Documents, Programs

Init == bench = NothingThere

Next ==
  \/ MapNext \/ PartitionNext \/ NSortNext
  \/ BinningNext \/ DistributionsNext \/ GeometryNext \/ BitsNext
  \/ SyncNext \/ OwnershipNext \/ ClocksNext \/ LoggingNext
  \/ GeneratorsNext \/ IntegratorsNext \/ DocumentsNext \/ ProgramsNext

Spec == Init /\ [][Next]_bench

(* What was computed is what the definitions say: the maps name one bucket *)
(* for each cell and the partitions agree with them, each cell of a sorted *)
(* grid holds the particles that lie in it, the fixed steps are exact,     *)
(* bits, the cells of a triangle and texts are stored apart, and keys and  *)
(* what MPI is told of histograms are placed where they belong.            *)
ResultsMatch ==
  /\ MapsFillBuckets /\ PartitionsMatchPivot /\ CellsHoldTheirParticles
  /\ StepsExact /\ StoredApart /\ BinsPlaced

MCShapes == {<<3, 4>>, <<4, 3>>}
MCElements == {-2, 0, 1}
MCCoordinates == {-1, 0, 2}
MCSchedules ==
  {<<>>, <<PowerLaw(2, 2, 1, 3)>>, <<PowerLaw(1, 1, 0, 2), PowerLaw(2, -2, 4, 1)>>}
MCTimes == -1 .. 4
MCIntervals == {-4, 0, 5}

(* Sums that round below 1, equal keys, not normalised, nothing left out. *)
MCTables ==
  {<<<<1, 12>>, <<2, 0>>, <<4, 13>>>>, <<<<1, 32>>, <<3, 1>>, <<5, 3>>>>,
   <<<<1, 5>>, <<2, 5>>, <<3, 1>>, <<6, 7>>, <<7, 4>>>>, <<<<0, -2>>, <<3, 1>>>>}

MCDensities ==
  {[min |-> 0, max |-> 8, P |-> <<0, 1, 2, 1, 0>>], [min |-> -4, max |-> 4, P |-> <<1, 1, 1>>],
   [min |-> 0, max |-> 4, P |-> <<1, 0, 5, 3>>]}

Param(n, v) == [name |-> <<n>>, Initial |-> <<v>>, Upper |-> <<7>>]
Multiply(n, v) == [param |-> <<n>>, text |-> v]
Two == <<[Param |-> <<Param("p", 2), Param("q", 3)>>]>>
WithEquations(eqs) == [Minimize |-> <<"f">>, Parameters |-> Two, Constraints |-> <<[Eq |-> eqs]>>]

(* Everything that is asked for. *)
Whole ==
  [WithEquations(<<[Lower |-> <<1>>, Upper |-> <<9>>, Multiply |-> <<Multiply("p", 2)>>]>>)
     EXCEPT !.Parameters = <<[Param |-> <<[name |-> <<"p">>, Lower |-> <<0>>, Initial |-> <<2>>,
                                           Upper |-> <<7>>, Scaling |-> <<3>>]>>]>>]
  @@ [InitialStep |-> <<1>>]

(* What is optional missing or not, a factor without a name, and what is   *)
(* no number or not single.                                                *)
MCInputs ==
  {Whole,
   [Minimize |-> <<"f">>, Parameters |-> Two],
   WithEquations(<<[Lower |-> <<1>>, Multiply |-> <<Multiply("q", 5), Multiply("p", 2), Multiply("q", 4)>>],
                   [Upper |-> <<1>>, Multiply |-> <<Multiply("r", 2)>>]>>),
   WithEquations(<<[Multiply |-> <<Multiply("q", 5)>>], [Multiply |-> <<[text |-> 1]>>]>>),
   WithEquations(<<[Multiply |-> <<Multiply("q", Garbage)>>]>>),
   [Minimize |-> <<"f">>, Parameters |-> Two, InitialStep |-> <<Garbage>>],
   [Minimize |-> <<"f">>, Parameters |-> <<[Param |-> <<Param("p", Garbage)>>]>>],
   [Minimize |-> <<"f", "g">>, Parameters |-> Two]}

MCDataSets ==
  {[xscale |-> <<2>>, yscale |-> <<3>>,
    val |-> <<[x |-> <<1>>, y |-> <<4>>], [x |-> <<1>>, y |-> <<5>>], [x |-> <<0>>, y |-> <<6>>]>>],
   [xscale |-> <<2>>, yscale |-> <<3>>, val |-> <<[x |-> <<1>>]>>]}
=============================================================================
