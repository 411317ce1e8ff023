------------------------------ MODULE SortMaps ------------------------------
(***************************************************************************)
(* The sorting maps of src/xylose/nsort/map: functions from a particle to  *)
(* the number of its bucket, built as a chain of wrappers around a base    *)
(* map.  A particle is a record of its position x, indexed by direction,   *)
(* and its species; Dimensions<...> is the sequence of its directions.     *)
(* A chain is a sequence of layers, outermost first, that ends in a base   *)
(* map; makeArg nests the arguments of its constructors in pairs.          *)
(***************************************************************************)
EXTENDS Workbench

Dims == {<<0>>, <<1>>, <<0, 1>>, <<1, 0>>, <<0, 1, 2>>, <<2, 0, 1>>}

ReversedDims(dims) == Reverse(dims)

PivotDepth(dims, depth) ==
  [dir |-> dims[depth + 1], rdir |-> ReversedDims(dims)[depth + 1]]

(* One bit per direction, the first direction in the lowest bit. *)
PivotOf(dims, point, p) ==
  MapThenSumSet(LAMBDA k : LET d == PivotDepth(dims, k).dir
                           IN IF p.x[d] >= point[d] THEN PowerOf2[k] ELSE 0,
                0 .. Len(dims) - 1)

PivotValues(dims) == PowerOf2[Len(dims)]

(* The cell of a position along one direction; the border cells take what  *)
(* lies outside of the grid.                                               *)
CellAlong(g, d, p) ==
  Max({0, Min({g.size[d] - 1, Truncated(p.x[d] - g.x0[d], g.dx[d])})})

UniformGrid(g, dims, p) ==
  MapThenSumSet(LAMBDA k : CellAlong(g, dims[k], p)
                           * ProductOver(g.size, {dims[j] : j \in 1 .. k - 1}),
                1 .. Len(dims))

UniformGridValues(g, dims) == ProductOver(g.size, {dims[k] : k \in 1 .. Len(dims)})

Direct(t) == t

SpeciesOnly(p) == p.species

RemapReset(n) == [v \in 0 .. n - 1 |-> v]

(* The number of distinct values that the table still gives. *)
RemapValues(table) == Cardinality(Range(table))

WithSpecies(n, value, p) == n * value + p.species

BaseOf(m, p) == CASE m.of = "pivot"   -> PivotOf(m.dims, m.arg, p)
                  [] m.of = "grid"    -> UniformGrid(m.arg, m.dims, p)
                  [] m.of = "species" -> SpeciesOnly(p)
                  [] m.of = "direct"  -> Direct(p)

BaseValues(m) == CASE m.of = "pivot" -> PivotValues(m.dims)
                   [] m.of = "grid"  -> UniformGridValues(m.arg, m.dims)

(* operator() of a chain: from the base map outward. *)
MapValue(chain, p) ==
  FoldLeft(LAMBDA v, m : CASE m.of = "w_species" -> WithSpecies(m.arg, v, p)
                           [] m.of = "remap"     -> m.arg[v]
                           [] OTHER              -> v,
           BaseOf(Last(chain), p), Reverse(Front(chain)))

NumberValues(chain) ==
  FoldLeft(LAMBDA n, m : CASE m.of = "w_species" -> n * m.arg
                           [] m.of = "remap"     -> RemapValues(m.arg)
                           [] OTHER              -> n,
           BaseValues(Last(chain)), Reverse(Front(chain)))

(* make_arg: pairs nested to the right, <<t1, <<t2, <<t3, t4>>>>>>. *)
MakeArg(ts) == FoldRight(LAMBDA t, rest : IF rest = <<>> THEN t ELSE <<t, rest>>, ts, <<>>)

(* The layers whose constructor takes the first of a pair and hands the    *)
(* second to the map inside; the others hand the whole argument on.        *)
Consumes(layer) == layer.of \in {"w_species", "identity_arg"}

(* The constructors of a chain, each given what the one around it left.    *)
Constructed(layers, arg) ==
  LET left[i \in 1 .. Len(layers)] ==
        IF i = 1 THEN arg
        ELSE IF Consumes(layers[i - 1]) THEN left[i - 1][2] ELSE left[i - 1]
      n(i) == NumberValues(Append(SubSeq(layers, i + 1, Len(layers) - 1),
                                  Last(layers) @@ [arg |-> left[Len(layers)]]))
  IN [i \in 1 .. Len(layers) |->
        layers[i] @@ [arg |-> CASE Consumes(layers[i])      -> left[i][1]
                                [] layers[i].of = "remap"   -> RemapReset(n(i))
                                [] layers[i].of = "identity" -> <<>>
                                [] OTHER                     -> left[i]]]
-----------------------------------------------------------------------------
Directions == 0 .. 2

Point(a, b, c) == [d \in Directions |-> CASE d = 0 -> a [] d = 1 -> b [] d = 2 -> c]

(* Particles on both sides of the pivot and of every border of the grid.   *)
Particles == [x : {Point(a, b, c) : a \in -1 .. 3, b \in {-1, 0, 1}, c \in {-2, 1}},
              species : 0 .. 1]

Origin == Point(0, 0, 0)

AGrid == [size |-> Point(3, 2, 2), x0 |-> Point(0, -1, -1), dx |-> Point(1, 1, 2)]

BaseMaps == [of : {"pivot", "grid"}, dims : Dims]

Wrappings ==
  {<<>>, <<[of |-> "w_species"]>>, <<[of |-> "w_species"], [of |-> "remap"]>>,
   <<[of |-> "identity"], [of |-> "identity_arg"], [of |-> "w_species"]>>,
   <<[of |-> "identity_arg"], [of |-> "w_species"], [of |-> "identity_arg"]>>}

(* The caller lists one argument per layer that takes one, base map last.  *)
ArgumentsFor(layers) ==
  LET for(m) == CASE m.of = "w_species" -> <<2>> [] m.of = "identity_arg" -> <<"unused">>
                  [] m.of = "pivot" -> <<Origin>> [] m.of = "grid" -> <<AGrid>>
                  [] OTHER -> <<>>
  IN FlattenSeq([i \in 1 .. Len(layers) |-> for(layers[i])])

Chain(wrapping, base) ==
  LET layers == Append(wrapping, base)
  IN Constructed(layers, MakeArg(ArgumentsFor(layers)))

(* A chain maps a particle. *)
MapCall ==
  Free /\ \E w \in Wrappings, b \in BaseMaps, p \in Particles :
    PutOn([is |-> "map", chain |-> Chain(w, b), p |-> p, pc |-> "done",
           value |-> MapValue(Chain(w, b), p)])

MapReturn == Finish("map")

(* Which species a chain tells apart, and which cell it puts p into, by    *)
(* the meaning of the map and not by its arithmetic.                       *)
SameBucket(chain, p, q) ==
  LET base == Last(chain)
      same(d) == IF base.of = "pivot" THEN (p.x[d] < 0) = (q.x[d] < 0)
                 ELSE \/ p.x[d] = q.x[d]
                      \/ \E c \in 0 .. base.arg.size[d] - 1 : \A r \in {p, q} :
                           /\ c > 0 => r.x[d] >= base.arg.x0[d] + c * base.arg.dx[d]
                           /\ c < base.arg.size[d] - 1 =>
                                r.x[d] < base.arg.x0[d] + (c + 1) * base.arg.dx[d]
  IN /\ \A k \in 1 .. Len(base.dims) : same(base.dims[k])
     /\ (\E i \in 1 .. Len(chain) : chain[i].of = "w_species") => p.species = q.species

(* Every particle, also one outside of the grid, gets a bucket below the   *)
(* number of values that NSort is to be built with, and two particles      *)
(* share a bucket exactly when they are in the same cell (and of the same  *)
(* species under w_species): no two cells are folded onto one index by the *)
(* strides of uniform_grid, pivot and w_species, whatever the order of the *)
(* dimensions and wherever the constructors' nested arguments end up.      *)
MapsFillBuckets ==
  On("map") =>
    /\ bench.value \in 0 .. NumberValues(bench.chain) - 1
    /\ \A q \in Particles :
         (MapValue(bench.chain, q) = bench.value) = SameBucket(bench.chain, bench.p, q)

MapNext == MapCall \/ MapReturn
=============================================================================
