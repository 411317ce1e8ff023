------------------------------- MODULE Binning -------------------------------
(***************************************************************************)
(* The histograms of src/xylose/binning: SingleValued counts keys,         *)
(* MultiValued also adds up a value per key, and Extender keeps a          *)
(* histogram in every bin for a second key.  A histogram is a record:      *)
(*   n, min, max, scale   as in the code, scale a rounded number           *)
(*   bins, hist           contents per bin; hist only in MultiValued       *)
(* where the bins of an Extender are histograms.  On the bench it comes    *)
(* with the log of what was added to it.                                   *)
(***************************************************************************)
EXTENDS SmallFloats

CONSTANTS Shapes,    \* the numbers of bins and maxima of the histograms, <<n, max>>
          MaxAdds    \* how often something is added

ASSUME ShapesAssumption == Shapes \subseteq (Nat \ {0}) \X Nat

(* init(): without a range everything is in bin 0. *)
ScaleOf(n, mn, mx) ==
  IF mn = 0 /\ mx = 0 THEN Exact(0)
  ELSE FloatTimes(FloatOver(Exact(n), Exact(mx - mn)), OneEps)

Single(n, mn, mx) ==
  [kind |-> "single", n |-> n, min |-> mn, max |-> mx, scale |-> ScaleOf(n, mn, mx),
   bins |-> [i \in 0 .. n - 1 |-> 0]]

Multi(n, mn, mx) ==
  [kind |-> "multi", n |-> n, min |-> mn, max |-> mx, scale |-> ScaleOf(n, mn, mx),
   bins |-> [i \in 0 .. n - 1 |-> 0], hist |-> [i \in 0 .. n - 1 |-> 0]]

(* The constructor initialises the children only with a range of their own. *)
Extended(child, mn2, mx2, n, mn, mx) ==
  [Single(n, mn, mx) EXCEPT
     !.kind = "extended",
     !.bins = [i \in DOMAIN @ |->
                 LET r == IF mx2 # mn2 THEN <<mn2, mx2>> ELSE <<0, 0>>
                 IN IF child = "single" THEN Single(n, r[1], r[2]) ELSE Multi(n, r[1], r[2])]]

(* The bin of a key, which is a pair like the numbers of SmallFloats. *)
Clamped(h, key) ==
  IF ~Less(key, Exact(h.max)) THEN Exact(h.max)
  ELSE IF Less(Exact(h.min), key) THEN key ELSE Exact(h.min)

GetBin(h, key) ==
  IntegerPart(FloatTimes(FloatMinus(Clamped(h, key), Exact(h.min)), h.scale))

BinInto(h, key, v) ==
  IF h.kind = "multi" THEN [h EXCEPT !.bins[GetBin(h, key)] = @ + v,
                                     !.hist[GetBin(h, key)] = @ + 1]
  ELSE [h EXCEPT !.bins[GetBin(h, key)] = @ + 1]

BinAdd(h, a) ==
  IF h.kind = "extended"
  THEN [h EXCEPT !.bins[GetBin(h, a.key)] = BinInto(@, a.key2, a.v)]
  ELSE BinInto(h, a.key, a.v)

(* Bug: the counts of a MultiValued stay. *)
ClearFlatBins(h) == [h EXCEPT !.bins = [i \in DOMAIN @ |-> 0]]

(* clearBins, operator*= and operator+= reach every bin and every child;   *)
(* MPI's SUM is operator+= on each histogram of its buffers.  MultiValued  *)
(* has no operator*=.                                                      *)
ClearFlat(h) ==
  IF h.kind = "multi" THEN [h EXCEPT !.bins = [i \in DOMAIN @ |-> 0], !.hist = [i \in DOMAIN @ |-> 0]]
  ELSE [h EXCEPT !.bins = [i \in DOMAIN @ |-> 0]]

ClearBins(h) ==
  IF h.kind = "extended" THEN [h EXCEPT !.bins = [i \in DOMAIN @ |-> ClearFlat(@[i])]]
  ELSE ClearFlat(h)

ScaleFlat(h, factor) == [h EXCEPT !.bins = [i \in DOMAIN @ |-> factor * @[i]]]

ScaleBins(h, factor) ==
  IF h.kind = "extended" THEN [h EXCEPT !.bins = [i \in DOMAIN @ |-> ScaleFlat(@[i], factor)]]
  ELSE ScaleFlat(h, factor)

SumFlat(h, that) ==
  LET g == [h EXCEPT !.bins = [i \in DOMAIN @ |-> @[i] + that.bins[i]]]
  IN IF h.kind = "multi" THEN [g EXCEPT !.hist = [i \in DOMAIN @ |-> @[i] + that.hist[i]]] ELSE g

SumBins(h, that) ==
  IF h.kind = "extended"
  THEN [h EXCEPT !.bins = [i \in DOMAIN @ |-> SumFlat(@[i], that.bins[i])]]
  ELSE SumFlat(h, that)

(* print: the middle of every bin as its key. *)
RowKey(h, i) ==
  FloatPlus(Exact(h.min), FloatOver(FloatPlus(Exact(i), Float(1, 2)), h.scale))

(* blockAdder: how MPI sees a histogram in memory, as blocks to skip and   *)
(* blocks of data, in bytes, in that order.  The bins are n Vectors of L   *)
(* numbers of e bytes; max, min and scale are doubles.  The blocks at the  *)
(* end fill up what the sums of the code leave of sizeof.                  *)
RoundUp(a, k) == ((a + k - 1) \div k) * k

Skip(bytes) == [pad |-> TRUE, bytes |-> bytes]

Data(bytes) == [pad |-> FALSE, bytes |-> bytes]

SingleSize(n, e, L) == RoundUp(24 + n * L * e, 8)

SingleBlocks(n, e, L) ==
  <<Skip(24), Data(L * n * e),
    Skip(IF e = 8 THEN 0 ELSE SingleSize(n, e, L) - (24 + L * n * L * e))>>

(* An int lies before the bins of a MultiValued, hist behind them. *)
MultiBins(e) == RoundUp(28, e)

MultiHist(n, e, L) == RoundUp(MultiBins(e) + n * L * e, 8)

MultiBlocks(n, e, L) ==
  <<Skip(MultiBins(e)), Data(n * L * e), Data(n * 8),
    Skip(MultiHist(n, e, L) + n * 8 - (MultiBins(e) + n * L * e + n * 4))>>

TotalSize(blocks) == SumOver([k \in DOMAIN blocks |-> blocks[k].bytes], DOMAIN blocks)

ExtendedBlocks(m, child, childsize) ==
  LET blocks == <<Skip(24)>> \o FlattenSeq([i \in 1 .. m |-> child])
  IN Append(blocks, Skip(24 + m * childsize - TotalSize(blocks)))

(* Where the blocks of data begin. *)
DataOffsets(blocks) ==
  LET data == SelectSeq([k \in DOMAIN blocks |-> k], LAMBDA k : ~blocks[k].pad)
  IN [j \in DOMAIN data |-> TotalSize(SubSeq(blocks, 1, data[j] - 1))]
-----------------------------------------------------------------------------
Keys(mx) == {<<k, 2>> : k \in -1 .. 2 * mx + 1}

NewHistogram ==
  Free /\ \E s \in Shapes, kind \in {"single", "multi"}, extended \in BOOLEAN :
    LET new == IF kind = "single" THEN Single(s[1], 0, s[2]) ELSE Multi(s[1], 0, s[2])
        h == IF extended THEN Extended(kind, 0, s[2], s[1], 0, s[2]) ELSE new
    IN PutOn([is |-> "histogram", pc |-> "use", h |-> h, adds |-> <<>>, factor |-> 1])

AddKey ==
  /\ On("histogram") /\ bench.pc = "use" /\ Len(bench.adds) < MaxAdds /\ bench.factor = 1
  /\ \E key \in {<<-1, 2>>, <<3, 2>>, <<2, 1>>, Exact(bench.h.max)},
        key2 \in (IF bench.h.kind = "extended" THEN {<<1, 2>>, <<5, 2>>} ELSE {<<0, 1>>}),
        v \in (IF bench.h.kind = "multi" THEN {1, 3} ELSE {1}) :
       LET a == [key |-> key, key2 |-> key2, v |-> v]
       IN /\ GetBin(bench.h, key) \in DOMAIN bench.h.bins
          /\ bench' = [bench EXCEPT !.h = BinAdd(@, a), !.adds = Append(@, a)]

(* A second histogram of the same shape, filled with what this one was     *)
(* given first, is added.                                                  *)
AddHistogram ==
  /\ On("histogram") /\ bench.pc = "use" /\ bench.adds # <<>> /\ bench.factor = 1
  /\ bench' = [bench EXCEPT !.pc = "summed", !.adds = Append(@, @[1]),
                            !.h = SumBins(@, BinAdd(ClearBins(@), bench.adds[1]))]

MultiplyHistogram ==
  /\ On("histogram") /\ bench.pc = "use" /\ bench.factor = 1
  /\ "hist" \notin DOMAIN bench.h
  /\ bench.h.kind = "extended" => "hist" \notin DOMAIN bench.h.bins[0]
  /\ bench' = [bench EXCEPT !.pc = "summed", !.factor = 2, !.h = ScaleBins(@, 2)]

ClearHistogram ==
  /\ On("histogram") /\ bench.adds # <<>>
  /\ bench' = [bench EXCEPT !.pc = "done", !.h = ClearBins(@), !.adds = <<>>, !.factor = 1]

(* The types that are registered with MPI. *)
AddBlocks ==
  Free /\ \E n \in 1 .. 4, e \in {4, 8}, L \in 1 .. 3, m \in 0 .. 3, multi \in BOOLEAN :
    /\ m > 0 => (L = 1 /\ ~multi)
    /\ LET one == IF multi THEN MultiBlocks(n, e, L) ELSE SingleBlocks(n, e, L)
       IN PutOn([is |-> "blocks", pc |-> "done", n |-> n, e |-> e, L |-> L, m |-> m, multi |-> multi,
                 blocks |-> IF m = 0 THEN one ELSE ExtendedBlocks(m, one, SingleSize(n, e, L))])

BinningNext ==
  \/ NewHistogram \/ AddKey \/ AddHistogram \/ MultiplyHistogram \/ ClearHistogram
  \/ TakeOff("histogram") \/ AddBlocks \/ Finish("blocks")
-----------------------------------------------------------------------------
Flat(h, i) ==
  IF h.kind = "multi" THEN <<h.bins[i], h.hist[i]>> ELSE <<h.bins[i]>>

(* What the given entries of the log add up to in a histogram like h. *)
Logged(b, h, mine) ==
  IF h.kind = "multi" THEN <<SumOver([k \in mine |-> b.adds[k].v], mine), Cardinality(mine)>>
  ELSE <<b.factor * Cardinality(mine)>>

(* The entries for a bin, and those for a bin of a child. *)
LoggedFor(b, i) == {k \in DOMAIN b.adds : GetBin(b.h, b.adds[k].key) = i}

LoggedForChild(b, i, j) == {k \in LoggedFor(b, i) : GetBin(b.h.bins[i], b.adds[k].key2) = j}

(* Whatever sequence of keys, sums, factors and clearings a histogram has  *)
(* seen, every bin (of every child) holds exactly what was added under its *)
(* keys since the last clearing.                                           *)
BinsAccount ==
  On("histogram") =>
    LET h == bench.h
    IN \A i \in DOMAIN h.bins :
         IF h.kind = "extended"
         THEN \A j \in DOMAIN h.bins[i].bins :
                Flat(h.bins[i], j) = Logged(bench, h.bins[i], LoggedForChild(bench, i, j))
         ELSE Flat(h, i) = Logged(bench, h, LoggedFor(bench, i))

(* Where a key belongs by exact arithmetic; a key on the border of two     *)
(* bins may be rounded into the lower one.                                 *)
ProperBins(h, key) ==
  LET c == Clamped(h, key)
      q == (c[1] * h.n) \div (c[2] * h.max)
      border == (c[1] * h.n) % (c[2] * h.max) = 0
  IN (IF border /\ q > 0 THEN {q - 1, q} ELSE {q}) \cap (0 .. h.n - 1)

(* Keys outside of the range count for the border bins, keys inside for    *)
(* the bin they lie in in spite of rounding, and a row is printed under a  *)
(* key of its own bin.                                                     *)
KeysPlaced ==
  On("histogram") /\ bench.adds = <<>> =>
    LET h == bench.h
    IN /\ \A key \in Keys(h.max) \ {<<2 * h.max, 2>>, <<2 * h.max + 1, 2>>} :
            GetBin(h, key) \in ProperBins(h, key)
       /\ \A i \in DOMAIN h.bins : GetBin(h, RowKey(h, i)) = i

(* What MPI is told to reduce lies where the members are: the bins of a    *)
(* SingleValued, of each child of an Extender of such numbers, and bins    *)
(* and hist of a MultiValued, these as far as the compiler puts no gap     *)
(* between them; and blocks of plain numbers add up to the whole object,   *)
(* so that the next one of an array is found.                              *)
BlocksFit ==
  On("blocks") =>
    LET b == bench
        size == SingleSize(b.n, b.e, b.L)
    IN /\ ~b.multi => DataOffsets(b.blocks) =
                        (IF b.m = 0 THEN <<24>> ELSE [i \in 1 .. b.m |-> 24 + (i - 1) * size + 24])
       /\ (~b.multi /\ b.L = 1) => TotalSize(b.blocks) = (IF b.m = 0 THEN size ELSE 24 + b.m * size)
       /\ (b.multi /\ (b.e = 8 \/ (b.n * b.L) % 2 = 1)) =>
            DataOffsets(b.blocks) = <<MultiBins(b.e), MultiHist(b.n, b.e, b.L)>>

(* The bins of the keys, and the blocks by which MPI sums them up.         *)
BinsPlaced == KeysPlaced /\ BlocksFit

(* getBin gives one of the bins for every key, the maximum included ("The  *)
(* maximum of the data range within which to histogram"): that is what     *)
(* one_eps is for.                                                         *)
KeysHaveBins ==
  On("histogram") =>
    \A key \in Keys(bench.h.max) : GetBin(bench.h, key) \in DOMAIN bench.h.bins
=============================================================================
