---------------------------- MODULE Distributions ----------------------------
(***************************************************************************)
(* The inverters of src/xylose/distribution, which turn a random fraction  *)
(* into a value of a given distribution, in the arithmetic of SmallFloats. *)
(* DiscreteInverter keeps a std::map from the share of all values up to a  *)
(* value to that value: a sequence of pairs in the order of their keys.    *)
(* Inverter keeps an array q of L+1 values at equal steps of the integral; *)
(* the array is on the heap and each of the inverters a and b owns one.    *)
(***************************************************************************)
EXTENDS SmallFloats

CONSTANTS Tables,    \* data of discrete distributions, sequences of <<value, P>>
          Densities  \* a continuous distribution at the points it is sampled at, and its range

Fractions == {<<k, 32>> : k \in 0 .. 32}

Positive(table) == SelectSeq(table, LAMBDA item : item[2] > 0)

(* The integral of P, each sum rounded. *)
IntP(weights) ==
  FoldLeft(LAMBDA sums, w :
             Append(sums, IF sums = <<>> THEN Float(w, 1) ELSE FloatPlus(Last(sums), Exact(w))),
           <<>>, weights)

(* The map's constructor keeps the first of equal keys; the keys come in   *)
(* ascending order.                                                        *)
Inserted(map, key, value) ==
  IF map # <<>> /\ SameNumber(Last(map)[1], key) THEN map ELSE Append(map, <<key, value>>)

ProbMap(table) ==
  LET items == Positive(table)
      sums == IntP([i \in DOMAIN items |-> items[i][2]])
      factor == FloatOver(Exact(1), Last(sums))
  IN FoldLeft(LAMBDA map, i : Inserted(map, FloatTimes(sums[i], factor), items[i][1]),
              <<>>, [i \in DOMAIN items |-> i])

LowerBound(map, rf) == {i \in DOMAIN map : ~Less(map[i][1], rf)}

UpperBound(map, rf) == {i \in DOMAIN map : Less(rf, map[i][1])}

DiscreteValue(map, rf) ==
  IF LowerBound(map, rf) = {} THEN Last(map)[2] ELSE map[Min(LowerBound(map, rf))][2]

MapLeverarm(map, rf) ==
  LET above == UpperBound(map, rf)
      i == Min(above)
      weighted(j, share) == FloatTimes(Exact(map[j][2]), share)
  IN IF above = {} THEN Exact(Last(map)[2])
     ELSE IF i = 1 THEN Exact(map[1][2])
     ELSE FloatOver(FloatPlus(weighted(i, FloatMinus(rf, map[i - 1][1])),
                              weighted(i - 1, FloatMinus(map[i][1], rf))),
                    FloatMinus(map[i][1], map[i - 1][1]))

(* The constructors of DiscreteInverter from data, and again with          *)
(* resetProbabilityMap.  Data without a positive probability leave an      *)
(* empty map, of which no value can be drawn.                              *)
NewDiscrete(table) ==
  Free /\ PutOn([is |-> "discrete", table |-> table, prob_map |-> ProbMap(table)])

ResetProbabilityMap(table) ==
  On("discrete") /\ PutOn([bench EXCEPT !.table = table, !.prob_map = ProbMap(table)])

(* The arrays of the constructor from a functor, from 0 to L. *)
Bins(d) == Len(d.P) - 1

NormalIntP(d) ==
  LET sums == IntP(d.P) IN [i \in 0 .. Bins(d) |-> FloatOver(sums[i + 1], Last(sums))]

Dx(d) == FloatOver(Exact(d.max - d.min), Exact(Bins(d)))

(* Bug: the steps begin at 0 and not at the first sample's integral. *)
ProbabilityFrom0(d, i) ==
  LET int == NormalIntP(d)
  IN FloatTimes(Exact(i), FloatOver(FloatMinus(int[Bins(d)], int[0]), Exact(Bins(d))))

ProbabilityAt(d, i) ==
  LET int == NormalIntP(d)
      dprob == FloatOver(FloatMinus(int[Bins(d)], int[0]), Exact(Bins(d)))
  IN FloatPlus(FloatTimes(Exact(i), dprob), int[0])

(* The first sample, but not that at min, whose integral reaches prob. *)
SampleAbove(d, prob) == Min({j \in 1 .. Bins(d) : ~Less(NormalIntP(d)[j], prob)})

InvertedAt(d, i) ==
  LET int == NormalIntP(d)
      prob == ProbabilityAt(d, i)
      j == SampleAbove(d, prob)
  IN FloatPlus(FloatPlus(Exact(d.min), FloatTimes(Exact(j - 1), Dx(d))),
               FloatTimes(FloatOver(Dx(d), FloatMinus(int[j], int[j - 1])),
                          FloatMinus(prob, int[j - 1])))

InvertedArray(d) ==
  [i \in 0 .. Bins(d) |->
     CASE i = 0 -> Exact(d.min) [] i = Bins(d) -> Exact(d.max) [] OTHER -> InvertedAt(d, i)]

Leverarm(L, q, rf) ==
  LET r == FloatTimes(rf, Exact(L))
      ri == IntegerPart(r)
  IN FloatPlus(q[ri], FloatTimes(FloatMinus(q[ri + 1], q[ri]), FloatMinus(r, Exact(ri))))

(* obj: what is in a and b, heap: the arrays by address. *)
Unused == Min(1 .. 3 \ DOMAIN bench.heap)

CopyLq(b, name, that, address) ==
  LET kept == IF name \in DOMAIN b.obj THEN DOMAIN b.heap \ {b.obj[name].q} ELSE DOMAIN b.heap
  IN [b EXCEPT !.heap = [p \in kept |-> b.heap[p]] @@ (address :> b.heap[that.q]),
               !.obj = (name :> [that EXCEPT !.q = address]) @@ @]

(* One bin or less is refused. *)
NewInverter(d) ==
  Bins(d) > 1 /\ Free /\ PutOn([is |-> "inverters", heap |-> 1 :> InvertedArray(d),
                 obj |-> "a" :> [L |-> Bins(d), q |-> 1, of |-> d]])

(* A second inverter beside the first. *)
NewInverterBeside(name, d) ==
  /\ On("inverters") /\ name \notin DOMAIN bench.obj /\ Bins(d) > 1
  /\ bench' = [bench EXCEPT !.heap = @ @@ (Unused :> InvertedArray(d)),
                            !.obj = @ @@ (name :> [L |-> Bins(d), q |-> Unused, of |-> d])]

CopyInverter(name, that) ==
  /\ On("inverters") /\ name \notin DOMAIN bench.obj /\ that \in DOMAIN bench.obj
  /\ bench' = CopyLq(bench, name, bench.obj[that], Unused)

(* Never to itself: copyLq would read what it has just freed. *)
AssignInverter(name, that) ==
  /\ On("inverters") /\ {name, that} \subseteq DOMAIN bench.obj /\ name # that
  /\ bench' = CopyLq(bench, name, bench.obj[that], Unused)

DestroyInverter(name) ==
  /\ On("inverters") /\ name \in DOMAIN bench.obj
  /\ bench' = [bench EXCEPT !.heap = [p \in DOMAIN @ \ {bench.obj[name].q} |-> @[p]],
                            !.obj = [n \in DOMAIN @ \ {name} |-> @[n]]]

DistributionsNext ==
  \/ \E table \in Tables : NewDiscrete(table) \/ ResetProbabilityMap(table)
  \/ \E d \in Densities :
       NewInverter(d) \/ \E name \in {"a", "b"} : NewInverterBeside(name, d)
  \/ \E name, that \in {"a", "b"} : CopyInverter(name, that) \/ AssignInverter(name, that)
  \/ \E name \in {"a", "b"} : DestroyInverter(name)
  \/ TakeOff("discrete")
  \/ bench.is = "inverters" /\ DOMAIN bench.obj = {} /\ TakeOff("inverters")
-----------------------------------------------------------------------------
(* Between a and b, give or take some. *)
Within(x, a, b, some) ==
  ~Less(<<x[1] * some[2] + some[1] * x[2], x[2] * some[2]>>, a)
  /\ ~Less(<<b[1] * some[2] + some[1] * b[2], b[2] * some[2]>>, x)

(* Over the fractions that rand may give, each value comes up as often as  *)
(* its probability says to one rounding of the map's keys, also when the   *)
(* data are not normalised or the last key is rounded below 1; a value     *)
(* without a probability never comes up.                                   *)
DrawsByShare(table, map) ==
  LET total == SumOver([i \in DOMAIN table |-> Max({0, table[i][2]})], DOMAIN table)
      of(v) == {i \in DOMAIN table : table[i][1] = v /\ table[i][2] > 0}
      share(v) == SumOver([i \in DOMAIN table |-> table[i][2]], of(v))
      drawn(v) == Cardinality({f \in Fractions : DiscreteValue(map, f) = v})
  IN \A i \in DOMAIN table :
       LET v == table[i][1]
       IN IF of(v) = {} THEN drawn(v) = 0
          ELSE Within(<<drawn(v), 32>>, <<share(v), total>>, <<share(v), total>>, <<3, 32>>)

(* For data in ascending order leverarm follows the fraction from the      *)
(* first value to the last.                                                *)
LeverarmFollows(map) ==
  \A k \in 0 .. 31 :
    LET x == MapLeverarm(map, <<k, 32>>)
        y == MapLeverarm(map, <<k + 1, 32>>)
    IN /\ Within(x, Exact(map[1][2]), Exact(Last(map)[2]), <<1, 4>>)
       /\ Within(y, x, Exact(Last(map)[2]), <<1, 4>>)

(* The array goes from min to max, and by linear interpolation between the *)
(* samples its values divide the distribution into L equal parts.          *)
DividesEqually(d, q) ==
  LET total == SumOver(d.P, DOMAIN d.P)
      below(j) == SumOver(d.P, 1 .. j + 1)
      \* the integral of the samples at x, times total
      integral(x) ==
        LET steps == <<(x[1] - d.min * x[2]) * Bins(d), x[2] * (d.max - d.min)>>
            j == Min({IntegerPart(steps), Bins(d) - 1})
        IN <<below(j) * steps[2] + d.P[j + 2] * (steps[1] - j * steps[2]), steps[2]>>
      goal(i) == <<d.P[1] * Bins(d) + i * (total - d.P[1]), Bins(d)>>
  IN /\ SameNumber(q[0], Exact(d.min)) /\ SameNumber(q[Bins(d)], Exact(d.max))
     /\ \A i \in 0 .. Bins(d) : Within(integral(q[i]), goal(i), goal(i), <<total, 10>>)
     /\ \A k \in 0 .. 31 :
          Within(Leverarm(Bins(d), q, <<k, 32>>), Exact(d.min), Exact(d.max), <<1, 4>>)

(* Whatever has been made, reset, copied, assigned and destroyed before,   *)
(* the inverters give the distribution they were last made of, and every   *)
(* array belongs to one inverter, which has not been destroyed.            *)
Inverts ==
  /\ On("discrete") =>
       DrawsByShare(bench.table, bench.prob_map) /\ LeverarmFollows(bench.prob_map)
  /\ On("inverters") =>
       /\ DOMAIN bench.heap = {bench.obj[n].q : n \in DOMAIN bench.obj}
       /\ Cardinality(DOMAIN bench.heap) = Cardinality(DOMAIN bench.obj)
       /\ \A n \in DOMAIN bench.obj :
            /\ bench.obj[n].L = Bins(bench.obj[n].of)
            /\ DividesEqually(bench.obj[n].of, bench.heap[bench.obj[n].q])
=============================================================================
