---------------------------- MODULE VectorAlgebra ----------------------------
(***************************************************************************)
(* src/xylose/Vector.h and src/xylose/SquareMatrix.h over integers.  A     *)
(* Vector is a function from 0 .. L-1 and a SquareMatrix a function from   *)
(* 0 .. L-1 to its rows.  The operators that return a new object are       *)
(* operators here; the members that change their object in a loop are      *)
(* steps, because they take their operand by reference and it may be an    *)
(* element of that very object.                                            *)
(***************************************************************************)
EXTENDS Workbench

CONSTANT Elements    \* the values of the elements of vectors and matrices

(* The arithmetic of C on two integers; fast_pow is pow. *)
Calc(op, x, y) ==
  CASE op = "+" -> x + y
    [] op = "-" -> x - y
    [] op = "*" -> x * y
    [] op = "/" -> IF y > 0 THEN Truncated(x, y) ELSE Truncated(-x, -y)
    [] op = "max" -> IF x < y THEN y ELSE x
    [] op = "min" -> IF y < x THEN y ELSE x
    [] op = "pow" -> x ^ y

Holds(rel, x, y) ==
  CASE rel = ">" -> x > y [] rel = ">=" -> x >= y [] rel = "<" -> x < y
    [] rel = "<=" -> x <= y [] rel = "==" -> x = y

Filled(length, x) == [i \in 0 .. length - 1 |-> x]

(* Comparisons hold when they hold for every element. *)
Compare(rel, l, r) == \A i \in DOMAIN l : Holds(rel, l[i], r[i])

(* equals for doubles, with the tolerance eps[1] / eps[2]. *)
Distance(x, y) == IF x < y THEN y - x ELSE x - y

EqualDoubles(l, r, eps) ==
  \A i \in DOMAIN l : eps[2] * Distance(l[i], r[i]) <= eps[1] * Distance(l[i], 0)

(* Operators with a scalar on one side have the same loop as with a vector *)
(* of that scalar.  (Scalar + Vector reads lhs[i] of a scalar and cannot   *)
(* be instantiated.)                                                       *)
FreeOp(op, l, r) == [i \in DOMAIN l |-> Calc(op, l[i], r[i])]

CompOp(op, v1, v2) == [i \in DOMAIN v1 |-> Calc(op, v1[i], v2[i])]

(* retval += lhs[i] * rhs[i], up to element i. *)
Inner(l, r) ==
  LET Retval[i \in Nat] == l[i] * r[i] + (IF i = 0 THEN 0 ELSE Retval[i - 1])
  IN Retval[Cardinality(DOMAIN l) - 1]

Cross(a, b) ==
  [i \in 0 .. 2 |-> LET j == (i + 1) % 3
                        k == (i + 2) % 3
                    IN a[j] * b[k] - a[k] * b[j]]

Prod(v) ==
  LET Retval[i \in Nat] == v[i] * (IF i = 0 THEN 1 ELSE Retval[i - 1])
  IN Retval[Cardinality(DOMAIN v) - 1]

(* The loops keep the greatest (the least) element seen so far. *)
MaxMin(op, v) ==
  LET Retval[i \in Nat] == IF i = 0 THEN v[0] ELSE Calc(op, Retval[i - 1], v[i])
  IN Retval[Cardinality(DOMAIN v) - 1]

MultVector(v, dims) == ProductOver(v, dims)

Sum(v) == Inner(v, Filled(Cardinality(DOMAIN v), 1))

(* make_vector and V3: the arguments in order, the first one by name. *)
MakeVector(args) == [i \in 0 .. Len(args) - 1 |-> args[i + 1]]
-----------------------------------------------------------------------------
Side(m) == Cardinality(DOMAIN m)

Row(m, i) == m[i]

Col(m, j) == [i \in DOMAIN m |-> m[i][j]]

Identity(n) == [i \in 0 .. n - 1 |-> [j \in 0 .. n - 1 |-> IF i = j THEN 1 ELSE 0]]

MatTimes(lhs, rhs) == [i \in DOMAIN lhs |-> [j \in DOMAIN lhs |-> Inner(lhs[i], Col(rhs, j))]]

MatPlusMinus(op, lhs, rhs) == [i \in DOMAIN lhs |-> FreeOp(op, lhs[i], rhs[i])]

MatVec(lhs, rhs) == [i \in DOMAIN lhs |-> Inner(lhs[i], rhs)]

MatScalar(op, lhs, x) == [i \in DOMAIN lhs |-> FreeOp(op, lhs[i], Filled(Side(lhs), x))]

Transposed(m) == [i \in DOMAIN m |-> [j \in DOMAIN m |-> m[j][i]]]

CompMat(op, m1, m2) == [i \in DOMAIN m1 |-> CompOp(op, m1[i], m2[i])]

MatSQR(m) == MatTimes(m, m)

(* make_matrix and M3: row after row. *)
MakeMatrix(rows) == [i \in 0 .. Len(rows) - 1 |-> rows[i + 1]]
-----------------------------------------------------------------------------
Vectors(length) == [0 .. length - 1 -> Elements]

(* A vector, as the only row, and some matrices. *)
Arrays(class) ==
  IF class = "vector" THEN [{0} -> Vectors(3)]
  ELSE {m \in [{0, 1} -> Vectors(2)] : m[0][0] = m[1][1]}

(* What a member is called with: a scalar of its own, another object, or a *)
(* reference to an element of the object it changes.                       *)
Operands(class, a) ==
  {[from |-> "scalar", x |-> x] : x \in Elements}
    \cup {[from |-> "object", w |-> w] : w \in {w \in Arrays(class) : w[0][0] = w[0][1]}}
    \cup {[from |-> "element", k |-> k] : k \in (DOMAIN a) \X (DOMAIN a[0])}

OperandAt(a, operand, i, j) ==
  CASE operand.from = "scalar" -> operand.x
    [] operand.from = "object" -> operand.w[i][j]
    [] operand.from = "element" -> a[operand.k[1]][operand.k[2]]

(* Matrices have no += and -= with a matrix, vectors have all. *)
Members(class, from) ==
  IF class = "matrix" /\ from = "object" THEN {"*", "/"} ELSE {"+", "-", "*", "/"}

LoopCall ==
  Free /\ \E class \in {"vector", "matrix"} : \E a \in Arrays(class) :
    \E operand \in Operands(class, a) : \E op \in Members(class, operand.from) :
      /\ op = "/" => \A i \in DOMAIN a, j \in DOMAIN a[0] : OperandAt(a, operand, i, j) # 0
      /\ PutOn([is |-> "loop", class |-> class, was |-> a, a |-> a, op |-> op,
                operand |-> operand, i |-> 0, j |-> 0])

(* SquareMatrix::compDiv calls compMult for its rows. *)
RowOp(b) ==
  IF b.class = "matrix" /\ b.op = "/" /\ b.operand.from = "object" THEN "*" ELSE b.op

(* The next element of a row, the next row after the last one of a row. *)
Advance(b) ==
  IF b.j + 1 \in DOMAIN b.a[0] THEN [b EXCEPT !.j = @ + 1] ELSE [b EXCEPT !.i = @ + 1, !.j = 0]

LoopStep ==
  /\ On("loop") /\ bench.i \in DOMAIN bench.a
  /\ bench' = Advance([bench EXCEPT
                 !.a[bench.i][bench.j] =
                    Calc(RowOp(bench), @, OperandAt(bench.a, bench.operand, bench.i, bench.j))])

LoopReturn == On("loop") /\ bench.i \notin DOMAIN bench.a /\ bench' = NothingThere

(* SquareMatrix::transpose exchanges val[i][j] and val[j][i] for all i, j. *)
TransposeCall ==
  Free /\ \E m \in Arrays("matrix") : PutOn([is |-> "transpose", a |-> m, i |-> 0, j |-> 0])

TransposeStep ==
  /\ On("transpose") /\ bench.i \in DOMAIN bench.a
  /\ bench' = Advance([bench EXCEPT !.a[bench.i][bench.j] = bench.a[bench.j][bench.i],
                                    !.a[bench.j][bench.i] = bench.a[bench.i][bench.j]])

TransposeReturn == On("transpose") /\ bench.i \notin DOMAIN bench.a /\ bench' = NothingThere

(* The operators that return a new object, called with every pair. *)
VectorExpression ==
  Free /\ \E v, w \in Vectors(3) :
    PutOn([is |-> "vectors", v |-> v, w |-> w, cross |-> Cross(v, w),
           max |-> CompOp("max", v, w), min |-> CompOp("min", v, w)])

MatrixExpression ==
  Free /\ \E m, n \in Arrays("matrix"), v \in Vectors(2) :
    /\ v[0] # v[1] /\ m[0][1] <= n[1][0]
    /\ PutOn([is |-> "matrices", m |-> m, n |-> n, v |-> v,
              mn |-> MatTimes(m, n), nm |-> MatTimes(n, m),
              minus |-> MatPlusMinus("-", m, n), nv |-> MatVec(n, v),
              tm |-> Transposed(m), tn |-> Transposed(n)])

AlgebraNext ==
  \/ LoopCall \/ LoopStep \/ LoopReturn
  \/ TransposeCall \/ TransposeStep \/ TransposeReturn
  \/ VectorExpression \/ MatrixExpression
  \/ TakeOff("vectors") \/ TakeOff("matrices")
-----------------------------------------------------------------------------
VectorLaws(v, w, c, max, min) ==
  /\ Inner(c, v) = 0 /\ Inner(c, w) = 0
  /\ Inner(c, c) = Inner(v, v) * Inner(w, w) - Inner(v, w) * Inner(v, w)
  /\ Compare("==", v, w) <=> Compare(">=", v, w) /\ Compare("<=", v, w)
  /\ Compare(">", v, w) => Compare("<", w, v) /\ ~Compare("<=", v, w)
  /\ Compare("==", v, w) <=> EqualDoubles(v, w, <<0, 1>>)
  /\ EqualDoubles(v, w, <<1, 2>>) => \A i \in 0 .. 2 : v[i] * w[i] >= 0
  /\ FreeOp("+", max, min) = FreeOp("+", v, w) /\ Compare(">=", max, min)
  /\ Compare("<=", Filled(3, MaxMin("min", v)), v) /\ Compare("<=", v, Filled(3, MaxMin("max", v)))
  /\ 3 * MaxMin("min", v) <= Sum(v) /\ Sum(v) <= 3 * MaxMin("max", v)
  /\ CompOp("pow", v, Filled(3, 2)) = CompOp("*", v, v)
  /\ Prod(CompOp("*", v, w)) = Prod(v) * MultVector(w, {0, 1, 2})
  /\ MultVector(v, {0, 2}) * v[1] = Prod(MakeVector(<<v[0], v[1], v[2]>>))
  /\ (\A i \in 0 .. 2 : w[i] # 0) => CompOp("/", CompOp("*", v, w), w) = v

MatrixLaws(b) ==
  /\ MatVec(b.mn, b.v) = MatVec(b.m, b.nv)
  /\ Transposed(b.mn) = MatTimes(b.tn, b.tm)
  /\ MatTimes(b.m, Identity(2)) = b.m /\ MatTimes(Identity(2), b.m) = b.m
  /\ \A i, j \in 0 .. 1 : b.mn[i][j] = Inner(Row(b.m, i), Row(b.tn, j))
  /\ MatPlusMinus("+", MatSQR(b.minus), MatPlusMinus("+", b.mn, b.nm)) =
       MatPlusMinus("+", MatSQR(b.m), MatSQR(b.n))
  /\ MakeMatrix(<<Row(b.m, 0), Row(b.m, 1)>>) = b.m
  /\ Transposed(CompMat("*", b.m, b.n)) = CompMat("*", b.tm, b.tn)
  /\ MatScalar("/", MatScalar("*", b.m, 2), 2) = b.m
  /\ MatVec(MatScalar("-", MatScalar("+", b.m, 1), 1), b.v) = MatVec(b.m, b.v)

(* The members that change a vector or a matrix give what the operator of  *)
(* the same name gives for the object as it was, up to and with the        *)
(* element they were handed by reference: behind that element they see its *)
(* new value.  What the operators return obeys the laws of linear algebra: *)
(* Lagrange's identity of the cross and the inner product, associativity   *)
(* and transposition of products, an order of the comparisons.             *)
AlgebraHolds ==
  /\ On("loop") /\ ~(bench.class = "matrix" /\ bench.op = "/" /\ bench.operand.from = "object") =>
       \A i \in DOMAIN bench.a, j \in DOMAIN bench.a[0] :
         LET o == bench.operand
             old == OperandAt(bench.was, o, i, j)
             behind == o.from = "element" /\ (i > o.k[1] \/ (i = o.k[1] /\ j > o.k[2]))
             seen == IF behind THEN Calc(bench.op, old, old) ELSE old
             done == i < bench.i \/ (i = bench.i /\ j < bench.j)
         IN bench.a[i][j] = IF done THEN Calc(bench.op, bench.was[i][j], seen) ELSE bench.was[i][j]
  /\ On("vectors") => VectorLaws(bench.v, bench.w, bench.cross, bench.max, bench.min)
  /\ On("matrices") => MatrixLaws(bench)
=============================================================================
