------------------------------ MODULE Workbench ------------------------------
(***************************************************************************)
(* Xylose is a collection of classes and functions that do not call each   *)
(* other, so their models share one variable: what lies on the workbench,  *)
(* one object or one call in progress at a time, as a record whose field   *)
(* "is" names the class or function and whose other fields are its members *)
(* or its locals.  The module of each class says what may be done with it. *)
(***************************************************************************)
EXTENDS Integers, Sequences, FiniteSets, SequencesExt

VARIABLE bench

NothingThere == [is |-> "nothing"]

On(class) == bench.is = class

Free == bench.is = "nothing"

PutOn(object) == bench' = object

TakeOff(class) == On(class) /\ bench' = NothingThere

Finish(class) == On(class) /\ bench.pc = "done" /\ bench' = NothingThere

(* Integer division of C: toward zero, for a positive divisor. *)
Truncated(a, b) == IF a >= 0 THEN a \div b ELSE -((-a) \div b)

(* Powers of two, for the weights of bits. *)
PowerOf2[n \in Nat] == IF n = 0 THEN 1 ELSE 2 * PowerOf2[n - 1]

SumOver(f, S) == MapThenSumSet(LAMBDA k : f[k], S)

ProductOver(f, S) == FoldFunctionOnSet(LAMBDA a, b : a * b, 1, f, S)
=============================================================================
