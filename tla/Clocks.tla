------------------------------- MODULE Clocks -------------------------------
(***************************************************************************)
(* src/xylose/timing, values that change with a time that callers set, and *)
(* src/xylose/Timer.h, which measures real time.  A Timing is a record:    *)
(*   timings   its elements, in order: how long (dt) and, for a PowerLaw,  *)
(*             from val_i to val_f with an exponent, perhaps in reverse    *)
(*   val, now, stack   current_val, current_time_absolute and time_stack   *)
(* A value is a fraction <<numerator, denominator>>.  The Collection goes  *)
(* through the registered Timings in the order of their addresses, "order".*)
(***************************************************************************)
EXTENDS Workbench

CONSTANTS Schedules,   \* the sequences of elements of the Timings
          TimeRange,   \* the times they are set to
          MaxTimes,    \* how many times a Timing keeps on its stack
          Usecs,       \* microseconds in a second
          MaxStops     \* how often a Timer is stopped

(* What is modelled of PowerLaws: whole times, exponents other than 0. *)
PowerLaws == [dt : Nat, exponent : Nat \ {0}, reverse : BOOLEAN, val_i : Int, val_f : Int]

ASSUME ClocksAssumption ==
  Schedules \subseteq Seq(PowerLaws) /\ TimeRange \subseteq Int /\ Usecs \in Nat \ {0}

PowerLaw(dt, expnt, vi, vf) ==
  [dt |-> dt, exponent |-> IF expnt < 0 THEN -expnt ELSE expnt, reverse |-> expnt < 0,
   val_i |-> vi, val_f |-> vf]

(* fast_pow of x and a whole k. *)
Power(x, k) == LET p[j \in 0 .. k] == IF j = 0 THEN 1 ELSE x * p[j - 1] IN p[k]

(* getValue(t_rel); eps10 only keeps fast_pow from negative numbers.       *)
GetValue(te, t_rel) ==
  LET k == te.exponent
      rise == te.val_f - te.val_i
  IN IF t_rel >= te.dt THEN <<te.val_f, 1>>
     ELSE IF t_rel <= 0 THEN <<te.val_i, 1>>
     ELSE IF te.reverse THEN <<te.val_f * Power(te.dt, k) - rise * Power(te.dt - t_rel, k), Power(te.dt, k)>>
     ELSE <<te.val_i * Power(te.dt, k) + rise * Power(t_rel, k), Power(te.dt, k)>>

(* f[1] + ... + f[n], added up one after the other. *)
SumTo(f, n) == LET s[k \in 0 .. n] == IF k = 0 THEN 0 ELSE s[k - 1] + f[k] IN s[n]

(* The absolute start of the element i. *)
StartOf(timings, i) == SumTo([j \in DOMAIN timings |-> timings[j].dt], i - 1)

(* The first element that has not ended before t, else the last one.       *)
ElementAt(timings, t) ==
  LET open == {i \in DOMAIN timings : t <= StartOf(timings, i) + timings[i].dt}
  IN IF open = {} THEN Len(timings) ELSE Min(open)

(* Bug: an element is asked for its value at the absolute time. *)
SetTimeAbsolute(T, t) ==
  IF T.timings = <<>> THEN [T EXCEPT !.now = t]
  ELSE [T EXCEPT !.now = t, !.val = GetValue(T.timings[ElementAt(T.timings, t)], t)]

(* set_time: the time is set even if it throws for want of elements. *)
SetTime(T, t) ==
  IF T.timings = <<>> THEN [T EXCEPT !.now = t]
  ELSE LET i == ElementAt(T.timings, t)
       IN [T EXCEPT !.now = t, !.val = GetValue(T.timings[i], t - StartOf(T.timings, i))]

PushTime(T, t) == [T EXCEPT !.stack = Append(@, t)]

(* pop_time: nothing is popped if set_time throws. *)
PopTime(T) ==
  LET set == SetTime(T, Last(T.stack))
  IN IF T.timings = <<>> THEN set ELSE [set EXCEPT !.stack = Front(@)]

IncrTime(T, dt) == SetTime(T, T.now + dt)

Done(op, T, t) ==
  CASE op = "set" -> SetTime(T, t)
    [] op = "incr" -> IncrTime(T, t)
    [] op = "push" -> PushTime(T, t)
    [] op = "pushnow" -> PushTime(T, T.now)
    [] op = "pop" -> PopTime(T)

Throws(op, T) == op \in {"set", "incr", "pop"} /\ T.timings = <<>>

(* One operation for all registered Timings, up to the first that throws. *)
ForAll(op, b, t) ==
  LET place(n) == CHOOSE k \in DOMAIN b.order : b.order[k] = n
      throwing == {k \in DOMAIN b.order : Throws(op, b.T[b.order[k]])}
      last == IF throwing = {} THEN Len(b.order) ELSE Min(throwing)
  IN [b EXCEPT !.T = [n \in DOMAIN @ |-> IF n \in Range(b.order) /\ place(n) <= last
                                         THEN Done(op, @[n], t) ELSE @[n]],
               !.thrown = throwing # {}]
-----------------------------------------------------------------------------
Names == {"a", "b"}

NewTiming(elements) == [timings |-> elements, val |-> <<0, 1>>, now |-> 0, stack |-> <<>>]

(* Two Timings; both, one or none is registered still. *)
NewTimings ==
  Free /\ \E ea, eb \in Schedules, order \in {<<"a", "b">>, <<"b", "a">>, <<"b">>, <<>>} :
    PutOn([is |-> "timings", pc |-> "idle", T |-> [n \in Names |-> NewTiming(IF n = "a" THEN ea ELSE eb)],
           order |-> order, thrown |-> FALSE, fresh |-> {}, before |-> <<>>, t |-> 0, tf |-> 0])

Pushed(b) == \A k \in DOMAIN b.order : b.T[b.order[k]].stack # <<>>

Room(b) == \A n \in DOMAIN b.T : Len(b.T[n].stack) < MaxTimes

SetAll(op) ==
  /\ On("timings") /\ bench.pc = "idle" /\ ~bench.thrown
  /\ op \in {"push", "pushnow"} => Room(bench)
  /\ op = "pop" => Pushed(bench)
  /\ \E t \in (IF op = "incr" THEN {1} ELSE IF op \in {"pushnow", "pop"} THEN {0} ELSE TimeRange) :
       /\ op = "incr" => \A n \in DOMAIN bench.T : bench.T[n].now + t \in TimeRange
       /\ bench' = LET b == ForAll(op, bench, t)
                   IN [b EXCEPT !.fresh = IF op \in {"push", "pushnow"} THEN @ ELSE Range(b.order),
                                !.before = IF b.thrown THEN bench.T ELSE <<>>]

(* Printer::print for every registered Timing, by steps of 1. *)
PrintCall ==
  /\ On("timings") /\ bench.pc = "idle" /\ ~bench.thrown /\ Room(bench)
  /\ \E ti, tf \in TimeRange :
       bench' = [ForAll("pushnow", bench, 0) EXCEPT
                   !.pc = "print", !.before = bench.T, !.t = ti, !.tf = tf]

PrintRow ==
  /\ On("timings") /\ bench.pc = "print" /\ ~bench.thrown /\ bench.t <= bench.tf
  /\ bench' = [ForAll("set", bench, bench.t) EXCEPT !.t = @ + 1]

PrintReturn ==
  /\ On("timings") /\ bench.pc = "print" /\ ~bench.thrown /\ bench.t > bench.tf
  /\ bench' = [ForAll("pop", bench, 0) EXCEPT !.pc = "printed"]

PrintEnd ==
  /\ On("timings") /\ bench.pc = "printed" /\ ~bench.thrown
  /\ bench' = [bench EXCEPT !.pc = "idle", !.before = <<>>, !.t = 0, !.tf = 0,
                            !.fresh = Range(bench.order)]
-----------------------------------------------------------------------------
(* Times of day are <<seconds, microseconds>>.  subtime borrows a second.  *)
Subtime(ti, tf) ==
  IF tf[2] < ti[2] THEN <<tf[1] - 1 - ti[1], tf[2] + Usecs - ti[2]>>
  ELSE <<tf[1] - ti[1], tf[2] - ti[2]>>

(* calculate(): dt, a fraction of microseconds, from the new interval.     *)
Calculate(function, dt, interval, n) ==
  LET a == interval[1] * Usecs + interval[2]
  IN CASE function = "AVERAGED" -> <<dt[1] * (n - 1) + a * dt[2], dt[2] * n>>
       [] function = "CUMMULATIVE" -> <<dt[1] + a * dt[2], dt[2]>>
       [] function = "SIMPLE" -> <<a, 1>>

Zeroed(function) ==
  [is |-> "timer", function |-> function, N_start |-> 0, N_stop |-> 0, tv |-> <<0, 0>>,
   dt |-> <<0, 1>>, clock |-> <<0, Usecs - 1>>, log |-> <<>>]

NewTimer == Free /\ \E f \in {"AVERAGED", "CUMMULATIVE", "SIMPLE"} : PutOn(Zeroed(f))

(* Time passes while a Timer runs. *)
Later(clock, usecs) ==
  LET u == clock[1] * Usecs + clock[2] + usecs IN <<u \div Usecs, u % Usecs>>

Start ==
  /\ On("timer") /\ bench.N_start = bench.N_stop /\ bench.N_start < MaxStops
  /\ bench' = [bench EXCEPT !.N_start = @ + 1, !.tv = bench.clock]

Stop ==
  /\ On("timer") /\ bench.N_start = bench.N_stop + 1
  /\ \E usecs \in 0 .. Usecs + 1 :
       LET now == Later(bench.clock, usecs)
       IN bench' = [bench EXCEPT !.N_stop = @ + 1, !.clock = now, !.log = Append(@, usecs),
                      !.dt = Calculate(bench.function, @, Subtime(bench.tv, now), bench.N_start)]

Zero ==
  /\ On("timer") /\ bench.N_stop = MaxStops
  /\ bench' = [Zeroed(bench.function) EXCEPT !.clock = <<bench.clock[1] % 2, bench.clock[2]>>]

ClocksNext ==
  \/ NewTimings \/ \E op \in {"set", "incr", "push", "pushnow", "pop"} : SetAll(op)
  \/ PrintCall \/ PrintRow \/ PrintReturn \/ PrintEnd \/ TakeOff("timings")
  \/ NewTimer \/ Start \/ Stop \/ Zero \/ TakeOff("timer")
-----------------------------------------------------------------------------
(* The value a Timing should have: what its elements, one after the other, *)
(* reach by t: a rise is a rise of the elapsed share to the exponent.      *)
Proper(timings, t) ==
  LET ended == {i \in DOMAIN timings : StartOf(timings, i + 1) < t}
      i == IF ended = {} THEN 1 ELSE IF Max(ended) = Len(timings) THEN Len(timings) ELSE Max(ended) + 1
      te == timings[i]
      full == Power(te.dt, te.exponent)
      share == Max({0, Min({te.dt, t - StartOf(timings, i)})})
      risen == IF te.reverse THEN full - Power(te.dt - share, te.exponent) ELSE Power(share, te.exponent)
  IN <<te.val_i * full + (te.val_f - te.val_i) * risen, full>>

(* A Timing shows the value of the time it is set to, also beyond its      *)
(* elements; all registered ones show the same time, and after a print     *)
(* they show again the time they did before, with the same times on their  *)
(* stacks.  When one throws for want of elements, those behind it have not *)
(* been set, and a print leaves its times on the stacks.  A Timer shows    *)
(* the last interval, the sum or the mean of all since it was zeroed, also *)
(* across the border of a second.                                          *)
TimesKept ==
  /\ On("timings") =>
       /\ ~bench.thrown => \A n \in bench.fresh :
            LET T == bench.T[n]
                p == Proper(T.timings, T.now)
            IN T.timings # <<>> /\ T.val[1] * p[2] = p[1] * T.val[2]
       /\ bench.pc = "printed" /\ ~bench.thrown => \A n \in DOMAIN bench.T :
            bench.T[n].now = bench.before[n].now /\ bench.T[n].stack = bench.before[n].stack
       /\ bench.thrown => \A k \in DOMAIN bench.order :
            LET n == bench.order[k]
            IN /\ (\E j \in 1 .. k - 1 : bench.T[bench.order[j]].timings = <<>>) =>
                    bench.T[n].now = bench.before[n].now
               /\ bench.pc = "print" =>
                    bench.T[n].stack = Append(bench.before[n].stack, bench.before[n].now)
  /\ On("timer") /\ bench.N_stop > 0 /\ bench.N_start = bench.N_stop =>
       LET n == Len(bench.log)
           sum == SumTo(bench.log, n)
       IN CASE bench.function = "SIMPLE" -> bench.dt = <<bench.log[n], 1>>
            [] bench.function = "CUMMULATIVE" -> bench.dt[1] = sum * bench.dt[2]
            [] bench.function = "AVERAGED" -> bench.dt[1] * n = sum * bench.dt[2]
=============================================================================
