----------------------------- MODULE Integrators -----------------------------
(***************************************************************************)
(* src/xylose/integrate.  The fixed steps (fe.h, rk2.h, rk4.h and the      *)
(* Cash-Karp step rkck) are computed in integers for the derivative        *)
(* (k + 1) clock^k, "clock" being a second variable whose derivative is 1, *)
(* so that what a step reads at its stages shows in its result.            *)
(*                                                                         *)
(* The adaptive driver of rk5.cpp decides by errors of which only the      *)
(* comparison with errmax is modelled.  Times are multiples of the         *)
(* smallest one that still changes tr; dt is negative to go back in time.  *)
(*   step, next, current   dt_step (localDt), dt_step_next, ..._current    *)
(*   trial     the dt of rkqs           truncated   truncated_step         *)
(*   x         the time of which x is the solution                         *)
(*   tries, retries   number_tries and number_retries of the RK object     *)
(*   firm, hard   what the last step that was not cut asked for, and       *)
(*                whether the errors asked for less in one cut since       *)
(***************************************************************************)
EXTENDS Workbench

CONSTANTS Intervals,   \* the dt of the calls, zero among them
          FirstSteps,  \* the positive steps a program starts with
          MaxSolves,   \* calls made with one RK object
          MaxStep,     \* no next step is longer
          Share        \* 1 / (10 eps): what is left of dt is given up below this share of tr

ASSUME StepAssumption ==
  Intervals \subseteq Int /\ FirstSteps \subseteq Nat \ {0} /\ MaxSolves \in Nat /\ Share \in Nat \ {0}

Slope(k, clock) == IF k = 0 THEN 1 ELSE (k + 1) * clock ^ k

FE(k, x, t, dt) == x + dt * Slope(k, t)

RK2(k, x, t, dt) ==
  LET D1 == Slope(k, t)
      D2 == Slope(k, t + dt)
  IN x + (dt * (D1 + D2)) \div 2

RK4(k, x, t, dt) ==
  LET D1 == Slope(k, t)
      D2 == Slope(k, t + dt \div 2)
      D3 == Slope(k, t + dt \div 2)
      D4 == Slope(k, t + dt)
  IN x + (dt * (D1 + 2 * (D2 + D3) + D4)) \div 6

(* a, b, c and c - dc of rkck: numerators, over a common denominator.      *)
Ck == [a    |-> <<0, 8, 12, 24, 40, 35>>,   aden |-> 40,
       b    |-> <<<<>>, <<1>>, <<3, 9>>, <<3, -9, 12>>, <<-11, 135, -140, 70>>,
                  <<3262, 37800, 4600, 44275, 6831>>>>,
       bden |-> <<1, 5, 40, 10, 54, 110592>>,
       c    |-> <<9361, 0, 38500, 20125, 0, 27648>>,        cden |-> 95634,
       e    |-> <<39550, 0, 148600, 94675, 7479, 96768>>,   eden |-> 387072]

(* The clock in the state of stage i, whose derivatives D1, D2, ... are 1. *)
StageClock(i, t, dt) ==
  t + (dt * SumOver(Ck.b[i], DOMAIN Ck.b[i])) \div Ck.bden[i]

(* p_out, p_err and the time of which each stage asks the derivatives.     *)
Rkck(k, x, t, dt) ==
  LET D == [i \in 1 .. 6 |-> Slope(k, StageClock(i, t, dt))]
      fifth == SumOver([i \in 1 .. 6 |-> Ck.c[i] * D[i]], 1 .. 6) \div Ck.cden
      fourth == SumOver([i \in 1 .. 6 |-> Ck.e[i] * D[i]], 1 .. 6) \div Ck.eden
  IN [x |-> x + dt * fifth, err |-> dt * (fifth - fourth),
      asked |-> [i \in 1 .. 6 |-> t + (dt * Ck.a[i]) \div Ck.aden]]

(* One step of a fixed method from clock t, where x is t^(k + 1). *)
FixedStep ==
  Free /\ \E method \in {"fe", "rk2", "rk4", "rkck"}, t \in {0, 2, -5} :
    LET dt == IF method = "rkck" THEN 40 ELSE 12
    IN \E k \in (CASE method = "fe" -> {0} [] method = "rk2" -> {0, 1}
                   [] method = "rk4" -> 0 .. 3 [] method = "rkck" -> 0 .. (IF t = 0 THEN 2 ELSE 1)) :
         LET x == t ^ (k + 1)
             ck == Rkck(k, x, t, dt)
         IN PutOn([is |-> "step", pc |-> "done", method |-> method, k |-> k, t |-> t, dt |-> dt,
                   x |-> CASE method = "fe" -> FE(k, x, t, dt) [] method = "rk2" -> RK2(k, x, t, dt)
                           [] method = "rk4" -> RK4(k, x, t, dt) [] method = "rkck" -> ck.x,
                   err |-> IF method = "rkck" THEN ck.err ELSE 0,
                   asked |-> IF method = "rkck" THEN ck.asked ELSE <<>>])
-----------------------------------------------------------------------------
Size(d) == IF d < 0 THEN -d ELSE d

Dir(dt) == IF dt < 0 THEN -1 ELSE 1

CopySign(d, dt) == Dir(dt) * Size(d)

NewRK ==
  Free /\ \E step \in FirstSteps :
    PutOn([is |-> "rk5", pc |-> "idle", calls |-> 0, ti |-> 0, dt |-> 0, tr |-> 0, x |-> 0,
           step |-> step, next |-> 0, current |-> 0, trial |-> 0, truncated |-> FALSE,
           tries |-> 0, retries |-> 0, accepted |-> 0, thrown |-> 0, firm |-> step, hard |-> FALSE])

(* operator(): x at ti is to become x at ti + dt. *)
Integrate ==
  /\ On("rk5") /\ bench.pc = "idle" /\ bench.calls < MaxSolves
  /\ \E dt \in Intervals :
       LET step == CopySign(bench.step, dt)
       IN bench' = IF dt = 0
            THEN [bench EXCEPT !.calls = @ + 1, !.pc = "threw", !.step = step, !.dt = dt, !.tr = 0,
                               !.ti = bench.x]
            ELSE [bench EXCEPT !.calls = @ + 1, !.pc = "while", !.step = step, !.next = step,
                               !.current = 0, !.dt = dt, !.tr = 0, !.ti = bench.x,
                               !.truncated = FALSE, !.firm = step, !.hard = FALSE]

(* The test of the while-loop, with TIME_COMP_EPS. *)
StillAhead(b) == b.tr * Dir(b.dt) * (Share + 1) < b.dt * Dir(b.dt) * Share

(* Bug: the last step is not cut. *)
BeginStepWhole ==
  /\ On("rk5") /\ bench.pc = "while" /\ StillAhead(bench)
  /\ bench' = [bench EXCEPT !.pc = "rkqs", !.truncated = FALSE, !.current = bench.step, !.trial = bench.step]

(* A step that can overshoot is cut to what is left. *)
BeginStep ==
  /\ On("rk5") /\ bench.pc = "while" /\ StillAhead(bench)
  /\ LET cut == (bench.tr + bench.step) * Dir(bench.dt) > bench.dt * Dir(bench.dt)
         step == IF cut THEN CopySign(bench.dt - bench.tr, bench.dt) ELSE bench.step
     IN bench' = [bench EXCEPT !.pc = "rkqs", !.truncated = cut, !.step = step,
                               !.current = step, !.trial = step]

(* maxerr > 1: the trial shrinks to between a tenth and nine tenths of its *)
(* size, rounded to what changes tr; a trial that does not throws.         *)
Retry ==
  /\ On("rk5") /\ bench.pc = "rkqs"
  /\ \E d \in 0 .. Size(bench.trial) - 1 :
       /\ 10 * d >= Size(bench.trial) - 5 /\ 10 * d <= 9 * Size(bench.trial) + 5
       /\ bench' = IF d = 0
            THEN [bench EXCEPT !.pc = "threw", !.tries = @ + 1, !.trial = 0, !.thrown = @ + 1]
            ELSE [bench EXCEPT !.tries = @ + 1, !.retries = @ + 1,
                               !.trial = CopySign(d, bench.trial)]

(* maxerr <= 1: time and x advance, the next step is nine tenths to five   *)
(* times this one; operator() keeps it unless the step had been cut.       *)
Accept ==
  /\ On("rk5") /\ bench.pc = "rkqs"
  /\ \E d \in 1 .. Min({5 * Size(bench.trial), MaxStep}) :
       LET step == CopySign(d, bench.trial)
           did == bench.trial
           keep == ~bench.truncated \/ Size(step) < Size(did)
       IN /\ 10 * d >= 9 * Size(did) - 5
          /\ bench' = [bench EXCEPT !.pc = "while", !.tries = @ + 1, !.accepted = @ + 1,
                         !.step = step, !.current = did, !.tr = @ + did, !.x = @ + did,
                         !.next = IF keep THEN step ELSE @,
                         !.firm = IF bench.truncated THEN @ ELSE step,
                         !.hard = bench.truncated /\ (@ \/ d < Size(did))]

EndIntegrate ==
  /\ On("rk5") /\ bench.pc = "while" /\ ~StillAhead(bench)
  /\ bench' = [bench EXCEPT !.pc = "returned", !.step = bench.next]

(* The caller goes on from where x is, also after an exception; what the   *)
(* previous call left unfinished is part of no interval.                   *)
NextCall ==
  /\ On("rk5") /\ bench.pc \in {"returned", "threw"}
  /\ bench' = [bench EXCEPT !.pc = "idle", !.dt = 0, !.tr = 0, !.x = 0, !.ti = 0, !.next = 0,
                            !.current = 0, !.trial = 0, !.truncated = FALSE]

IntegratorsNext ==
  \/ FixedStep \/ Finish("step")
  \/ NewRK \/ Integrate \/ BeginStep \/ Retry \/ Accept \/ EndIntegrate \/ NextCall \/ TakeOff("rk5")
-----------------------------------------------------------------------------
(* Each fixed step is exact for the polynomials of its order, whatever its *)
(* stages read; the Cash-Karp error of such a polynomial is 0 and its      *)
(* stages ask for the time their states are at.                            *)
StepsExact ==
  On("step") =>
    /\ bench.x = (bench.t + bench.dt) ^ (bench.k + 1)
    /\ bench.err = 0
    /\ \A i \in DOMAIN bench.asked : bench.asked[i] = StageClock(i, bench.t, bench.dt)

(* The adaptive driver never passes ti + dt and goes neither back nor on   *)
(* with an x of another time than its own; it returns only when what is    *)
(* left of dt is a negligible share of what was done; every try ended in a *)
(* step, a retry or an exception; and the step it hands to the next call   *)
(* is the one its errors asked for in the last step that was not cut, in   *)
(* the direction of dt; a cut only makes it smaller, and only if the       *)
(* errors asked for that.                                                  *)
StepsArrive ==
  On("rk5") =>
    /\ bench.x = bench.ti + bench.tr
    /\ bench.tr * Dir(bench.dt) \in 0 .. Size(bench.dt)
    /\ bench.pc = "returned" => (Size(bench.dt) - Size(bench.tr)) * Share <= Size(bench.tr)
    /\ bench.tries = bench.accepted + bench.retries + bench.thrown
    /\ bench.pc = "returned" =>
         /\ bench.step * Dir(bench.dt) \in 1 .. Size(bench.firm)
         /\ ~bench.hard => bench.step = bench.firm
=============================================================================
