------------------------------ MODULE Generators ------------------------------
(***************************************************************************)
(* The random number generators of src/xylose/random, and the deviates     *)
(* computed from them.  The words of MersenneTwister and Kiss have Width   *)
(* bits, their constants are cut to Width bits and their shifts are the    *)
(* same share of the word; the state of MersenneTwister has N words, and   *)
(* N - M is where its twist looks.  Crappy has the integers of the code.   *)
(* On the bench a generator is a member state, and of MersenneTwister also *)
(* left and the pointer next: the generator it points into, the position.  *)
(***************************************************************************)
EXTENDS Workbench, Bitwise

CONSTANTS Width, N, M,     \* 32, 624 and 397 in the code
          Burnt,           \* how many numbers Crappy::seed skips, 100
          ScalarSeeds,     \* seeds of one word
          MaxDraws,        \* how many numbers each generator draws
          Uniform,         \* rand() returns k / Uniform for a k in 0 .. Uniform
          Sigmas           \* widths asked of the Gaussian deviate

ASSUME TwistAssumption == N \in Nat /\ M \in 1 .. N - 1 /\ Uniform % 2 = 1

Word == 0 .. PowerOf2[Width] - 1
Cut(n) == n % PowerOf2[Width]
PartOf(bits) == (bits * Width) \div 32
Left(w, bits) == Cut(w * PowerOf2[PartOf(bits)])
Right(w, bits) == w \div PowerOf2[PartOf(bits)]
Leading(high) == high \div PowerOf2[16 - Width]   \* of a constant's upper half
-----------------------------------------------------------------------------
(* MersenneTwister.  The multipliers are the code's, modulo 2^16.          *)
Nowhere == [of |-> "nobody", at |-> 0]

TwisterSeed(s) ==
  LET state[j \in 0 .. N - 1] ==
        IF j = 0 THEN Cut(s) ELSE Cut(Cut(35173) * (state[j - 1] ^^ Right(state[j - 1], 30)) + j)
  IN state

(* One pass of seed(init_key): count turns from index i, each of which     *)
(* changes state[i] by state[i - 1].                                       *)
Pass(state, first, count, mult, Add(_, _)) ==
  LET turn[k \in 0 .. count] ==
        IF k = 0 THEN [s |-> state, i |-> first]
        ELSE LET t == turn[k - 1]
                 before == t.s[t.i - 1]
                 new == [t.s EXCEPT ![t.i] =
                           Cut((@ ^^ Cut((before ^^ Right(before, 30)) * Cut(mult))) + Add(k - 1, t.i))]
             IN IF t.i + 1 < N THEN [s |-> new, i |-> t.i + 1]
                ELSE [s |-> [new EXCEPT ![0] = new[N - 1]], i |-> 1]
  IN turn[count]

TwisterSeedArray(key) ==
  LET mixed == Pass(TwisterSeed(54954), 1, IF N > Len(key) THEN N ELSE Len(key), 26125,
                    LAMBDA k, i : key[(k % Len(key)) + 1] + (k % Len(key)))
      again == Pass(mixed.s, mixed.i, N - 1, 35685, LAMBDA k, i : PowerOf2[Width] - i)
  IN [again.s EXCEPT ![0] = PowerOf2[Width - 1]]

Twist(u, v) ==
  LET mixed == (u & PowerOf2[Width - 1]) | (v & (PowerOf2[Width - 1] - 1))
  IN (mixed \div 2) ^^ (IF v % 2 = 1 THEN Leading(39176) ELSE 0)

(* next_state(): in place, so later words see the new earlier ones.        *)
NextState(state) ==
  LET after[k \in 0 .. N] ==
        IF k = 0 THEN state
        ELSE LET s == after[k - 1]
             IN [s EXCEPT ![k - 1] = s[(k - 1 + M) % N] ^^ Twist(s[k - 1], s[k % N])]
  IN after[N]

Temper(w) ==
  LET a == w ^^ Right(w, 11)
      b == a ^^ (Left(a, 7) & Leading(40236))
      c == b ^^ (Left(b, 15) & Leading(61382))
  IN c ^^ Right(c, 18)

(* What a pointer that is not into a state reads is any word: no one.      *)
Anything == -1

TwisterDraw(g, who) ==
  LET refill == g[who].left - 1 = 0
      now == IF refill
             THEN [g EXCEPT ![who] = [state |-> NextState(@.state), left |-> N, next |-> [of |-> who, at |-> 0]]]
             ELSE [g EXCEPT ![who].left = @ - 1]
      p == now[who].next
  IN [g |-> [now EXCEPT ![who].next.at = @ + 1],
      y |-> IF p.of \in DOMAIN g /\ p.at < N THEN Temper(now[p.of].state[p.at]) ELSE Anything]

Twister(state) == [state |-> state, left |-> 1, next |-> Nowhere]
-----------------------------------------------------------------------------
KissSeed(x, y, z, w) ==
  <<x, IF y = 0 THEN Cut(x + 1) ELSE y, IF z = 0 THEN Cut(x + 2) ELSE z,
    IF w = 0 THEN Cut(x + 3) ELSE w, 0>>

KissDraw(s) ==
  LET y1 == s[2] ^^ Left(s[2], 13)
      y2 == y1 ^^ Right(y1, 17)
      x == Cut(Cut(69069) * s[1] + 1)
      y == y2 ^^ Left(y2, 5)
      k == Cut(Right(s[3], 2) + Right(s[4], 3))
      m == Cut(2 * s[4] + s[3] + s[5])
  IN [state |-> <<x, y, s[4], m, Right(k, 30)>>, y |-> Cut(x + y + m)]
-----------------------------------------------------------------------------
(* Crappy: five numbers and the index of the one drawn last.  The product  *)
(* is taken modulo mod in halves of 15 bits, which loses nothing of it.    *)
CrappyMod == PowerOf2[30]

SimpleRand(seed) ==
  LET half == PowerOf2[15]
      s == seed % CrappyMod
      low == 20077 * (s % half)                        \* 1103515245 = 33676 * 2^15 + 20077
      cross == (908 * (s % half) + 20077 * (s \div half)) % half   \* 33676 = 908 modulo 2^15
  IN (low + ((cross * half) % CrappyMod) + 12345) % CrappyMod

(* (state_length-1)*chosen wraps around at 2^32.                           *)
NextChosen(last) ==
  LET chosen == SimpleRand(last)
      quarter == CrappyMod \div 4
  IN ((5 * (chosen \div quarter) + (5 * (chosen % quarter)) \div quarter) \div 4) % 4

CrappyDraw(s) ==
  LET at == NextChosen(s[6])
      chosen == s[at + 1]
  IN [state |-> [s EXCEPT ![6] = at, ![at + 1] = SimpleRand(chosen)], y |-> chosen]

CrappySeed(iseed) ==
  LET burnt[k \in 0 .. Burnt + 5] == IF k = 0 THEN iseed ELSE SimpleRand(burnt[k - 1])
  IN CrappyDraw([k \in 1 .. 5 |-> burnt[Burnt + k]] \o <<0>>).state

CrappySeedVector(vseed) ==
  CrappyDraw([k \in 1 .. 5 |-> IF vseed[k] < 0 THEN -vseed[k] ELSE vseed[k]] \o <<0>>).state
-----------------------------------------------------------------------------
(* RandBase::seed(): from the words /dev/urandom gives, or when it cannot  *)
(* give them all from the hash of the time and a count.                    *)
Hash(h1, h2, differ) == Cut(h1 + differ) ^^ h2

AutoSeed(words, needed, h1, h2, differ) ==
  IF Len(words) = needed THEN [array |-> words, differ |-> differ]
  ELSE [array |-> <<Hash(h1, h2, differ)>>, differ |-> differ + 1]

(* rand(), randExc() and randDblExc() as numerators over a denominator,    *)
(* and randT<int32_t>, where abs has nothing to return for the lowest.     *)
Rand(r, max) == <<r, max>>
RandExc(r, max) == <<r, max + 1>>
RandDblExc(r, max) == <<2 * r + 1, 2 * (max + 1)>>
RandInt32(r) == IF r < PowerOf2[Width - 1] THEN r ELSE IF r = PowerOf2[Width - 1] THEN -r ELSE PowerOf2[Width] - r
-----------------------------------------------------------------------------
Draw(kind, g, who) ==
  CASE kind = "MersenneTwister" -> TwisterDraw(g, who)
    [] kind = "Kiss" -> LET d == KissDraw(g[who]) IN [g |-> [g EXCEPT ![who] = d.state], y |-> d.y]
    [] kind = "Crappy" -> LET d == CrappyDraw(g[who]) IN [g |-> [g EXCEPT ![who] = d.state], y |-> d.y]

(* Seeded(kind, s): from one word, or from a vector of words.              *)
Seeded(kind, s) ==
  CASE kind = "MersenneTwister" ->
         Twister(IF Len(s) = 1 THEN TwisterSeed(s[1]) ELSE TwisterSeedArray(s))
    [] kind = "Kiss" -> IF Len(s) = 1 THEN KissSeed(s[1], 0, 0, 0) ELSE s \o <<0>>
    [] kind = "Crappy" -> IF Len(s) = 1 THEN CrappySeed(s[1]) ELSE CrappySeedVector(s)

SeedVectors(kind) ==
  CASE kind = "MersenneTwister" -> {<<7, 1>>, [k \in 1 .. N + 1 |-> k]}
    [] kind = "Kiss" -> {<<1, 2, 3, 4>>}
    [] kind = "Crappy" -> {<<v, 1, -7, CrappyMod, 5>> : v \in {-5, CrappyMod + 1, 2 * (CrappyMod - 1) + 1}}

Kinds == {"MersenneTwister", "Kiss", "Crappy"}

(* Two generators; the second is there for what the first one saves, once. *)
NewGenerators ==
  /\ Free
  /\ \E kind \in Kinds : \E s \in {<<w>> : w \in ScalarSeeds} \cup SeedVectors(kind) :
       PutOn([is |-> "generators", kind |-> kind, seed |-> s,
              g |-> [who \in {"first", "second"} |->
                       Seeded(kind, IF who = "first" THEN s ELSE <<1>>)],
              drawn |-> [who \in {"first", "second"} |-> <<>>], given |-> FALSE, same |-> FALSE])

RandIntOf(who) ==
  /\ On("generators") /\ Len(bench.drawn[who]) < MaxDraws
  /\ LET d == Draw(bench.kind, bench.g, who)
     IN bench' = [bench EXCEPT !.g = d.g, !.drawn[who] = Append(@, d.y)]

(* next points at the word that left says is the next one.                 *)
InPlace(g, who) ==
  g[who].left = 1 \/ g[who].next = [of |-> who, at |-> N - g[who].left + 1]

(* save() of the first and load() into the second: not the pointer.        *)
SaveAndLoad ==
  /\ On("generators") /\ ~bench.given
  /\ LET first == bench.g["first"]
         g == IF bench.kind = "MersenneTwister"
              THEN [bench.g EXCEPT !["second"].state = first.state, !["second"].left = first.left]
              ELSE [bench.g EXCEPT !["second"] = first]
     IN bench' = [bench EXCEPT !.g = g, !.drawn = [who \in DOMAIN g |-> <<>>], !.given = TRUE,
                               !.same = bench.kind = "MersenneTwister" => InPlace(g, "second")]

(* A copy of a MersenneTwister points into the original.                   *)
CopyGenerator ==
  /\ On("generators") /\ ~bench.given
  /\ LET g == [bench.g EXCEPT !["second"] = bench.g["first"]]
     IN bench' = [bench EXCEPT !.g = g, !.drawn = [who \in DOMAIN g |-> <<>>], !.given = TRUE,
                               !.same = bench.kind = "MersenneTwister" => InPlace(g, "second")]

(* A program seeds generators by themselves at one time of the clock.      *)
SeedAlone ==
  /\ Free
  /\ \E h1, h2 \in {0, 5, PowerOf2[Width] - 1}, read1, read2 \in {<<3, 4>>, <<3>>, <<>>} :
       LET one == AutoSeed(read1, 2, h1, h2, 0)
           two == AutoSeed(read2, 2, h1, h2, one.differ)
       IN PutOn([is |-> "seeds", one |-> one.array, two |-> two.array])
-----------------------------------------------------------------------------
(* GaussianDeviate: a deviate is the variate it comes from, the pair drawn *)
(* with it and the width; the second of a pair is kept for the next call.  *)
NewGaussian ==
  Free /\ PutOn([is |-> "gaussian", iset |-> FALSE, gset |-> <<>>, csigma |-> 0, pairs |-> 0,
                 asked |-> 0, returned |-> <<>>])

Variate(k) == 2 * k - Uniform

(* Bug: the deviate kept is of the width asked for before. *)
NextDeviateKept ==
  /\ On("gaussian") /\ Len(bench.returned) < MaxDraws
  /\ \E sigma \in Sigmas :
       IF bench.iset
       THEN bench' = [bench EXCEPT !.iset = FALSE, !.asked = sigma, !.returned = Append(@, bench.gset)]
       ELSE \E k1, k2 \in 0 .. Uniform :
              LET v1 == Variate(k1)
                  v2 == Variate(k2)
                  r == v1 * v1 + v2 * v2
                  deviate(v) == [v |-> v, r |-> r, pair |-> bench.pairs + 1, sigma |-> sigma]
              IN /\ r < Uniform * Uniform
                 /\ bench' = [bench EXCEPT !.csigma = sigma, !.pairs = @ + 1, !.gset = deviate(v1),
                                           !.iset = TRUE, !.asked = sigma, !.returned = Append(@, deviate(v2))]

(* operator(): draws of rand() until a pair lies in the unit circle.       *)
NextDeviate ==
  /\ On("gaussian") /\ Len(bench.returned) < MaxDraws
  /\ \E sigma \in Sigmas :
       IF bench.iset /\ sigma = bench.csigma
       THEN bench' = [bench EXCEPT !.iset = FALSE, !.asked = sigma, !.returned = Append(@, bench.gset)]
       ELSE \E k1, k2 \in 0 .. Uniform :
              LET v1 == Variate(k1)
                  v2 == Variate(k2)
                  r == v1 * v1 + v2 * v2
                  deviate(v) == [v |-> v, r |-> r, pair |-> bench.pairs + 1, sigma |-> sigma]
              IN /\ r < Uniform * Uniform
                 /\ bench' = [bench EXCEPT !.csigma = sigma, !.pairs = @ + 1, !.gset = deviate(v1),
                                           !.iset = TRUE, !.asked = sigma, !.returned = Append(@, deviate(v2))]

(* PoissonMult: factors of rand() until the product is at most exp(-lam),  *)
(* which is given as a part of Uniform^MaxDraws: above 1 for a negative    *)
(* lam, which comes here too because lam < 10 is asked first.              *)
One == Uniform^MaxDraws

NewPoissonian ==
  Free /\ \E enlam \in {One \div 3, One - 1, One, One + 1} :
    PutOn([is |-> "poissonian", pc |-> "loop", enlam |-> enlam, X |-> 0, prod |-> One, factors |-> <<>>])

PoissonMult ==
  /\ On("poissonian") /\ bench.pc = "loop" /\ Len(bench.factors) < MaxDraws
  /\ \E k \in 0 .. Uniform :
       LET prod == (bench.prod \div Uniform) * k
           more == prod > bench.enlam
       IN bench' = [bench EXCEPT !.prod = prod, !.factors = Append(@, k),
                                 !.X = IF more THEN @ + 1 ELSE @, !.pc = IF more THEN @ ELSE "done"]

GeneratorsNext ==
  \/ NewGenerators \/ SaveAndLoad \/ CopyGenerator \/ SeedAlone
  \/ RandIntOf("first") \/ RandIntOf("second")
  \/ NewGaussian \/ NextDeviate \/ NewPoissonian \/ PoissonMult
  \/ TakeOff("generators") \/ TakeOff("seeds") \/ TakeOff("gaussian") \/ TakeOff("poissonian")
-----------------------------------------------------------------------------
(* A generator that was given the state another one saved, or is its copy, *)
(* goes on with the very numbers that one goes on with, when its pointer   *)
(* next is where left says it is (always, but for MersenneTwister); every  *)
(* number lies between 0 and rand_max, also the first one after a seed out *)
(* of the range of Crappy; and Kiss never falls into its zero sequence     *)
(* unless it was seeded with the last word.                                *)
NumbersRepeat ==
  On("generators") =>
    /\ bench.same =>
         \A k \in DOMAIN bench.drawn["first"] \cap DOMAIN bench.drawn["second"] :
           bench.drawn["first"][k] = bench.drawn["second"][k] /\ bench.drawn["first"][k] # Anything
    /\ \A k \in DOMAIN bench.drawn["first"] :
         LET r == bench.drawn["first"][k]
             max == IF bench.kind = "Crappy" THEN CrappyMod ELSE PowerOf2[Width] - 1
         IN /\ r \in 0 .. (IF bench.kind = "Crappy" THEN max - 1 ELSE max)
            /\ RandExc(r, max)[1] < RandExc(r, max)[2] /\ Rand(r, max)[1] <= Rand(r, max)[2]
            /\ bench.kind # "Crappy" =>
                 /\ RandDblExc(r, max)[1] \in 1 .. RandDblExc(r, max)[2] - 1
                 /\ RandInt32(r) \in (0 .. PowerOf2[Width - 1] - 1) \cup {-PowerOf2[Width - 1]}
    /\ bench.kind = "Kiss" =>
         (bench.g["first"][2] = 0 <=> bench.seed = <<PowerOf2[Width] - 1>>)

(* No two generators that seed themselves at the same time of the clock    *)
(* get the same seed unless /dev/urandom gives it to both; no deviate is   *)
(* returned twice or with another width than the one asked for, and all    *)
(* come from within the unit circle; a Poissonian number counts exactly    *)
(* the factors whose product stayed above exp(-lam), none for lam <= 0.    *)
DeviatesFresh ==
  /\ (On("seeds") /\ bench.one = bench.two) => Len(bench.one) = 2
  /\ (On("gaussian") /\ bench.returned # <<>>) =>
       LET last == bench.returned[Len(bench.returned)]
       IN /\ last.sigma = bench.asked
          /\ last.r \in 1 .. Uniform * Uniform - 1
          /\ Cardinality({k \in DOMAIN bench.returned : bench.returned[k].pair = last.pair}) <= 2
          /\ \A k \in 1 .. Len(bench.returned) - 1 :
               LET other == bench.returned[k]
               IN other.pair = last.pair => k = Len(bench.returned) - 1
  /\ On("poissonian") =>
       /\ bench.enlam >= One => bench.X = 0
       /\ bench.pc = "done" => bench.X = Len(bench.factors) - 1 /\ bench.prod <= bench.enlam
       /\ bench.pc = "loop" => bench.X = Len(bench.factors)

(* Numbers come again exactly when they should.                            *)
Repeats == NumbersRepeat /\ DeviatesFresh
=============================================================================
