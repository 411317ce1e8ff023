------------------------------ MODULE BitArrays ------------------------------
(***************************************************************************)
(* src/xylose/bits.hpp, vectors of words used as arrays of bits;           *)
(* src/xylose/upper_triangle.h, half of a square matrix in a vector; and   *)
(* the strings of src/xylose/strutil.h.  bench.set and bench.cells hold    *)
(* what the callers of the first two have stored.                          *)
(***************************************************************************)
EXTENDS Workbench, Bitwise

CONSTANTS Tsz,       \* the bits of a word, 8 * sizeof(T)
          MaxBits,   \* how many bits are asked for at most
          MaxEdge,   \* the side of the largest matrix
          MaxText    \* the length of the longest string

ASSUME WordAssumption == Tsz \in Nat \ {0}

Words == 0 .. PowerOf2[Tsz] - 1

AllOnes == PowerOf2[Tsz] - 1

(* reverse(v): while there are ones in v its lowest bit moves to r. *)
ReverseWord(v) ==
  LET Loop[left \in Nat, r \in Nat, s \in Nat] ==
        IF left = 0 THEN (r * PowerOf2[s]) % PowerOf2[Tsz]
        ELSE Loop[left \div 2, ((2 * r) % PowerOf2[Tsz]) | (left % 2), s - 1]
  IN Loop[v, 0, Tsz]

(* A signed word is reversed as the unsigned word of the same bits. *)
ReverseSigned(v) ==
  LET r == ReverseWord(v % PowerOf2[Tsz])
  IN IF r >= PowerOf2[Tsz - 1] THEN r - PowerOf2[Tsz] ELSE r

BitCount(bytes) == Len(bytes) * Tsz

NumT(nbits) == (nbits + Tsz - 1) \div Tsz

ResizeBits(bytes, nbits, newvalue) ==
  [k \in 1 .. NumT(nbits) |-> IF k \in DOMAIN bytes THEN bytes[k] ELSE newvalue]

Fill(bytes, word) == [k \in DOMAIN bytes |-> word]

SetBit(bytes, n) == [bytes EXCEPT ![n \div Tsz + 1] = @ | PowerOf2[n % Tsz]]

UnsetBit(bytes, n) == [bytes EXCEPT ![n \div Tsz + 1] = @ & (PowerOf2[n % Tsz] ^^ AllOnes)]

TestBit(bytes, n) == (bytes[n \div Tsz + 1] & PowerOf2[n % Tsz]) # 0

ReverseBits(bytes) == [k \in DOMAIN bytes |-> ReverseWord(bytes[Len(bytes) + 1 - k])]

WriteBits(bytes) == [k \in 1 .. BitCount(bytes) |-> IF TestBit(bytes, k - 1) THEN "1" ELSE "0"]

(* Reads the digits at the front of the text, word by word. *)
ReadBits(text) ==
  LET Digits[k \in Nat] ==
        IF k = 0 THEN <<>>
        ELSE LET tmp == Digits[k - 1]
                 room == IF k - 1 >= BitCount(tmp) THEN Append(tmp, 0) ELSE tmp
             IN IF text[k] = "1" THEN SetBit(room, k - 1) ELSE room
      until == {k \in DOMAIN text : text[k] \notin {"0", "1"}}
  IN Digits[IF until = {} THEN Len(text) ELSE Min(until) - 1]
-----------------------------------------------------------------------------
(* Bug: the indices of a cell below the diagonal are not exchanged. *)
IndxUnordered(n, i, j) == i * n - (i * (i + 1)) \div 2 + j

(* upper_triangle<T, SymmetryFix>: row by row, without what is below the   *)
(* diagonal; SymmetryFix exchanges the indices of those.                   *)
Indx(n, i, j) ==
  LET a == IF j < i THEN j ELSE i
      b == IF j < i THEN i ELSE j
  IN a * n - (a * (a + 1)) \div 2 + b

TriangleSize(n) == (n * (n + 1)) \div 2

ResizeTriangle(t, n) ==
  [n |-> n, val |-> [k \in 1 .. TriangleSize(n) |-> IF k \in DOMAIN t.val THEN t.val[k] ELSE 0]]

Cell(t, i, j) == t.val[Indx(t.n, i, j) + 1]
-----------------------------------------------------------------------------
IsSpace(c) == c \in {"space", "tab"}

LStrip(s) ==
  LET other == {k \in DOMAIN s : ~IsSpace(s[k])}
  IN IF other = {} THEN <<>> ELSE SubSeq(s, Min(other), Len(s))

RStrip(s) ==
  LET other == {k \in DOMAIN s : ~IsSpace(s[k])}
  IN IF other = {} THEN <<>> ELSE SubSeq(s, 1, Max(other))

Strip(s) == LStrip(RStrip(s))
-----------------------------------------------------------------------------
NewBits ==
  Free /\ \E nbits \in 0 .. MaxBits, newvalue \in {0, AllOnes} :
    PutOn([is |-> "bits", bytes |-> ResizeBits(<<>>, nbits, newvalue),
           set |-> IF newvalue = 0 THEN {} ELSE 0 .. NumT(nbits) * Tsz - 1])

SetOrUnset ==
  /\ On("bits")
  /\ \E n \in 0 .. BitCount(bench.bytes) - 1 :
       \/ bench' = [bench EXCEPT !.bytes = SetBit(@, n), !.set = @ \cup {n}]
       \/ bench' = [bench EXCEPT !.bytes = UnsetBit(@, n), !.set = @ \ {n}]

SetOrUnsetAll ==
  /\ On("bits")
  /\ \/ bench' = [bench EXCEPT !.bytes = Fill(@, AllOnes), !.set = 0 .. BitCount(bench.bytes) - 1]
     \/ bench' = [bench EXCEPT !.bytes = Fill(@, 0), !.set = {}]

(* New bits are 0, the default for newvalue. *)
ResizeAll ==
  /\ On("bits")
  /\ \E nbits \in 0 .. MaxBits :
       bench' = [bench EXCEPT !.bytes = ResizeBits(@, nbits, 0),
                              !.set = @ \cap (0 .. NumT(nbits) * Tsz - 1)]

ReverseAll ==
  /\ On("bits")
  /\ bench' = [bench EXCEPT !.bytes = ReverseBits(@),
                            !.set = {BitCount(bench.bytes) - 1 - n : n \in @}]

(* The bits are written and read back, up to a character that is no digit. *)
WriteAndRead ==
  /\ On("bits")
  /\ \E k \in 0 .. BitCount(bench.bytes) :
       bench' = [bench EXCEPT
                   !.bytes = ReadBits(SubSeq(WriteBits(@), 1, k) \o <<"newline">>),
                   !.set = @ \cap (0 .. k - 1)]

NewTriangle ==
  Free /\ \E n \in 0 .. MaxEdge :
    PutOn([is |-> "triangle", t |-> ResizeTriangle([n |-> 0, val |-> <<>>], n), cells |-> <<>>])

SetCell ==
  /\ On("triangle") /\ Len(bench.cells) < 2
  /\ \E i, j \in 0 .. bench.t.n - 1 :
       bench' = [bench EXCEPT !.t.val[Indx(bench.t.n, i, j) + 1] = Len(bench.cells) + 1,
                              !.cells = Append(@, {i, j})]

(* The vector keeps its elements, which are other cells from now on. *)
ResizeCells ==
  /\ On("triangle")
  /\ \E n \in 0 .. MaxEdge :
       bench' = [bench EXCEPT !.t = ResizeTriangle(@, n), !.cells = <<>>]

StripText ==
  Free /\ \E s \in BoundedSeq({"space", "tab", "a"}, MaxText) :
    PutOn([is |-> "text", given |-> s, stripped |-> Strip(s)])

BitsNext ==
  \/ NewBits \/ SetOrUnset \/ SetOrUnsetAll \/ ResizeAll \/ ReverseAll \/ WriteAndRead
  \/ NewTriangle \/ SetCell \/ ResizeCells \/ StripText
  \/ TakeOff("bits") \/ TakeOff("triangle") \/ TakeOff("text")
-----------------------------------------------------------------------------
(* Whatever was set, cleared, resized, reversed or sent through a stream   *)
(* before, exactly the bits the callers count as set are set, none of a    *)
(* neighbour in the same word or across the border of two; every cell of   *)
(* the upper triangle has a place of its own, read as what was last stored *)
(* in it from either side of the diagonal; a stripped text begins and ends *)
(* with no space and only lost spaces at its ends.                         *)
StoredApart ==
  /\ On("bits") =>
       /\ {n \in 0 .. BitCount(bench.bytes) - 1 : TestBit(bench.bytes, n)} = bench.set
       /\ \A k \in DOMAIN bench.bytes :
            LET w == bench.bytes[k]
                signed == IF w >= PowerOf2[Tsz - 1] THEN w - PowerOf2[Tsz] ELSE w
            IN w \in Words /\ ReverseWord(ReverseWord(w)) = w
               /\ ReverseSigned(signed) % PowerOf2[Tsz] = ReverseWord(w)
  /\ On("triangle") =>
       LET t == bench.t
       IN /\ {Indx(t.n, i, j) : i, j \in 0 .. t.n - 1} = 0 .. Len(t.val) - 1
          /\ \A k \in DOMAIN bench.cells :
               LET c == bench.cells[k]
                   last == Max({m \in DOMAIN bench.cells : bench.cells[m] = c})
               IN Cell(t, Min(c), Max(c)) = last /\ Cell(t, Max(c), Min(c)) = last
  /\ On("text") =>
       LET s == bench.stripped
       IN /\ s # <<>> => ~IsSpace(s[1]) /\ ~IsSpace(s[Len(s)])
          /\ s = <<>> => \A k \in DOMAIN bench.given : IsSpace(bench.given[k])
          /\ \E a, b \in 0 .. Len(bench.given) :
               /\ s = SubSeq(bench.given, a + 1, Len(bench.given) - b)
               /\ \A k \in DOMAIN bench.given :
                    k <= a \/ k > Len(bench.given) - b => IsSpace(bench.given[k])
=============================================================================
