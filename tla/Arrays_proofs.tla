--------------------------- MODULE Arrays_proofs ---------------------------
(***************************************************************************)
(* The layout of initialisers and the data section of Arrays, for arrays   *)
(* of every number of dimensions and every size.                           *)
(*                                                                         *)
(* Words and Assembled are recursive functions.  That they are defined,    *)
(* and what they give, is proved by induction, stated for a set of numbers *)
(* (Induction), because a set can be given to the provers where a          *)
(* predicate cannot.                                                       *)
(***************************************************************************)
EXTENDS Arrays, WellFoundedInduction, FunctionTheorems, FiniteSetTheorems,
        SequenceTheorems, TLAPS

-----------------------------------------------------------------------------
(* Induction *)

LEMMA Least ==
    ASSUME NEW S, S \subseteq Nat, S # {}
    PROVE  \E m \in S : \A n \in S : m <= n
<1> DEFINE less == OpToRel(<, Nat)
<1>1. \A m, n \in Nat : m < n => <<m, n>> \in less
  BY Zenon DEF OpToRel
<1>2. IsWellFoundedOn(less, Nat)
  BY NatLessThanWellFounded
<1> HIDE DEF less
<1>3. PICK m \in S : \A n \in S : ~(<<n, m>> \in less)
  BY <1>2, WFMin
<1>4. ASSUME NEW n \in S PROVE m <= n
  <2>1. m \in Nat /\ n \in Nat /\ ~(<<n, m>> \in less)
    BY <1>3, <1>4
  <2>2. ~(n < m)
    BY <1>1, <2>1
  <2> QED
    BY <2>1, <2>2
<1> QED
  BY <1>3, <1>4

LEMMA Induction ==
    ASSUME NEW S, 0 \in S, \A k \in S \cap Nat : k + 1 \in S
    PROVE  \A n \in Nat : n \in S
<1> SUFFICES ASSUME {n \in Nat : n \notin S} # {} PROVE FALSE
  OBVIOUS
<1>1. PICK m \in {n \in Nat : n \notin S} : \A n \in {n \in Nat : n \notin S} : m <= n
  BY Least
<1>2. m # 0 /\ m - 1 \in Nat /\ m - 1 \in S
  BY <1>1
<1> QED
  <2>1. m - 1 \in S \cap Nat /\ (m - 1) + 1 = m
    BY <1>1, <1>2
  <2>2. m \in S
    BY <2>1
  <2> QED
    BY <1>1, <2>2

-----------------------------------------------------------------------------
(* The sizes of sub-arrays *)

\* f gives the words of the sub-arrays of dims from layer `first` inwards.
AreWords(f, dims, first) ==
    f = [layer \in first .. Len(dims) |->
            IF layer = Len(dims) THEN 1 ELSE f[layer + 1] * dims[layer + 1]]

LEMMA WordsExist ==
    ASSUME NEW dims, Len(dims) \in Nat
    PROVE  \E f : AreWords(f, dims, 0)
<1> DEFINE n == Len(dims)
           S == {h \in Nat : h <= n => \E f : AreWords(f, dims, n - h)}
<1>1. 0 \in S
  <2> DEFINE f == [layer \in n .. n |-> 1]
  <2>1. AreWords(f, dims, n - 0)
    BY DEF AreWords
  <2> QED
    BY <2>1
<1>2. ASSUME NEW h \in S \cap Nat PROVE h + 1 \in S
  <2> SUFFICES ASSUME h + 1 <= n PROVE \E f : AreWords(f, dims, n - (h + 1))
    OBVIOUS
  <2>1. PICK f : AreWords(f, dims, n - h)
    BY <1>2
  <2> DEFINE first == n - (h + 1)
             g == [layer \in first .. n |-> IF layer = first THEN f[first + 1] * dims[first + 1]
                                           ELSE f[layer]]
  <2>2. first \in Nat /\ first + 1 = n - h /\ first < n /\ n \in Nat
    BY <1>2
  <2> HIDE DEF first
  <2>3. ASSUME NEW layer \in first .. n
        PROVE  g[layer] = IF layer = n THEN 1 ELSE g[layer + 1] * dims[layer + 1]
    <3>1. CASE layer = first
      BY <2>2, <2>3, <3>1
    <3>2. CASE layer # first
      <4>1. layer \in n - h .. n
        BY <1>2, <2>2, <2>3, <3>2
      <4>2. f[layer] = IF layer = n THEN 1 ELSE f[layer + 1] * dims[layer + 1]
        BY <2>1, <4>1 DEF AreWords
      <4>3. layer # n => layer + 1 \in first .. n /\ layer + 1 # first
        BY <2>2, <2>3, <3>2
      <4> QED
        BY <3>2, <4>2, <4>3
    <3> QED
      BY <3>1, <3>2
  <2>4. AreWords(g, dims, n - (h + 1))
    <3>1. g = [layer \in first .. n |-> g[layer]]
      OBVIOUS
    <3> HIDE DEF g
    <3> QED
      BY <2>3, <3>1 DEF AreWords, first
  <2> QED
    BY <2>4
<1>3. n \in S
  <2> HIDE DEF S
  <2> QED
    BY <1>1, <1>2, Induction
<1>4. n - n = 0
  OBVIOUS
<1> QED
  BY <1>3, <1>4

\* The words of a sub-array are those of the next one, times their number.
LEMMA WordsAre ==
    ASSUME NEW dims, Len(dims) \in Nat
    PROVE  /\ Words(dims)[Len(dims)] = 1
           /\ \A l \in 0 .. Len(dims) - 1 :
                 Words(dims)[l] = Words(dims)[l + 1] * dims[l + 1]
<1>1. Words(dims) = CHOOSE f : AreWords(f, dims, 0)
  BY DEF Words, AreWords
<1>2. AreWords(Words(dims), dims, 0)
  BY <1>1, WordsExist
<1> QED
  BY <1>2 DEF AreWords

LEMMA WordsPositive ==
    ASSUME NEW dims \in Seq(Nat \ {0})
    PROVE  \A l \in 0 .. Len(dims) : Words(dims)[l] \in Nat \ {0}
<1> DEFINE n == Len(dims)
           S == {h \in Nat : h <= n => Words(dims)[n - h] \in Nat \ {0}}
<1>1. n \in Nat /\ \A k \in 1 .. n : dims[k] \in Nat \ {0}
  OBVIOUS
<1>2. 0 \in S
  BY <1>1, WordsAre
<1>3. ASSUME NEW h \in S \cap Nat PROVE h + 1 \in S
  <2> SUFFICES ASSUME h + 1 <= n PROVE Words(dims)[n - (h + 1)] \in Nat \ {0}
    OBVIOUS
  <2> DEFINE l == n - (h + 1)
  <2>1. l \in 0 .. n - 1 /\ l + 1 = n - h /\ l + 1 \in 1 .. n
    BY <1>1, <1>3
  <2>2. Words(dims)[l + 1] \in Nat \ {0}
    BY <2>1, <1>3
  <2>3. Words(dims)[l] = Words(dims)[l + 1] * dims[l + 1]
    BY <1>1, <2>1, WordsAre
  <2>4. dims[l + 1] \in Nat \ {0}
    BY <1>1, <2>1
  <2>5. \A a, b \in Nat \ {0} : a * b \in Nat \ {0}
    OBVIOUS
  <2> HIDE DEF l
  <2> QED
    BY <2>2, <2>3, <2>4, <2>5 DEF l
<1> SUFFICES ASSUME NEW l \in 0 .. n PROVE Words(dims)[l] \in Nat \ {0}
  OBVIOUS
<1>4. n - l \in Nat /\ n - (n - l) = l /\ n - l <= n
  BY <1>1
<1>5. n - l \in S
  <2> HIDE DEF S
  <2> QED
    BY <1>2, <1>3, <1>4, Induction
<1> QED
  BY <1>4, <1>5

-----------------------------------------------------------------------------
(* The data section *)

\* The words a directive stands for.
Piece(d) == IF d.directive = "word" THEN <<d.arg>> ELSE [n \in 1 .. d.arg |-> 0]

AreImages(f, ds, last) ==
    f = [k \in 0 .. last |-> IF k = 0 THEN <<>> ELSE f[k - 1] \o Piece(ds[k])]

LEMMA ImagesExist ==
    ASSUME NEW ds, NEW last \in Nat
    PROVE  \E f : AreImages(f, ds, last)
<1> DEFINE S == {k \in Nat : \E f : AreImages(f, ds, k)}
<1>1. 0 \in S
  <2> DEFINE f == [k \in 0 .. 0 |-> <<>>]
  <2>1. AreImages(f, ds, 0)
    BY DEF AreImages
  <2> QED
    BY <2>1
<1>2. ASSUME NEW m \in S \cap Nat PROVE m + 1 \in S
  <2>1. PICK f : AreImages(f, ds, m)
    BY <1>2
  <2>2. m \in Nat
    BY <1>2
  <2> DEFINE g == [k \in 0 .. m + 1 |-> IF k = m + 1 THEN f[m] \o Piece(ds[m + 1]) ELSE f[k]]
  <2>3. ASSUME NEW k \in 0 .. m + 1
        PROVE  g[k] = IF k = 0 THEN <<>> ELSE g[k - 1] \o Piece(ds[k])
    <3>1. CASE k = m + 1
      <4>1. k - 1 = m /\ m \in 0 .. m + 1 /\ m # m + 1 /\ k # 0
        BY <2>2, <3>1
      <4> QED
        BY <2>3, <3>1, <4>1
    <3>2. CASE k # m + 1
      <4>1. k \in 0 .. m
        BY <2>2, <2>3, <3>2
      <4>2. f[k] = IF k = 0 THEN <<>> ELSE f[k - 1] \o Piece(ds[k])
        BY <2>1, <4>1 DEF AreImages
      <4>3. k # 0 => k - 1 \in 0 .. m + 1 /\ k - 1 # m + 1
        BY <2>2, <4>1
      <4> QED
        BY <2>3, <3>2, <4>2, <4>3
    <3> QED
      BY <3>1, <3>2
  <2>4. AreImages(g, ds, m + 1)
    <3>1. g = [k \in 0 .. m + 1 |-> g[k]]
      OBVIOUS
    <3> HIDE DEF g
    <3> QED
      BY <2>3, <3>1 DEF AreImages
  <2> QED
    BY <2>2, <2>4
<1>3. last \in S
  <2> HIDE DEF S
  <2> QED
    BY <1>1, <1>2, Induction
<1> QED
  BY <1>3

\* Two lists that agree up to `last' have the same images up to there.
LEMMA ImagesAgree ==
    ASSUME NEW f, NEW g, NEW ds, NEW es, NEW last \in Nat, NEW more \in Nat,
           AreImages(f, ds, last), AreImages(g, es, last + more),
           \A k \in 1 .. last : ds[k] = es[k]
    PROVE  \A k \in 0 .. last : f[k] = g[k]
<1> DEFINE S == {k \in Nat : k <= last => f[k] = g[k]}
<1>1. 0 \in S
  BY DEF AreImages
<1>2. ASSUME NEW k \in S \cap Nat PROVE k + 1 \in S
  <2> SUFFICES ASSUME k + 1 <= last PROVE f[k + 1] = g[k + 1]
    BY <1>2
  <2>1. /\ k \in Nat /\ k + 1 \in 0 .. last /\ k + 1 \in 0 .. last + more
        /\ k + 1 # 0 /\ (k + 1) - 1 = k /\ k + 1 \in 1 .. last
    BY <1>2
  <2>2. f[k + 1] = f[k] \o Piece(ds[k + 1]) /\ g[k + 1] = g[k] \o Piece(es[k + 1])
    BY <2>1 DEF AreImages
  <2>3. f[k] = g[k]
    BY <1>2, <2>1
  <2>4. ds[k + 1] = es[k + 1]
    BY <2>1
  <2> HIDE DEF S
  <2> QED
    BY <2>2, <2>3, <2>4
<1> SUFFICES ASSUME NEW k \in 0 .. last PROVE f[k] = g[k]
  OBVIOUS
<1>3. k \in S
  <2> HIDE DEF S
  <2> QED
    BY <1>1, <1>2, Induction
<1> QED
  BY <1>3

LEMMA AssembledIs ==
    ASSUME NEW ds, Len(ds) \in Nat
    PROVE  \E f : AreImages(f, ds, Len(ds)) /\ Assembled(ds) = f[Len(ds)]
<1> DEFINE f == CHOOSE f : AreImages(f, ds, Len(ds))
<1>1. Assembled(ds) = f[Len(ds)]
  BY DEF Assembled, AreImages, Piece
<1>2. AreImages(f, ds, Len(ds))
  BY ImagesExist
<1> QED
  BY <1>1, <1>2

LEMMA AssembledNone == Assembled(<<>>) = <<>>
<1>1. Len(<<>>) = 0
  OBVIOUS
<1>2. PICK f : AreImages(f, <<>>, 0) /\ Assembled(<<>>) = f[0]
  BY <1>1, AssembledIs
<1> QED
  BY <1>2 DEF AreImages

LEMMA AssembledNext ==
    ASSUME NEW T, NEW ds \in Seq(T), NEW d \in T
    PROVE  Assembled(Append(ds, d)) = Assembled(ds) \o Piece(d)
<1> DEFINE es == Append(ds, d)
           n == Len(ds)
<1>1. /\ n \in Nat /\ Len(es) = n + 1 /\ es[n + 1] = d
      /\ \A k \in 1 .. n : ds[k] = es[k]
  OBVIOUS
<1> HIDE DEF es
<1>2. PICK f : AreImages(f, ds, n) /\ Assembled(ds) = f[n]
  BY <1>1, AssembledIs
<1>3. PICK g : AreImages(g, es, n + 1) /\ Assembled(es) = g[n + 1]
  BY <1>1, AssembledIs
<1> HIDE DEF n
<1>4. f[n] = g[n]
  BY <1>1, <1>2, <1>3, ImagesAgree
<1>5. n + 1 \in 0 .. n + 1 /\ n + 1 # 0 /\ (n + 1) - 1 = n
  BY <1>1
<1>6. g[n + 1] = g[n] \o Piece(es[n + 1])
  BY <1>3, <1>5 DEF AreImages
<1>7. Assembled(es) = Assembled(ds) \o Piece(d)
  BY <1>1, <1>2, <1>3, <1>4, <1>6
<1> QED
  BY <1>7 DEF es

-----------------------------------------------------------------------------
(* Multiples *)

LEMMA Product ==
    /\ \A a, b \in Nat : a * b \in Nat /\ a * b = b * a
    /\ \A a, b, c \in Nat : a <= b => a * c <= b * c
    /\ \A a, c \in Nat : (a + 1) * c = a * c + c
<1>1. \A a, b \in Nat : a * b \in Nat /\ a * b = b * a
  OBVIOUS
<1>2. ASSUME NEW a \in Nat, NEW b \in Nat, NEW c \in Nat, a <= b PROVE a * c <= b * c
  <2>1. b - a \in Nat /\ (b - a) * c \in Nat
    BY <1>2
  <2>2. b * c = a * c + (b - a) * c
    BY <1>2
  <2> QED
    BY <2>1, <2>2
<1>3. \A a, c \in Nat : (a + 1) * c = a * c + c
  OBVIOUS
<1> QED
  BY <1>1, <1>2, <1>3

LEMMA Divides ==
    ASSUME NEW a \in Nat, NEW b \in Nat \ {0}
    PROVE  (a * b) % b = 0 /\ (a * b) \div b = a
<1> DEFINE q == (a * b) \div b
           r == (a * b) % b
<1>1. a * b \in Nat
  OBVIOUS
<1>2. q \in Int /\ r \in Int /\ a * b = b * q + r /\ 0 <= r /\ r < b
  BY <1>1
<1> HIDE DEF q, r
<1>3. q = a
  <2>1. CASE q <= a - 1
    <3>1. a - q - 1 \in Nat /\ (a - q - 1) * b \in Nat
      BY <1>2, <2>1
    <3>2. a * b - q * b = b + (a - q - 1) * b
      BY <1>2
    <3>3. q * b = b * q /\ q * b \in Int
      BY <1>2
    <3> QED
      BY <1>1, <1>2, <3>1, <3>2, <3>3
  <2>2. CASE q >= a + 1
    <3>1. q - a - 1 \in Nat /\ (q - a - 1) * b \in Nat
      BY <1>2, <2>2
    <3>2. q * b - a * b = b + (q - a - 1) * b
      BY <1>2
    <3>3. q * b = b * q /\ q * b \in Int
      BY <1>2
    <3> QED
      BY <1>1, <1>2, <3>1, <3>2, <3>3
  <2> QED
    BY <1>2, <2>1, <2>2
<1>4. r = 0
  <2>1. b * q = a * b /\ b * q \in Int
    BY <1>3
  <2> QED
    BY <1>1, <1>2, <2>1
<1> QED
  BY <1>3, <1>4 DEF q, r

\* A nested list that follows whole rows starts a row and leaves room for it.
LEMMA NextRow ==
    ASSUME NEW w \in Nat \ {0}, NEW d \in Nat, NEW pos \in Nat, NEW single \in {0, w},
           NEW rows \in Nat, pos = single + rows * w, pos < w * d
    PROVE  /\ pos + w <= w * d /\ pos % w = 0
           /\ \E more \in Nat : pos + w = more * w
<1>1. PICK r \in Nat : pos = r * w
  <2>1. CASE single = 0
    BY <2>1, Product
  <2>2. CASE single = w
    <3>1. rows + 1 \in Nat /\ (rows + 1) * w = rows * w + w /\ rows * w \in Nat
      BY Product
    <3> QED
      BY <2>2, <3>1
  <2> QED
    BY <2>1, <2>2
<1>2. r + 1 <= d
  <2> SUFFICES ASSUME d <= r PROVE FALSE
    BY <1>1
  <2>1. d * w <= r * w /\ w * d = d * w /\ d * w \in Nat /\ r * w \in Nat
    BY <1>1, Product
  <2> QED
    BY <1>1, <2>1
<1>3. (r + 1) * w = pos + w /\ (r + 1) * w <= d * w /\ w * d = d * w
  <2>1. r + 1 \in Nat
    BY <1>1
  <2> QED
    BY <1>1, <1>2, <2>1, Product
<1>4. pos % w = 0
  BY <1>1, Divides
<1>5. r + 1 \in Nat
  BY <1>1
<1> QED
  BY <1>3, <1>4, <1>5

-----------------------------------------------------------------------------
(* The invariant *)

Calls == [target : Nat, dim : Nat, current : Nat, singleCount : Nat,
          base : Nat, level : Nat, pos : Nat]

\* The call for the sub-array at a layer: its part of the array starts at `base', and
\* the elements since the last whole row are singleCount.
IsCall(c, layer, dims, size) ==
    /\ c.target = Words(dims)[layer]
    /\ c.dim = layer /\ c.level = layer
    /\ c.current = c.base /\ c.base <= size
    /\ c.base + Words(dims)[layer] <= Words(dims)[0]
    /\ c.singleCount <= size
    /\ c.pos <= Words(dims)[layer]
    /\ layer < Len(dims) - 1 =>
          \E rows \in Nat : c.pos = c.singleCount + rows * Words(dims)[layer + 1]

\* The calls stand for one sub-array of each layer, the next one in the part of the
\* array that the one around it has given up.
AreCalls(cs, dims, size) ==
    /\ cs \in Seq(Calls) /\ Len(cs) \in 1 .. Len(dims)
    /\ \A k \in 1 .. Len(cs) : IsCall(cs[k], k - 1, dims, size)
    /\ cs[1].base = 0
    /\ \A k \in 1 .. Len(cs) - 1 :
          cs[k + 1].base + Words(dims)[k] = cs[k].base + cs[k].pos
    /\ size = cs[Len(cs)].base + cs[Len(cs)].pos

\* What has been laid out is what C wants there, and what has not is not given.
IsLayout(src, want, dims) == \A o \in 0 .. (Words(dims)[0] - 1) :
    /\ o < Len(src) => src[o + 1] = (IF want[o] = NoElement THEN 0 ELSE want[o])
    /\ o >= Len(src) => want[o] = NoElement

Directives == [directive : {"space", "word"}, arg : Nat]

\* The data section so far assembles to the values so far.
IsData(ds, src, at) ==
    /\ ds \in Seq(Directives)
    /\ at \in 0 .. Len(src) + 1
    /\ Assembled(ds) = SubSeq(src, 1, IF at <= Len(src) THEN at ELSE Len(src))

IInv ==
    /\ dimension \in Shapes
    /\ srcArray \in Seq(Nat)
    /\ wanted \in [0 .. (Words(dimension)[0] - 1) -> Nat \cup {NoElement}]
    /\ phase \in {"flatten", "emit", "done", "abort"}
    /\ IsLayout(srcArray, wanted, dimension)
    /\ phase \in {"flatten", "abort"} =>
          AreCalls(calls, dimension, Size) /\ place = 0 /\ data = <<>>
    /\ phase \in {"emit", "done"} =>
          /\ calls = <<>> /\ Size = Words(dimension)[0]
          /\ IsData(data, srcArray, place)
    /\ phase = "done" => place >= Size

-----------------------------------------------------------------------------
(* Initialisers *)

LEMMA Sizes ==
    ASSUME dimension \in Shapes
    PROVE  /\ dimension \in Seq(Nat \ {0}) /\ Len(dimension) \in Nat \ {0}
           /\ \A l \in 0 .. Len(dimension) : Words(dimension)[l] \in Nat \ {0}
           /\ Words(dimension)[Len(dimension)] = 1
           /\ \A l \in 0 .. Len(dimension) - 1 :
                 /\ Words(dimension)[l] = Words(dimension)[l + 1] * dimension[l + 1]
                 /\ dimension[l + 1] \in Nat \ {0}
<1>1. dimension \in Seq(Nat \ {0}) /\ dimension # <<>>
  BY ArraysAssumption
<1>2. Len(dimension) \in Nat \ {0}
  BY <1>1
<1>3. \A l \in 0 .. Len(dimension) - 1 : dimension[l + 1] \in Nat \ {0}
  BY <1>1
<1> QED
  BY <1>1, <1>2, <1>3, WordsAre, WordsPositive

LEMMA InitHolds == Init => IInv
<1> SUFFICES ASSUME Init PROVE IInv
  OBVIOUS
<1> DEFINE w == Words(dimension)
           c == [target |-> w[0], dim |-> 0, current |-> 0, singleCount |-> 0,
                 base |-> 0, level |-> 0, pos |-> 0]
<1>1. /\ dimension \in Shapes /\ srcArray = <<>> /\ phase = "flatten"
      /\ calls = <<c>> /\ wanted = [o \in 0 .. (w[0] - 1) |-> NoElement]
      /\ place = 0 /\ data = <<>>
  BY DEF Init, Unit
<1>2. w[0] \in Nat \ {0} /\ Len(dimension) \in Nat \ {0}
  <2>1. 0 \in 0 .. Len(dimension)
    BY <1>1, Sizes
  <2> QED
    BY <1>1, <2>1, Sizes
<1>3. IsCall(c, 0, dimension, 0)
  <2>1. 0 < Len(dimension) - 1 => c.pos = c.singleCount + 0 * w[1]
    <3> SUFFICES ASSUME 0 < Len(dimension) - 1 PROVE 0 * w[1] = 0
      OBVIOUS
    <3>1. 1 \in 0 .. Len(dimension)
      BY <1>2
    <3>2. w[1] \in Nat
      BY <1>1, <3>1, Sizes
    <3> QED
      BY <3>2
  <2> QED
    BY <1>2, <2>1 DEF IsCall
<1>4. c \in Calls
  BY <1>2 DEF Calls
<1>5. c.base = 0 /\ c.pos = 0
  OBVIOUS
<1> HIDE DEF c
<1>6. AreCalls(calls, dimension, Size)
  <2>1. Len(calls) = 1 /\ calls[1] = c /\ calls \in Seq(Calls) /\ Size = 0
    BY <1>1, <1>4 DEF Size
  <2> QED
    BY <1>2, <1>3, <1>5, <2>1 DEF AreCalls
<1>7. IsLayout(srcArray, wanted, dimension)
  BY <1>1, <1>2 DEF IsLayout
<1> QED
  BY <1>1, <1>6, <1>7 DEF IInv

\* The innermost call.
LEMMA Innermost ==
    ASSUME IInv, phase \in {"flatten", "abort"}
    PROVE  /\ Top = calls[Len(calls)] /\ Top \in Calls
           /\ Len(calls) \in 1 .. Len(dimension) /\ Size \in Nat
           /\ IsCall(Top, Len(calls) - 1, dimension, Size)
           /\ Size = Top.base + Top.pos
<1>1. AreCalls(calls, dimension, Size) /\ srcArray \in Seq(Nat)
  BY DEF IInv
<1>2. Len(calls) \in 1 .. Len(dimension) /\ calls \in Seq(Calls)
  BY <1>1 DEF AreCalls
<1>3. Top = calls[Len(calls)]
  BY <1>2 DEF Top, Last
<1>4. Top \in Calls
  BY <1>2, <1>3, ElementOfSeq
<1> QED
  BY <1>1, <1>2, <1>3, <1>4 DEF AreCalls, Size

LEMMA FrontIs ==
    ASSUME NEW S, NEW c \in Seq(S), c # <<>>
    PROVE  /\ Front(c) \in Seq(S) /\ Len(Front(c)) = Len(c) - 1
           /\ \A k \in 1 .. Len(c) - 1 : Front(c)[k] = c[k]
           /\ Last(c) \in S /\ Last(c) = c[Len(c)] /\ DOMAIN Front(c) = 1 .. Len(c) - 1
<1>1. Len(c) \in Nat \ {0} /\ \A k \in 1 .. Len(c) : c[k] \in S
  OBVIOUS
<1>2. /\ Front(c) \in Seq(S) /\ Len(Front(c)) = Len(c) - 1
      /\ \A k \in 1 .. Len(c) - 1 : Front(c)[k] = c[k]
  <2>1. \A k \in 1 .. Len(c) - 1 : c[k] \in S
    BY <1>1
  <2>2. Len(c) - 1 \in Int /\ 1 \in Int /\ Len(c) - 1 - 1 + 1 = Len(c) - 1
    BY <1>1
  <2>3. /\ Front(c) \in Seq(S)
        /\ Len(Front(c)) = IF 1 <= Len(c) - 1 THEN Len(c) - 1 - 1 + 1 ELSE 0
        /\ \A k \in 1 .. Len(c) - 1 - 1 + 1 : Front(c)[k] = c[1 + k - 1]
    BY <2>1, <2>2, SubSeqProperties DEF Front
  <2>4. Len(Front(c)) = Len(c) - 1
    <3> DEFINE n == Len(c)
    <3>1. n \in Nat \ {0} /\ Len(Front(c)) = IF 1 <= n - 1 THEN n - 1 - 1 + 1 ELSE 0
      BY <1>1, <2>3
    <3> HIDE DEF n
    <3>2. n = 1 => Len(Front(c)) = n - 1
      BY <3>1
    <3>3. n # 1 => Len(Front(c)) = n - 1
      BY <3>1
    <3>4. Len(Front(c)) = n - 1
      BY <3>2, <3>3
    <3> QED
      BY <3>4 DEF n
  <2>5. ASSUME NEW k \in 1 .. Len(c) - 1 PROVE Front(c)[k] = c[k]
    <3>1. k \in 1 .. Len(c) - 1 - 1 + 1 /\ 1 + k - 1 = k
      BY <1>1
    <3> QED
      BY <2>3, <3>1
  <2> QED
    BY <2>3, <2>4, <2>5
<1> QED
  BY <1>1, <1>2 DEF Last

\* Only the innermost call changes.
LEMMA SetTopIs ==
    ASSUME calls \in Seq(Calls), Len(calls) \in Nat \ {0}, NEW c \in Calls
    PROVE  /\ SetTop(c) \in Seq(Calls) /\ Len(SetTop(c)) = Len(calls)
           /\ SetTop(c)[Len(calls)] = c
           /\ \A k \in 1 .. Len(calls) - 1 : SetTop(c)[k] = calls[k]
<1> DEFINE f == Front(calls)
<1>1. /\ f \in Seq(Calls) /\ Len(f) = Len(calls) - 1
      /\ \A k \in 1 .. Len(calls) - 1 : f[k] = calls[k]
  BY FrontIs
<1>2. SetTop(c) = Append(f, c)
  BY DEF SetTop
<1> HIDE DEF f
<1> QED
  BY <1>1, <1>2

\* A call that has taken elements.
Taking(t, single, pos) == [t EXCEPT !.singleCount = single, !.pos = pos]

LEMMA Taken ==
    ASSUME NEW t \in Calls, NEW single \in Nat, NEW pos \in Nat
    PROVE  LET c == Taking(t, single, pos)
           IN  /\ c \in Calls /\ c.pos = pos /\ c.singleCount = single
               /\ c.base = t.base /\ c.target = t.target /\ c.dim = t.dim
               /\ c.level = t.level /\ c.current = t.current
<1> DEFINE r == [target |-> t.target, dim |-> t.dim, current |-> t.current,
                 singleCount |-> single, base |-> t.base, level |-> t.level, pos |-> pos]
<1>1. Taking(t, single, pos) = r
  <2>1. t = [target |-> t.target, dim |-> t.dim, current |-> t.current,
             singleCount |-> t.singleCount, base |-> t.base, level |-> t.level,
             pos |-> t.pos]
    BY DEF Calls
  <2> DEFINE u == [t EXCEPT !.singleCount = single]
             v == [target |-> t.target, dim |-> t.dim, current |-> t.current,
                   singleCount |-> single, base |-> t.base, level |-> t.level,
                   pos |-> t.pos]
  <2>2. u = v
    BY <2>1
  <2>3. [v EXCEPT !.pos = pos] = r
    OBVIOUS
  <2>4. Taking(t, single, pos) = [u EXCEPT !.pos = pos]
    BY DEF Taking
  <2> HIDE DEF u, v, r
  <2> QED
    BY <2>2, <2>3, <2>4
<1>2. /\ r \in Calls /\ r.pos = pos /\ r.singleCount = single
      /\ r.base = t.base /\ r.target = t.target /\ r.dim = t.dim
      /\ r.level = t.level /\ r.current = t.current
  BY DEF Calls
<1> HIDE DEF r
<1> QED
  BY <1>1, <1>2

LEMMA IsCallGrows ==
    ASSUME NEW c \in Calls, NEW layer, NEW dims, NEW size \in Nat, NEW more \in Nat,
           IsCall(c, layer, dims, size), size <= more
    PROVE  IsCall(c, layer, dims, more)
  BY DEF IsCall, Calls

LEMMA SingleKeeps ==
    ASSUME IInv, Single
    PROVE  IInv'
<1> DEFINE l == Len(calls) - 1
           w == Words(dimension)
           c == Taking(Top, Top.singleCount + 1, Top.pos + 1)
<1>1. PICK e \in Nat : /\ srcArray' = Append(srcArray, e)
                       /\ wanted' = [wanted EXCEPT ![Top.base + Top.pos] = e]
  <2>1. phase = "flatten" /\ Size \in Nat
    BY Innermost DEF Single
  <2>2. Size + 1 \in Nat /\ {Size + 1} \cup (IF Zero THEN {0} ELSE {}) \subseteq Nat
    BY <2>1
  <2> QED
    BY <2>2 DEF Single
<1>2. /\ phase = "flatten" /\ Top.pos < Unit(Top.level) /\ calls' = SetTop(c)
      /\ dimension' = dimension /\ phase' = phase /\ place' = place /\ data' = data
  BY DEF Single, Taking
<1>3. /\ Top = calls[Len(calls)] /\ Top \in Calls
      /\ Len(calls) \in 1 .. Len(dimension) /\ Size \in Nat
      /\ IsCall(Top, l, dimension, Size) /\ Size = Top.base + Top.pos
  BY <1>2, Innermost
<1>4. /\ dimension \in Shapes /\ srcArray \in Seq(Nat)
      /\ wanted \in [0 .. (w[0] - 1) -> Nat \cup {NoElement}]
      /\ IsLayout(srcArray, wanted, dimension) /\ AreCalls(calls, dimension, Size)
      /\ place = 0 /\ data = <<>>
  BY <1>2 DEF IInv
<1>5. /\ Top.level = l /\ Top.pos < w[l] /\ Top.base + w[l] <= w[0]
      /\ w[l] \in Nat /\ w[0] \in Nat
  <2>1. l \in 0 .. Len(dimension) /\ 0 \in 0 .. Len(dimension)
    BY <1>3
  <2> QED
    BY <1>2, <1>3, <1>4, <2>1, Sizes DEF IsCall, Unit
<1>6. Size' = Size + 1 /\ srcArray' \in Seq(Nat)
  BY <1>1, <1>4 DEF Size
<1>7. /\ c \in Calls /\ c.pos = Top.pos + 1 /\ c.base = Top.base
      /\ c.singleCount = Top.singleCount + 1 /\ c.target = Top.target /\ c.dim = Top.dim
      /\ c.level = Top.level /\ c.current = Top.current
  <2>1. Top.pos + 1 \in Nat /\ Top.singleCount + 1 \in Nat
    BY <1>3 DEF Calls
  <2>2. Top \in Calls
    BY <1>3
  <2> DEFINE more == Top.singleCount + 1
             next == Top.pos + 1
  <2>3. more \in Nat /\ next \in Nat
    BY <2>1
  <2> HIDE DEF more, next
  <2>4. LET d == Taking(Top, more, next)
        IN  /\ d \in Calls /\ d.pos = next /\ d.base = Top.base
            /\ d.singleCount = more /\ d.target = Top.target /\ d.dim = Top.dim
            /\ d.level = Top.level /\ d.current = Top.current
    BY <2>2, <2>3, Taken
  <2> QED
    BY <2>4 DEF more, next
<1>8. Top.pos \in Nat /\ Top.base \in Nat /\ Top.singleCount \in Nat
  BY <1>3 DEF Calls
<1> HIDE DEF c
<1>9. IsCall(c, l, dimension, Size + 1)
  <2>1. ASSUME l < Len(dimension) - 1
        PROVE  \E rows \in Nat : c.pos = c.singleCount + rows * w[l + 1]
    <3>1. PICK rows \in Nat : Top.pos = Top.singleCount + rows * w[l + 1]
      BY <1>3, <2>1 DEF IsCall
    <3>2. l + 1 \in 0 .. Len(dimension)
      BY <1>3, <2>1
    <3>3. rows * w[l + 1] \in Nat
      BY <1>4, <3>1, <3>2, Sizes, Product
    <3>4. c.pos = c.singleCount + rows * w[l + 1]
      BY <1>7, <1>8, <3>1, <3>3
    <3> QED
      BY <3>1, <3>4
  <2> QED
    BY <1>3, <1>5, <1>7, <1>8, <2>1 DEF IsCall
<1>10. AreCalls(calls', dimension', Size')
  <2>1. /\ calls \in Seq(Calls) /\ Len(calls) \in Nat \ {0} /\ Len(calls) <= Len(dimension)
        /\ \A k \in 1 .. Len(calls) : calls[k] \in Calls
    BY <1>3, <1>4, ElementOfSeq DEF AreCalls
  <2>2. /\ calls' \in Seq(Calls) /\ Len(calls') = Len(calls) /\ calls'[Len(calls)] = c
        /\ \A k \in 1 .. Len(calls) - 1 : calls'[k] = calls[k]
    BY <1>2, <1>7, <2>1, SetTopIs
  <2>3. ASSUME NEW k \in 1 .. Len(calls) PROVE IsCall(calls'[k], k - 1, dimension, Size + 1)
    <3>1. CASE k = Len(calls)
      BY <1>9, <2>2, <3>1
    <3>2. CASE k # Len(calls)
      <4>1. k \in 1 .. Len(calls) - 1
        BY <2>1, <2>3, <3>2
      <4>2. IsCall(calls[k], k - 1, dimension, Size) /\ calls[k] \in Calls
        BY <1>4, <2>1, <2>3 DEF AreCalls
      <4>3. Size <= Size + 1 /\ Size + 1 \in Nat
        BY <1>3
      <4> QED
        BY <1>3, <2>2, <4>1, <4>2, <4>3, IsCallGrows
    <3> QED
      BY <3>1, <3>2
  <2>4. /\ calls'[1].base = calls[1].base
        /\ \A k \in 1 .. Len(calls) : calls'[k].base = calls[k].base
    BY <1>3, <1>7, <2>1, <2>2
  <2>5. ASSUME NEW k \in 1 .. Len(calls) - 1
        PROVE  calls'[k + 1].base + w[k] = calls'[k].base + calls'[k].pos
    <3>1. k + 1 \in 1 .. Len(calls) /\ k \in 1 .. Len(calls)
      BY <2>1, <2>5
    <3> QED
      BY <1>4, <2>2, <2>4, <2>5, <3>1 DEF AreCalls
  <2>6. Size + 1 = calls'[Len(calls)].base + calls'[Len(calls)].pos
    BY <1>3, <1>7, <1>8, <2>2
  <2> QED
    BY <1>2, <1>3, <1>4, <1>6, <2>2, <2>3, <2>4, <2>5, <2>6 DEF AreCalls
<1>11. Size \in 0 .. (w[0] - 1)
  BY <1>3, <1>5, <1>8
<1>12. /\ wanted' = [wanted EXCEPT ![Size] = e]
       /\ wanted' \in [0 .. (w[0] - 1) -> Nat \cup {NoElement}]
  BY <1>1, <1>3, <1>4, <1>11
<1>13. IsLayout(srcArray', wanted', dimension')
  <2> SUFFICES ASSUME NEW o \in 0 .. (w[0] - 1)
               PROVE  /\ o < Size + 1 => srcArray'[o + 1] =
                            (IF wanted'[o] = NoElement THEN 0 ELSE wanted'[o])
                      /\ o >= Size + 1 => wanted'[o] = NoElement
    BY <1>2, <1>6 DEF IsLayout, Size
  <2>1. CASE o = Size
    <3>1. wanted'[o] = e /\ srcArray'[o + 1] = e /\ e # NoElement
      BY <1>1, <1>4, <1>11, <1>12, <2>1, ArraysAssumption DEF Size
    <3> QED
      BY <1>3, <2>1, <3>1
  <2>2. CASE o # Size
    <3>1. wanted'[o] = wanted[o]
      BY <1>4, <1>12, <2>2
    <3>2. o < Size => srcArray'[o + 1] = srcArray[o + 1]
      BY <1>1, <1>4 DEF Size
    <3> QED
      BY <1>3, <1>4, <2>2, <3>1, <3>2 DEF IsLayout, Size
  <2> QED
    BY <2>1, <2>2
<1> QED
  BY <1>2, <1>4, <1>6, <1>10, <1>12, <1>13 DEF IInv

LEMMA OneMore ==
    ASSUME NEW T, NEW s \in Seq(T), NEW x \in T
    PROVE  /\ s \o <<x>> \in Seq(T) /\ Len(s \o <<x>>) = Len(s) + 1
           /\ (s \o <<x>>)[Len(s) + 1] = x
           /\ \A k \in 1 .. Len(s) : (s \o <<x>>)[k] = s[k]
  OBVIOUS

\* A nested list that the assertion lets pass starts a row, and the place C gives it is
\* the next layer's.
LEMMA NestedPlace ==
    ASSUME IInv, phase = "flatten", Aligned # {}, Top.pos < Unit(Top.level), RowFilled
    PROVE  /\ Len(calls) < Len(dimension)
           /\ InnerTarget = Words(dimension)[Len(calls)]
           /\ Top.pos + Words(dimension)[Len(calls)] <= Words(dimension)[Len(calls) - 1]
           /\ \E rows \in Nat : Top.pos + Words(dimension)[Len(calls)] =
                                   rows * Words(dimension)[Len(calls)]
           /\ (CHOOSE l \in Aligned : \A k \in Aligned : l <= k) = Len(calls)
<1> DEFINE m == Len(calls)
           n == Len(dimension)
           w == Words(dimension)[m]
           d == dimension[m]
<1>1. /\ Top \in Calls /\ m \in 1 .. n /\ n \in Nat /\ dimension \in Shapes
      /\ IsCall(Top, m - 1, dimension, Size)
  BY Innermost, Sizes DEF IInv
<1>2. /\ Top.level = m - 1 /\ Top.dim = m - 1 /\ Top.target = Words(dimension)[m - 1]
      /\ Top.pos \in Nat /\ Top.singleCount \in Nat
  BY <1>1 DEF IsCall, Calls
<1>3. m < n
  <2>1. PICK l \in Aligned : TRUE
    OBVIOUS
  <2>2. l \in (m - 1 + 1) .. (n - 1)
    BY <1>2, <2>1 DEF Aligned
  <2> QED
    BY <1>1, <2>2
<1>4. m - 1 \in 0 .. n - 1 /\ (m - 1) + 1 = m /\ m \in 0 .. n
  BY <1>1
<1>5. w \in Nat \ {0} /\ d \in Nat \ {0} /\ Words(dimension)[m - 1] = w * d
  BY <1>1, <1>4, Sizes
<1>6. InnerTarget = w
  <2>1. w * d = d * w \/ d * w = w * d
    BY <1>5, Product
  <2>2. (w * d) \div d = w
    BY <1>5, Divides
  <2>3. InnerTarget = Top.target \div dimension[Top.dim + 1] /\ Top.dim + 1 = m
    BY <1>2, <1>4 DEF InnerTarget
  <2> QED
    BY <1>2, <1>5, <2>2, <2>3
<1>7. Top.singleCount \in {0, w}
  BY <1>6 DEF RowFilled
<1>8. PICK rows \in Nat : Top.pos = Top.singleCount + rows * w
  <2>1. m - 1 < n - 1
    BY <1>1, <1>3
  <2> QED
    BY <1>1, <1>4, <2>1 DEF IsCall
<1>9. Top.pos < w * d
  BY <1>2, <1>5 DEF Unit
<1> HIDE DEF w, d
<1>10. /\ Top.pos + w <= w * d /\ Top.pos % w = 0
       /\ \E more \in Nat : Top.pos + w = more * w
  <2> DEFINE pos == Top.pos
             single == Top.singleCount
  <2>1. /\ w \in Nat \ {0} /\ d \in Nat /\ pos \in Nat /\ single \in {0, w} /\ rows \in Nat
        /\ pos = single + rows * w /\ pos < w * d
    BY <1>2, <1>5, <1>7, <1>8, <1>9
  <2> HIDE DEF pos, single
  <2>2. pos + w <= w * d /\ pos % w = 0 /\ \E more \in Nat : pos + w = more * w
    BY <2>1, NextRow
  <2> QED
    BY <2>2 DEF pos
<1>11. m \in Aligned /\ \A l \in Aligned : m <= l
  <2>1. Aligned = {l \in (m - 1 + 1) .. (n - 1) : Top.pos % Unit(l) = 0}
    BY <1>2 DEF Aligned
  <2>2. m \in (m - 1 + 1) .. (n - 1) /\ Unit(m) = w
    BY <1>1, <1>3 DEF Unit, w
  <2> QED
    BY <1>1, <1>10, <2>1, <2>2
<1>12. ASSUME NEW l \in Aligned, \A k \in Aligned : l <= k PROVE l = m
  <2>1. l <= m /\ m <= l
    BY <1>11, <1>12
  <2>2. l \in Int /\ m \in Int
    BY <1>1, <1>12 DEF Aligned
  <2> QED
    BY <2>1, <2>2
<1>13. (CHOOSE l \in Aligned : \A k \in Aligned : l <= k) = m
  BY <1>11, <1>12
<1>14. Top.pos + w <= Words(dimension)[m - 1]
  BY <1>5, <1>10
<1> QED
  BY <1>3, <1>6, <1>10, <1>13, <1>14 DEF w

LEMMA NestedKeeps ==
    ASSUME IInv, Nested
    PROVE  IInv'
<1>1. /\ phase = "flatten" /\ Aligned # {} /\ Top.pos < Unit(Top.level)
      /\ dimension' = dimension /\ srcArray' = srcArray /\ wanted' = wanted
      /\ place' = place /\ data' = data /\ Size' = Size
  BY DEF Nested, Size
<1>2. /\ dimension \in Shapes /\ srcArray \in Seq(Nat)
      /\ wanted \in [0 .. (Words(dimension)[0] - 1) -> Nat \cup {NoElement}]
      /\ IsLayout(srcArray, wanted, dimension) /\ AreCalls(calls, dimension, Size)
      /\ place = 0 /\ data = <<>>
  BY <1>1 DEF IInv
<1>3. CASE ~RowFilled
  <2>1. phase' = "abort" /\ calls' = calls
    BY <1>3 DEF Nested
  <2> QED
    BY <1>1, <1>2, <2>1 DEF IInv
<1>4. CASE RowFilled
  <2> DEFINE m == Len(calls)
             w == Words(dimension)
             outer == Taking(Top, 0, Top.pos + w[m])
             inner == Call(w[m], m, Top.base + Top.pos, m)
  <2>1. /\ m < Len(dimension) /\ InnerTarget = w[m] /\ Top.pos + w[m] <= w[m - 1]
        /\ \E rows \in Nat : Top.pos + w[m] = rows * w[m]
        /\ (CHOOSE l \in Aligned : \A k \in Aligned : l <= k) = m
    BY <1>1, <1>4, NestedPlace
  <2>2. /\ Top = calls[m] /\ Top \in Calls /\ m \in 1 .. Len(dimension)
        /\ Size \in Nat /\ IsCall(Top, m - 1, dimension, Size)
        /\ Size = Top.base + Top.pos
    BY <1>1, Innermost
  <2>3. Top.level = m - 1 /\ Top.dim + 1 = m /\ Top.base + w[m - 1] <= w[0]
    BY <2>2 DEF IsCall
  <2>4. w[m] \in Nat \ {0} /\ w[m - 1] \in Nat \ {0} /\ w[0] \in Nat
    <3>1. m \in 0 .. Len(dimension) /\ m - 1 \in 0 .. Len(dimension)
          /\ 0 \in 0 .. Len(dimension)
      BY <2>2
    <3> QED
      BY <1>2, <3>1, Sizes
  <2>5. phase' = phase /\ calls' = SetTop(outer) \o <<inner>>
    <3>1. Unit(m) = w[m]
      BY DEF Unit
    <3> QED
      BY <1>4, <2>1, <2>3, <3>1 DEF Nested, Taking
  <2>6. Top.pos \in Nat /\ Top.base \in Nat /\ Top.base <= Size
    BY <2>2 DEF Calls, IsCall
  <2>7. /\ outer \in Calls /\ outer.pos = Top.pos + w[m] /\ outer.singleCount = 0
        /\ outer.base = Top.base /\ outer.target = Top.target /\ outer.dim = Top.dim
        /\ outer.level = Top.level /\ outer.current = Top.current
    <3> DEFINE next == Top.pos + w[m]
    <3>1. next \in Nat /\ 0 \in Nat
      BY <2>4, <2>6
    <3>2. Top \in Calls
      BY <2>2
    <3> HIDE DEF next
    <3>3. LET c == Taking(Top, 0, next)
          IN  /\ c \in Calls /\ c.pos = next /\ c.singleCount = 0
              /\ c.base = Top.base /\ c.target = Top.target /\ c.dim = Top.dim
              /\ c.level = Top.level /\ c.current = Top.current
      BY <3>1, <3>2, Taken
    <3> QED
      BY <3>3 DEF next
  <2>8. /\ inner \in Calls /\ inner.pos = 0 /\ inner.singleCount = 0 /\ inner.base = Size
        /\ inner.current = Size /\ inner.target = w[m] /\ inner.dim = m /\ inner.level = m
    BY <2>2, <2>4 DEF Call, Calls
  <2> HIDE DEF outer, inner
  <2>9. IsCall(outer, m - 1, dimension, Size)
    <3>1. ASSUME m - 1 < Len(dimension) - 1
          PROVE  \E rows \in Nat : outer.pos = outer.singleCount + rows * w[(m - 1) + 1]
      <4>1. PICK rows \in Nat : Top.pos + w[m] = rows * w[m]
        BY <2>1
      <4>2. (m - 1) + 1 = m /\ rows * w[m] \in Nat
        BY <2>2, <2>4, <4>1, Product
      <4>3. outer.pos = outer.singleCount + rows * w[(m - 1) + 1]
        BY <2>7, <4>1, <4>2
      <4> QED
        BY <4>1, <4>3
    <3> QED
      BY <2>1, <2>2, <2>7, <3>1 DEF IsCall
  <2>10. IsCall(inner, m, dimension, Size)
    <3>1. ASSUME m < Len(dimension) - 1
          PROVE  inner.pos = inner.singleCount + 0 * w[m + 1]
      <4>1. m + 1 \in 0 .. Len(dimension)
        BY <2>2, <3>1
      <4>2. w[m + 1] \in Nat
        BY <1>2, <4>1, Sizes
      <4> QED
        BY <2>8, <4>2
    <3>2. Size + w[m] <= w[0]
      <4>1. \A b, p, x, y, z \in Nat : p + x <= y /\ b + y <= z => (b + p) + x <= z
        OBVIOUS
      <4>2. (Top.base + Top.pos) + w[m] <= w[0]
        BY <2>1, <2>3, <2>4, <2>6, <4>1
      <4> QED
        BY <2>2, <4>2
    <3>3. m < Len(dimension) - 1 =>
             \E rows \in Nat : inner.pos = inner.singleCount + rows * w[m + 1]
      BY <3>1
    <3> QED
      BY <2>2, <2>4, <2>8, <3>2, <3>3 DEF IsCall
  <2>11. /\ calls \in Seq(Calls) /\ m \in Nat \ {0}
         /\ \A k \in 1 .. m : calls[k] \in Calls
    BY <1>2, <2>2, ElementOfSeq DEF AreCalls
  <2>12. /\ calls' \in Seq(Calls) /\ Len(calls') = m + 1 /\ calls'[m + 1] = inner
         /\ calls'[m] = outer /\ \A k \in 1 .. m - 1 : calls'[k] = calls[k]
    <3> DEFINE s == SetTop(outer)
    <3>1. /\ s \in Seq(Calls) /\ Len(s) = m /\ s[m] = outer
          /\ \A k \in 1 .. m - 1 : s[k] = calls[k]
      BY <2>7, <2>11, SetTopIs
    <3> HIDE DEF s
    <3>2. /\ s \o <<inner>> \in Seq(Calls) /\ Len(s \o <<inner>>) = m + 1
          /\ (s \o <<inner>>)[m + 1] = inner
          /\ \A k \in 1 .. m : (s \o <<inner>>)[k] = s[k]
      BY <2>8, <3>1, OneMore
    <3>3. calls' = s \o <<inner>>
      BY <2>5 DEF s
    <3>4. m \in 1 .. m /\ \A k \in 1 .. m - 1 : k \in 1 .. m
      BY <2>11
    <3> QED
      BY <3>1, <3>2, <3>3, <3>4
  <2>13. ASSUME NEW k \in 1 .. m + 1 PROVE IsCall(calls'[k], k - 1, dimension, Size)
    <3>1. CASE k = m + 1
      <4>1. k - 1 = m
        BY <2>11, <3>1
      <4> QED
        BY <2>10, <2>12, <3>1, <4>1
    <3>2. CASE k = m
      BY <2>9, <2>12, <3>2
    <3>3. CASE k \in 1 .. m - 1
      <4>1. k \in 1 .. m
        BY <2>11, <3>3
      <4> QED
        BY <1>2, <2>12, <3>3, <4>1 DEF AreCalls
    <3> QED
      BY <2>11, <2>13, <3>1, <3>2, <3>3
  <2>14. \A k \in 1 .. m : calls'[k].base = calls[k].base
    <3> SUFFICES ASSUME NEW k \in 1 .. m PROVE calls'[k].base = calls[k].base
      OBVIOUS
    <3>1. k = m \/ k \in 1 .. m - 1
      BY <2>11
    <3> QED
      BY <2>2, <2>7, <2>12, <3>1
  <2>15. ASSUME NEW k \in 1 .. m
         PROVE  calls'[k + 1].base + w[k] = calls'[k].base + calls'[k].pos
    <3>1. CASE k = m
      <4>1. Size + w[m] = Top.base + (Top.pos + w[m])
        BY <2>2, <2>4, <2>6
      <4> QED
        BY <2>7, <2>8, <2>12, <3>1, <4>1
    <3>2. CASE k # m
      <4>1. k \in 1 .. m - 1 /\ k + 1 \in 1 .. m
        BY <2>11, <2>15, <3>2
      <4>2. calls[k + 1].base + w[k] = calls[k].base + calls[k].pos
        BY <1>2, <4>1 DEF AreCalls
      <4>3. calls'[k + 1].base = calls[k + 1].base /\ calls'[k] = calls[k]
        BY <2>12, <2>14, <4>1
      <4> QED
        BY <4>2, <4>3
    <3> QED
      BY <3>1, <3>2
  <2>16. AreCalls(calls', dimension, Size)
    <3>1. Size = calls'[m + 1].base + calls'[m + 1].pos
      BY <2>2, <2>8, <2>12
    <3>2. calls'[1].base = 0 /\ m + 1 \in 1 .. Len(dimension) /\ (m + 1) - 1 = m
      BY <1>2, <2>1, <2>2, <2>11, <2>14 DEF AreCalls
    <3> HIDE DEF m
    <3>3. \A k \in 1 .. m + 1 : IsCall(calls'[k], k - 1, dimension, Size)
      BY <2>13
    <3>4. \A k \in 1 .. m :
             calls'[k + 1].base + w[k] = calls'[k].base + calls'[k].pos
      BY <2>15
    <3> QED
      BY <2>12, <3>1, <3>2, <3>3, <3>4 DEF AreCalls
  <2> QED
    BY <1>1, <1>2, <2>5, <2>16 DEF IInv
<1> QED
  BY <1>3, <1>4

LEMMA ConcatIs ==
    ASSUME NEW S, NEW p \in Seq(S), NEW T, NEW q \in Seq(T)
    PROVE  /\ Len(p) \in Nat /\ Len(q) \in Nat
           /\ Len(p \o q) = Len(p) + Len(q) /\ DOMAIN (p \o q) = 1 .. Len(p) + Len(q)
           /\ \A n \in 1 .. Len(p) : (p \o q)[n] = p[n]
           /\ \A k \in 1 .. Len(q) : (p \o q)[Len(p) + k] = q[k]
<1>1. Len(p) \in Nat /\ Len(q) \in Nat /\ Len(p \o q) = Len(p) + Len(q)
      /\ DOMAIN (p \o q) = 1 .. Len(p) + Len(q)
  OBVIOUS
<1>2. ASSUME NEW n \in 1 .. Len(p) PROVE (p \o q)[n] = p[n]
  OBVIOUS
<1>3. ASSUME NEW k \in 1 .. Len(q) PROVE (p \o q)[Len(p) + k] = q[k]
  OBVIOUS
<1> QED
  BY <1>1, <1>2, <1>3

\* The end of a list fills its part of the array.
LEMMA RestFills ==
    ASSUME IInv, CloseList
    PROVE  /\ srcArray' \in Seq(Nat) /\ Size' \in Nat /\ Size <= Size'
           /\ Size' = Top.base + Words(dimension)[Len(calls) - 1]
           /\ \A o \in 0 .. (Size - 1) : srcArray'[o + 1] = srcArray[o + 1]
           /\ \A o \in Size .. (Size' - 1) : srcArray'[o + 1] = 0
<1> DEFINE room == Words(dimension)[Len(calls) - 1] - Top.pos
           rest == [k \in 1 .. room |-> 0]
<1>1. /\ phase = "flatten" /\ srcArray \in Seq(Nat) /\ Top \in Calls /\ Size \in Nat
      /\ IsCall(Top, Len(calls) - 1, dimension, Size) /\ Size = Top.base + Top.pos
      /\ Len(calls) \in 1 .. Len(dimension) /\ dimension \in Shapes
  BY Innermost DEF IInv, CloseList
<1>2. Words(dimension)[Len(calls) - 1] \in Nat
  <2>1. Len(calls) - 1 \in 0 .. Len(dimension)
    BY <1>1
  <2> QED
    BY <1>1, <2>1, Sizes
<1>3. room \in Nat
  BY <1>1, <1>2 DEF IsCall, Calls
<1>4. Room = room
  BY <1>1, <1>2 DEF Room, IsCall, Calls
<1>5. Size + room = Top.base + Words(dimension)[Len(calls) - 1]
  BY <1>1, <1>2 DEF Calls
<1>6. srcArray' = srcArray \o rest
  BY <1>4 DEF CloseList, Rest
<1> HIDE DEF room
<1>7. /\ rest \in Seq(Nat) /\ Len(rest) = room /\ \A k \in 1 .. room : rest[k] = 0
  BY <1>3
<1> HIDE DEF rest
<1>8. /\ srcArray' \in Seq(Nat) /\ Len(srcArray') = Len(srcArray) + room
      /\ \A k \in 1 .. Len(srcArray) : srcArray'[k] = srcArray[k]
      /\ \A k \in 1 .. room : srcArray'[Len(srcArray) + k] = rest[k]
  <2> DEFINE t == srcArray \o rest
  <2>1. t \in Seq(Nat)
    BY <1>1, <1>7
  <2>2. /\ Len(t) = Len(srcArray) + Len(rest)
        /\ \A k \in 1 .. Len(srcArray) : t[k] = srcArray[k]
        /\ \A k \in 1 .. Len(rest) : t[Len(srcArray) + k] = rest[k]
    <3>1. srcArray \in Seq(Nat) /\ rest \in Seq(Nat)
      BY <1>1, <1>7
    <3> QED
      BY <3>1, ConcatIs
  <2> HIDE DEF t
  <2>3. srcArray' = t
    BY <1>6 DEF t
  <2> QED
    BY <1>7, <2>1, <2>2, <2>3
<1>9. Size' = Size + room
  BY <1>8 DEF Size
<1>10. \A o \in 0 .. (Size - 1) : srcArray'[o + 1] = srcArray[o + 1]
  BY <1>1, <1>8 DEF Size
<1>11. ASSUME NEW o \in Size .. (Size' - 1) PROVE srcArray'[o + 1] = 0
  <2> DEFINE k == o + 1 - Size
  <2>1. k \in 1 .. room /\ Size + k = o + 1
    BY <1>1, <1>3, <1>9, <1>11
  <2> HIDE DEF k
  <2> QED
    BY <1>7, <1>8, <2>1 DEF Size
<1> QED
  BY <1>1, <1>3, <1>5, <1>8, <1>9, <1>10, <1>11

LEMMA CloseKeeps ==
    ASSUME IInv, CloseList
    PROVE  IInv'
<1> DEFINE m == Len(calls)
           w == Words(dimension)
<1>1. /\ phase = "flatten" /\ calls' = Front(calls) /\ dimension' = dimension
      /\ wanted' = wanted /\ place' = place /\ data' = data
      /\ phase' = IF m = 1 THEN "emit" ELSE phase
  BY DEF CloseList
<1>2. /\ dimension \in Shapes /\ srcArray \in Seq(Nat)
      /\ wanted \in [0 .. (w[0] - 1) -> Nat \cup {NoElement}]
      /\ IsLayout(srcArray, wanted, dimension) /\ AreCalls(calls, dimension, Size)
      /\ place = 0 /\ data = <<>>
  BY <1>1 DEF IInv
<1>3. /\ Top = calls[m] /\ m \in 1 .. Len(dimension) /\ Size \in Nat
      /\ IsCall(Top, m - 1, dimension, Size)
  BY <1>1, Innermost
<1>4. /\ srcArray' \in Seq(Nat) /\ Size' \in Nat /\ Size <= Size'
      /\ Size' = Top.base + w[m - 1]
      /\ \A o \in 0 .. (Size - 1) : srcArray'[o + 1] = srcArray[o + 1]
      /\ \A o \in Size .. (Size' - 1) : srcArray'[o + 1] = 0
  BY RestFills
<1>5. IsLayout(srcArray', wanted', dimension')
  <2> SUFFICES ASSUME NEW o \in 0 .. (w[0] - 1)
               PROVE  /\ o < Size' => srcArray'[o + 1] =
                            (IF wanted[o] = NoElement THEN 0 ELSE wanted[o])
                      /\ o >= Size' => wanted[o] = NoElement
    BY <1>1 DEF IsLayout, Size
  <2>1. /\ o < Size => srcArray[o + 1] = (IF wanted[o] = NoElement THEN 0 ELSE wanted[o])
        /\ o >= Size => wanted[o] = NoElement
    BY <1>2 DEF IsLayout, Size
  <2>2. CASE o < Size
    <3>1. o \in 0 .. (Size - 1)
      BY <1>3, <2>2
    <3> QED
      BY <1>3, <1>4, <2>1, <2>2, <3>1
  <2>3. CASE o >= Size
    <3>1. o < Size' => o \in Size .. (Size' - 1)
      BY <1>3, <1>4, <2>3
    <3> QED
      BY <1>4, <2>1, <2>3, <3>1
  <2> QED
    BY <1>3, <2>2, <2>3
<1>6. calls \in Seq(Calls) /\ m \in Nat \ {0} /\ calls # <<>>
  BY <1>2, <1>3 DEF AreCalls
<1>7. /\ calls' \in Seq(Calls) /\ Len(calls') = m - 1
      /\ \A k \in 1 .. m - 1 : calls'[k] = calls[k]
  BY <1>1, <1>6, FrontIs
<1>8. CASE m = 1
  <2>1. phase' = "emit" /\ calls' = <<>>
    BY <1>1, <1>7, <1>8
  <2>2. Size' = w[0]
    <3>1. Top.base = 0 /\ w[m - 1] = w[0]
      <4>1. m - 1 = 0
        BY <1>8
      <4> HIDE DEF m
      <4> QED
        BY <1>2, <1>3, <1>8, <4>1 DEF AreCalls
    <3>2. w[0] \in Nat
      <4>1. 0 \in 0 .. Len(dimension)
        BY <1>3
      <4> QED
        BY <1>2, <4>1, Sizes
    <3> QED
      BY <1>4, <3>1, <3>2
  <2>3. IsData(data', srcArray', place')
    <3>1. 0 <= Len(srcArray') /\ Len(srcArray') \in Nat /\ SubSeq(srcArray', 1, 0) = <<>>
      BY <1>4
    <3>2. Assembled(<<>>) = <<>>
      BY AssembledNone
    <3>3. data' = <<>> /\ place' = 0 /\ <<>> \in Seq(Directives)
      BY <1>1, <1>2
    <3>4. place' \in 0 .. Len(srcArray') + 1
      BY <3>1, <3>3
    <3>5. (IF place' <= Len(srcArray') THEN place' ELSE Len(srcArray')) = 0
      BY <3>1, <3>3
    <3> QED
      BY <3>1, <3>2, <3>3, <3>4, <3>5 DEF IsData
  <2> QED
    BY <1>1, <1>2, <1>4, <1>5, <2>1, <2>2, <2>3 DEF IInv
<1>9. CASE m # 1
  <2>1. /\ m - 1 \in 1 .. Len(dimension) /\ phase' = "flatten"
        /\ m - 1 \in 1 .. m - 1 /\ (m - 1) + 1 = m
        /\ \A k \in 1 .. (m - 1) - 1 : k \in 1 .. m - 1 /\ k + 1 \in 1 .. m - 1
        /\ \A k \in 1 .. m - 1 : k \in 1 .. m
    BY <1>1, <1>3, <1>9
  <2>2. ASSUME NEW k \in 1 .. m - 1 PROVE IsCall(calls'[k], k - 1, dimension, Size')
    <3>1. IsCall(calls[k], k - 1, dimension, Size) /\ calls[k] \in Calls
      BY <1>2, <1>6, <2>1, <2>2, ElementOfSeq DEF AreCalls
    <3> QED
      BY <1>3, <1>4, <1>7, <2>2, <3>1, IsCallGrows
  <2>3. calls'[1].base = 0
    <3>1. 1 \in 1 .. m - 1
      <4> HIDE DEF m
      <4> QED
        BY <1>6, <1>9
    <3> QED
      BY <1>2, <1>7, <3>1 DEF AreCalls
  <2>4. ASSUME NEW k \in 1 .. (m - 1) - 1
        PROVE  calls'[k + 1].base + w[k] = calls'[k].base + calls'[k].pos
    <3>1. k \in 1 .. m - 1 /\ k + 1 \in 1 .. m - 1
      BY <2>1, <2>4
    <3> QED
      BY <1>2, <1>7, <3>1 DEF AreCalls
  <2>5. Size' = calls'[m - 1].base + calls'[m - 1].pos
    <3>1. calls[(m - 1) + 1].base + w[m - 1] = calls[m - 1].base + calls[m - 1].pos
      BY <1>2, <2>1 DEF AreCalls
    <3> QED
      BY <1>3, <1>4, <1>7, <2>1, <3>1
  <2> HIDE DEF m
  <2>6. AreCalls(calls', dimension, Size')
    BY <1>7, <2>1, <2>2, <2>3, <2>4, <2>5 DEF AreCalls
  <2> QED
    BY <1>1, <1>2, <1>4, <1>5, <2>1, <2>6 DEF IInv
<1> QED
  BY <1>8, <1>9

-----------------------------------------------------------------------------
(* The data section of a global *)

LEMMA ZerosGrow ==
    ASSUME NEW src \in Seq(Nat), NEW a \in 0 .. Len(src), NEW n \in Nat, a + n <= Len(src),
           \A k \in a + 1 .. a + n : src[k] = 0
    PROVE  SubSeq(src, 1, a) \o [k \in 1 .. n |-> 0] = SubSeq(src, 1, a + n)
<1> DEFINE t == SubSeq(src, a + 1, a + n)
           z == [k \in 1 .. n |-> 0]
<1>1. a \in Nat /\ Len(src) \in Nat /\ a + n \in Nat
  OBVIOUS
<1>2. \A i \in a + 1 .. a + n : src[i] \in Nat
  BY <1>1
<1>3. a + 1 \in Int /\ a + n \in Int /\ (a + n) - (a + 1) + 1 = n
      /\ (a + 1 <= a + n <=> n # 0)
  BY <1>1
<1>4. /\ t \in Seq(Nat) /\ Len(t) = (IF a + 1 <= a + n THEN (a + n) - (a + 1) + 1 ELSE 0)
      /\ \A k \in 1 .. (a + n) - (a + 1) + 1 : t[k] = src[(a + 1) + k - 1]
  <2> DEFINE lo == a + 1
             hi == a + n
  <2>1. lo \in Int /\ hi \in Int /\ \A i \in lo .. hi : src[i] \in Nat
    BY <1>2, <1>3
  <2> HIDE DEF lo, hi
  <2>2. /\ SubSeq(src, lo, hi) \in Seq(Nat)
        /\ Len(SubSeq(src, lo, hi)) = IF lo <= hi THEN hi - lo + 1 ELSE 0
        /\ \A k \in 1 .. hi - lo + 1 : SubSeq(src, lo, hi)[k] = src[lo + k - 1]
    BY <2>1, SubSeqProperties
  <2> QED
    BY <2>2 DEF lo, hi
<1> HIDE DEF t
<1>5. Len(t) = n
  BY <1>3, <1>4
<1>6. z \in Seq(Nat) /\ Len(z) = n /\ \A k \in 1 .. n : z[k] = 0
  OBVIOUS
<1> HIDE DEF z
<1>7. ASSUME NEW k \in 1 .. n PROVE t[k] = 0
  <2>1. (a + 1) + k - 1 = a + k /\ a + k \in a + 1 .. a + n
    BY <1>1, <1>7
  <2> QED
    BY <1>3, <1>4, <1>7, <2>1
<1>8. t = z
  BY <1>4, <1>5, <1>6, <1>7, SeqEqual
<1>9. SubSeq(src, 1, a) \o t = SubSeq(src, 1, a + n)
  <2> DEFINE hi == a + n
  <2>1. 1 \in 1 .. Len(src) + 1 /\ a \in 1 - 1 .. Len(src) /\ hi \in a .. Len(src)
    BY <1>1
  <2> HIDE DEF hi
  <2>2. SubSeq(src, 1, a) \o SubSeq(src, a + 1, hi) = SubSeq(src, 1, hi)
    BY <2>1, ConcatAdjacentSubSeq
  <2> QED
    BY <2>2 DEF hi, t
<1> QED
  BY <1>8, <1>9 DEF z

LEMMA WordGrows ==
    ASSUME NEW src \in Seq(Nat), NEW a \in 0 .. Len(src), a < Len(src)
    PROVE  SubSeq(src, 1, a) \o <<src[a + 1]>> = SubSeq(src, 1, a + 1)
<1> DEFINE b == a + 1
<1>1. 1 \in 1 .. Len(src) /\ b \in 1 .. Len(src) /\ b - 1 = a
  OBVIOUS
<1> HIDE DEF b
<1>2. SubSeq(src, 1, b) = SubSeq(src, 1, b - 1) \o <<src[b]>>
  BY <1>1, SubSeqRecursiveSecond
<1>3. SubSeq(src, 1, b) = SubSeq(src, 1, a) \o <<src[b]>>
  BY <1>1, <1>2
<1> QED
  BY <1>3 DEF b

\* A run of zeros ends before the next element that is none.
LEMMA RunIs ==
    ASSUME srcArray \in Seq(Nat), place \in 0 .. Size, place < Size
    PROVE  /\ Run(place) \in Nat /\ place + Run(place) <= Size
           /\ \A k \in place + 1 .. place + Run(place) : srcArray[k] = 0
           /\ (Run(place) = 0 => place + Run(place) < Size)
<1> DEFINE ends == {k \in (place + 1) .. Size : srcArray[k] # 0}
<1>1. Size \in Nat /\ place \in Nat
  BY DEF Size
<1>2. Run(place) = IF ends = {} THEN Size - place ELSE Min(ends) - 1 - place
  BY DEF Run
<1>3. CASE ends = {}
  BY <1>1, <1>2, <1>3
<1>4. CASE ends # {}
  <2>1. ends \subseteq Nat
    BY <1>1
  <2>2. \E m \in ends : \A n \in ends : m <= n
    BY <1>4, <2>1, Least
  <2> DEFINE m == Min(ends)
  <2>3. m \in ends /\ \A n \in ends : m <= n
    <3> HIDE DEF ends
    <3> QED
      BY <2>2 DEF Min
  <2>4. Run(place) = m - 1 - place
    BY <1>2, <1>4
  <2> HIDE DEF m
  <2>5. m \in Nat /\ m >= place + 1 /\ m <= Size
    BY <1>1, <2>3
  <2>6. ASSUME NEW k \in place + 1 .. m - 1 PROVE srcArray[k] = 0
    <3>1. k \in (place + 1) .. Size /\ k < m /\ k \in Nat
      BY <1>1, <2>5, <2>6
    <3>2. k \notin ends
      <4> HIDE DEF ends
      <4> QED
        BY <2>3, <2>5, <3>1
    <3> QED
      BY <3>1, <3>2
  <2> DEFINE n == Run(place)
  <2>7. n \in Nat /\ place + n = m - 1 /\ place + n < Size
    BY <1>1, <2>4, <2>5
  <2>8. \A k \in place + 1 .. place + n : srcArray[k] = 0
    BY <2>6, <2>7
  <2> HIDE DEF n
  <2>9. place + n <= Size
    BY <1>1, <2>7
  <2> QED
    BY <2>7, <2>8, <2>9 DEF n
<1> QED
  BY <1>3, <1>4

LEMMA PiecesAre ==
    /\ \A n \in Nat : Zeros(n) \in Directives /\ Piece(Zeros(n)) = [k \in 1 .. n |-> 0]
    /\ \A v \in Nat : Word(v) \in Directives /\ Piece(Word(v)) = <<v>>
  BY DEF Zeros, Word, Piece, Directives

LEMMA OneDirective ==
    ASSUME NEW ds \in Seq(Directives), NEW image, Assembled(ds) = image
    PROVE  /\ \A n \in Nat : /\ Append(ds, Zeros(n)) \in Seq(Directives)
                           /\ Assembled(Append(ds, Zeros(n))) = image \o [k \in 1 .. n |-> 0]
           /\ \A v \in Nat : /\ Append(ds, Word(v)) \in Seq(Directives)
                           /\ Assembled(Append(ds, Word(v))) = image \o <<v>>
<1>1. ASSUME NEW d \in Directives
      PROVE  /\ Append(ds, d) \in Seq(Directives)
             /\ Assembled(Append(ds, d)) = image \o Piece(d)
  <2>1. Append(ds, d) \in Seq(Directives)
    BY <1>1
  <2>2. Assembled(Append(ds, d)) = Assembled(ds) \o Piece(d)
    BY <1>1, AssembledNext, Zenon
  <2> QED
    BY <2>1, <2>2, Zenon
<1>2. ASSUME NEW n \in Nat
      PROVE  /\ Append(ds, Zeros(n)) \in Seq(Directives)
             /\ Assembled(Append(ds, Zeros(n))) = image \o [k \in 1 .. n |-> 0]
  <2>1. Zeros(n) \in Directives /\ Piece(Zeros(n)) = [k \in 1 .. n |-> 0]
    BY <1>2, PiecesAre
  <2> QED
    BY <1>1, <2>1, Zenon
<1>3. ASSUME NEW v \in Nat
      PROVE  /\ Append(ds, Word(v)) \in Seq(Directives)
             /\ Assembled(Append(ds, Word(v))) = image \o <<v>>
  <2>1. Word(v) \in Directives /\ Piece(Word(v)) = <<v>>
    BY <1>3, PiecesAre
  <2> QED
    BY <1>1, <2>1, Zenon
<1> QED
  BY <1>2, <1>3

LEMMA EmitKeeps ==
    ASSUME IInv, EmitGlobal
    PROVE  IInv'
<1> DEFINE n == Run(place)
           j == place + n
           v == srcArray[j + 1]
           images == SubSeq(srcArray, 1, place)
<1>1. /\ phase = "emit" /\ place < Size /\ data' = data \o AfterZeros(n, j)
      /\ place' = j + 1 /\ dimension' = dimension /\ srcArray' = srcArray
      /\ calls' = calls /\ wanted' = wanted /\ phase' = phase
  BY DEF EmitGlobal
<1>2. /\ dimension \in Shapes /\ srcArray \in Seq(Nat)
      /\ wanted \in [0 .. (Words(dimension)[0] - 1) -> Nat \cup {NoElement}]
      /\ IsLayout(srcArray, wanted, dimension) /\ calls = <<>>
      /\ Size = Words(dimension)[0] /\ IsData(data, srcArray, place)
  BY <1>1 DEF IInv
<1>3. Size \in Nat /\ Size = Len(srcArray) /\ place \in 0 .. Size
  <2>1. Len(srcArray) \in Nat /\ place \in 0 .. Len(srcArray) + 1
    BY <1>2 DEF IsData
  <2> QED
    BY <1>1, <2>1 DEF Size
<1>4. data \in Seq(Directives) /\ Assembled(data) = images
  BY <1>1, <1>2, <1>3 DEF IsData
<1>5. /\ n \in Nat /\ j \in Nat /\ j <= Size /\ (n = 0 => j < Size)
      /\ \A k \in place + 1 .. j : srcArray[k] = 0
  BY <1>1, <1>2, <1>3, RunIs
<1>6. j < Size => v \in Nat
  BY <1>2, <1>3, <1>5
<1>7. images \o [k \in 1 .. n |-> 0] = SubSeq(srcArray, 1, j)
  <2> HIDE DEF n
  <2>1. place \in 0 .. Len(srcArray) /\ place + n <= Len(srcArray)
    BY <1>3, <1>5
  <2> QED
    BY <1>2, <1>5, <2>1, ZerosGrow
<1>8. j < Size => SubSeq(srcArray, 1, j) \o <<v>> = SubSeq(srcArray, 1, j + 1)
  <2> HIDE DEF j
  <2>1. j < Size => j \in 0 .. Len(srcArray) /\ j < Len(srcArray)
    BY <1>3, <1>5
  <2> QED
    BY <1>2, <2>1, WordGrows
<1> HIDE DEF n, j, v, images
<1>9. CASE n = 0
  <2>1. j < Size /\ j = place /\ data' = data \o <<Word(v)>>
    BY <1>1, <1>3, <1>5, <1>9 DEF AfterZeros, AfterWord, j, v
  <2>2. data' = Append(data, Word(v)) /\ Word(v) \in Directives
    BY <1>4, <1>6, <2>1, PiecesAre
  <2>3. Assembled(data') = images \o <<v>> /\ data' \in Seq(Directives)
    BY <1>4, <1>6, <2>1, <2>2, OneDirective
  <2>4. images = SubSeq(srcArray, 1, j)
    BY <2>1 DEF images
  <2>5. j + 1 <= Len(srcArray) /\ j + 1 \in 0 .. Len(srcArray) + 1
    BY <1>3, <1>5, <2>1
  <2>6. IsData(data', srcArray', place')
    BY <1>1, <1>8, <2>1, <2>3, <2>4, <2>5 DEF IsData
  <2> QED
    BY <1>1, <1>2, <2>6 DEF IInv, Size
<1>10. CASE n # 0 /\ j < Size
  <2> DEFINE once == Append(data, Zeros(n))
  <2>1. Zeros(n) \in Directives /\ Word(v) \in Directives
    BY <1>5, <1>6, <1>10, PiecesAre
  <2>2. once \in Seq(Directives) /\ Assembled(once) = SubSeq(srcArray, 1, j)
    <3>1. once \in Seq(Directives) /\ Assembled(once) = images \o [k \in 1 .. n |-> 0]
      BY <1>4, <1>5, OneDirective
    <3> QED
      BY <1>7, <3>1
  <2>3. data' = Append(once, Word(v))
    <3>1. data' = data \o (<<Zeros(n)>> \o <<Word(v)>>)
      BY <1>1, <1>10 DEF AfterZeros, AfterWord, v
    <3> DEFINE z == Zeros(n)
               u == Word(v)
    <3>2. z \in Directives /\ u \in Directives
      BY <2>1
    <3> HIDE DEF z, u
    <3>3. data \o (<<z>> \o <<u>>) = Append(Append(data, z), u)
      BY <1>4, <3>2
    <3> QED
      BY <3>1, <3>3 DEF z, u
  <2> HIDE DEF once
  <2>4. Assembled(data') = SubSeq(srcArray, 1, j) \o <<v>> /\ data' \in Seq(Directives)
    BY <1>6, <1>10, <2>2, <2>3, OneDirective
  <2>5. j + 1 <= Len(srcArray) /\ j + 1 \in 0 .. Len(srcArray) + 1
    BY <1>3, <1>5, <1>10
  <2>6. IsData(data', srcArray', place')
    BY <1>1, <1>8, <1>10, <2>4, <2>5 DEF IsData
  <2> QED
    BY <1>1, <1>2, <2>6 DEF IInv, Size
<1>11. CASE n # 0 /\ ~(j < Size)
  <2>1. j = Len(srcArray) /\ ~(j + 1 <= Len(srcArray)) /\ j + 1 \in 0 .. Len(srcArray) + 1
    BY <1>3, <1>5, <1>11
  <2>2. Zeros(n) \in Directives
    BY <1>5, PiecesAre
  <2>3. data' = Append(data, Zeros(n))
    <3>1. data' = data \o <<Zeros(n)>>
      BY <1>1, <1>11 DEF AfterZeros
    <3> QED
      BY <1>4, <2>2, <3>1
  <2>4. Assembled(data') = SubSeq(srcArray, 1, j) /\ data' \in Seq(Directives)
    <3>1. Assembled(data') = images \o [k \in 1 .. n |-> 0] /\ data' \in Seq(Directives)
      BY <1>4, <1>5, <2>3, OneDirective
    <3> QED
      BY <1>7, <3>1
  <2>5. IsData(data', srcArray', place')
    BY <1>1, <2>1, <2>4 DEF IsData
  <2> QED
    BY <1>1, <1>2, <2>5 DEF IInv, Size
<1> QED
  BY <1>9, <1>10, <1>11

LEMMA EndKeeps ==
    ASSUME IInv, EndGlobal
    PROVE  IInv'
<1>1. /\ phase = "emit" /\ place >= Size /\ phase' = "done" /\ dimension' = dimension
      /\ srcArray' = srcArray /\ calls' = calls /\ wanted' = wanted /\ place' = place
      /\ data' = data
  BY DEF EndGlobal
<1> QED
  BY <1>1 DEF IInv, Size

-----------------------------------------------------------------------------
(* Theorems *)

LEMMA StepKeeps == IInv /\ [Next]_vars => IInv'
<1> SUFFICES ASSUME IInv, [Next]_vars PROVE IInv'
  OBVIOUS
<1>1. CASE Single
  BY <1>1, SingleKeeps
<1>2. CASE Nested
  BY <1>2, NestedKeeps
<1>3. CASE CloseList
  BY <1>3, CloseKeeps
<1>4. CASE EmitGlobal
  BY <1>4, EmitKeeps
<1>5. CASE EndGlobal
  BY <1>5, EndKeeps
<1>6. CASE UNCHANGED vars
  BY <1>6 DEF vars, IInv, Size
<1> QED
  BY <1>1, <1>2, <1>3, <1>4, <1>5, <1>6 DEF Next

LEMMA AlwaysIInv == Spec => []IInv
  BY InitHolds, StepKeeps, PTL DEF Spec

LEMMA IInvTypes == IInv => TypeOK
<1> SUFFICES ASSUME IInv PROVE TypeOK
  OBVIOUS
<1>1. /\ dimension \in Shapes /\ srcArray \in Seq(Nat)
      /\ wanted \in [0 .. (Words(dimension)[0] - 1) -> Nat \cup {NoElement}]
      /\ phase \in {"flatten", "emit", "done", "abort"}
  BY DEF IInv
<1>2. Size \in Nat /\ Size = Len(srcArray)
  BY <1>1 DEF Size
<1>3. Unit(0) = Words(dimension)[0]
  BY DEF Unit
<1>4. CASE phase \in {"flatten", "abort"}
  <2>1. AreCalls(calls, dimension, Size) /\ place = 0
    BY <1>4 DEF IInv
  <2> DEFINE n == Len(calls)
  <2>2. /\ calls \in Seq(Calls) /\ n \in Nat /\ n \in 1 .. Len(dimension)
        /\ \A k \in 1 .. n : IsCall(calls[k], k - 1, dimension, Size)
        /\ Size = calls[n].base + calls[n].pos
    BY <2>1 DEF AreCalls
  <2>3. \A l \in 0 .. Len(dimension) : Words(dimension)[l] \in Nat
    BY <1>1, Sizes
  <2> HIDE DEF n
  <2>4. Len(dimension) \in Nat
    BY <1>1, Sizes
  <2>5. Size <= Unit(0)
    <3>1. n \in 1 .. n /\ n - 1 \in 0 .. Len(dimension) /\ 0 \in 0 .. Len(dimension)
      BY <2>2, <2>4
    <3>2. calls[n] \in Calls
      BY <2>2 DEF n
    <3>3. /\ calls[n].base + Words(dimension)[n - 1] <= Words(dimension)[0]
          /\ calls[n].pos <= Words(dimension)[n - 1]
      BY <2>2, <3>1 DEF IsCall
    <3>4. calls[n].base \in Nat /\ calls[n].pos \in Nat
      BY <3>2 DEF Calls
    <3>5. Words(dimension)[n - 1] \in Nat /\ Words(dimension)[0] \in Nat
      BY <2>3, <3>1
    <3> QED
      BY <1>3, <2>2, <3>3, <3>4, <3>5
  <2>6. ASSUME NEW k \in DOMAIN calls
        PROVE  /\ calls[k].target \in Nat /\ calls[k].dim \in 0 .. Len(dimension)
               /\ calls[k].current <= Size /\ calls[k].singleCount \in 0 .. Size
               /\ calls[k].level \in 0 .. (Len(dimension) - 1)
    <3>1. k \in 1 .. n /\ calls[k] \in Calls
      BY <2>2, <2>6 DEF n
    <3>2. IsCall(calls[k], k - 1, dimension, Size)
      BY <2>2, <3>1
    <3>3. calls[k].target \in Nat /\ calls[k].singleCount \in Nat
      BY <3>1 DEF Calls
    <3>4. /\ calls[k].dim = k - 1 /\ calls[k].level = k - 1
          /\ calls[k].current <= Size /\ calls[k].singleCount <= Size
      BY <3>2 DEF IsCall
    <3>5. k - 1 \in 0 .. Len(dimension) - 1
      BY <2>2, <2>4, <3>1
    <3> QED
      BY <1>2, <2>4, <3>3, <3>4, <3>5
  <2> QED
    BY <1>1, <1>3, <2>1, <2>5, <2>6 DEF TypeOK
<1>5. CASE phase \in {"emit", "done"}
  <2>1. calls = <<>> /\ Size = Words(dimension)[0] /\ IsData(data, srcArray, place)
    BY <1>5 DEF IInv
  <2>2. place \in Nat
    BY <1>1, <2>1 DEF IsData
  <2>3. DOMAIN calls = {}
    BY <2>1
  <2> QED
    BY <1>1, <1>2, <1>3, <2>1, <2>2, <2>3 DEF TypeOK
<1> QED
  BY <1>1, <1>4, <1>5

\* flattenArray and generateGlobal keep their counters in range: no list lays out more
\* than the array has room for, and no call goes deeper than the dimensions do.
THEOREM TypeCorrect == Spec => []TypeOK
  BY AlwaysIInv, IInvTypes, PTL

LEMMA IInvLayout == IInv => LayoutIsC
<1> SUFFICES ASSUME IInv, phase \in {"emit", "done"}
             PROVE  /\ Size = Unit(0)
                    /\ \A o \in Offsets : srcArray[o + 1] = Given(o)
  BY DEF LayoutIsC
<1>1. Size = Unit(0) /\ IsLayout(srcArray, wanted, dimension) /\ srcArray \in Seq(Nat)
  BY DEF IInv, Unit
<1>2. ASSUME NEW o \in Offsets PROVE srcArray[o + 1] = Given(o)
  <2>1. Unit(0) = Words(dimension)[0] /\ Size \in Nat /\ Size = Len(srcArray)
    BY <1>1 DEF Unit, Size
  <2>2. o \in 0 .. (Words(dimension)[0] - 1) /\ o < Len(srcArray)
    BY <1>1, <1>2, <2>1 DEF Offsets
  <2> QED
    BY <1>1, <2>2 DEF IsLayout, Given
<1> QED
  BY <1>1, <1>2

\* Every initialiser, of an array of every shape, is flattened to one element for each
\* word, each given element standing where the C rules put it (Sema::flattenArray).
THEOREM LayoutHolds == Spec => []LayoutIsC
  BY AlwaysIInv, IInvLayout, PTL

LEMMA IInvData == IInv => DataIsArray
<1> SUFFICES ASSUME IInv, phase = "done" PROVE Assembled(data) = srcArray
  BY DEF DataIsArray
<1>1. srcArray \in Seq(Nat) /\ IsData(data, srcArray, place) /\ place >= Size
  BY DEF IInv
<1>2. Len(srcArray) \in Nat /\ Size = Len(srcArray)
  BY <1>1 DEF Size
<1>3. Assembled(data) = SubSeq(srcArray, 1, Len(srcArray))
  <2>1. place \in Nat
    BY <1>1, <1>2 DEF IsData
  <2>2. (IF place <= Len(srcArray) THEN place ELSE Len(srcArray)) = Len(srcArray)
    BY <1>1, <1>2, <2>1
  <2> QED
    BY <1>1, <2>2 DEF IsData
<1> QED
  BY <1>1, <1>3, SubSeqFull

\* The directives written for a global assemble to its values, whatever runs of zeros
\* they hold, at the start, between or at the end (Arms::generateGlobal).
THEOREM DataHolds == Spec => []DataIsArray
  BY AlwaysIInv, IInvData, PTL

-----------------------------------------------------------------------------
(* Index expressions *)

IsSums(f, dims, index) ==
    f = [n \in 0 .. Len(index) |-> IF n = 0 THEN 0 ELSE f[n - 1] + index[n] * Step(dims, n)]

\* Sums(dims, index)[n] is the offset that the first n indices give.
Sums(dims, index) == CHOOSE f : IsSums(f, dims, index)

LEMMA SumsExist ==
    ASSUME NEW dims, NEW index, Len(index) \in Nat
    PROVE  \E f : IsSums(f, dims, index)
<1> DEFINE Upto(f, h) == f = [n \in 0 .. h |-> IF n = 0 THEN 0
                                               ELSE f[n - 1] + index[n] * Step(dims, n)]
           S == {h \in Nat : \E f : Upto(f, h)}
<1>1. 0 \in S
  <2> DEFINE f == [n \in 0 .. 0 |-> 0]
  <2>1. Upto(f, 0)
    OBVIOUS
  <2> HIDE DEF f
  <2> QED
    BY <2>1
<1>2. ASSUME NEW h \in S \cap Nat PROVE h + 1 \in S
  <2>1. PICK f : Upto(f, h)
    BY <1>2
  <2> DEFINE g == [n \in 0 .. h + 1 |-> IF n = h + 1 THEN f[h] + index[h + 1] * Step(dims, h + 1)
                                        ELSE f[n]]
  <2>2. ASSUME NEW n \in 0 .. h + 1
        PROVE  g[n] = IF n = 0 THEN 0 ELSE g[n - 1] + index[n] * Step(dims, n)
    <3>1. h \in Nat /\ n \in Nat
      BY <1>2, <2>2
    <3>2. CASE n = h + 1
      <4>1. g[n] = f[h] + index[n] * Step(dims, n) /\ n - 1 = h /\ n # 0
        BY <2>2, <3>1, <3>2
      <4>2. g[h] = f[h]
        BY <3>1
      <4> HIDE DEF g
      <4> QED
        BY <4>1, <4>2
    <3>3. CASE n # h + 1
      <4>1. n \in 0 .. h /\ (n # 0 => n - 1 \in 0 .. h + 1 /\ n - 1 # h + 1)
        BY <2>2, <3>1, <3>3
      <4>2. g[n] = f[n] /\ (n # 0 => g[n - 1] = f[n - 1])
        BY <2>2, <3>3, <4>1
      <4>3. f[n] = IF n = 0 THEN 0 ELSE f[n - 1] + index[n] * Step(dims, n)
        BY <2>1, <4>1
      <4> HIDE DEF g
      <4> QED
        BY <4>2, <4>3
    <3> QED
      BY <3>2, <3>3
  <2>3. g = [n \in 0 .. h + 1 |-> g[n]]
    OBVIOUS
  <2> HIDE DEF g
  <2>4. Upto(g, h + 1)
    BY <2>2, <2>3
  <2>5. h + 1 \in Nat
    BY <1>2
  <2> HIDE DEF Upto
  <2> QED
    BY <2>4, <2>5
<1>3. Len(index) \in S
  <2> HIDE DEF S
  <2> QED
    BY <1>1, <1>2, Induction
<1> QED
  BY <1>3 DEF IsSums

LEMMA SumsAre ==
    ASSUME NEW dims, NEW index, Len(index) \in Nat
    PROVE  /\ Sums(dims, index)[0] = 0
           /\ \A n \in 1 .. Len(index) :
                 Sums(dims, index)[n] = Sums(dims, index)[n - 1] + index[n] * Step(dims, n)
           /\ Offset(dims, index) = Sums(dims, index)[Len(index)]
<1> DEFINE f == Sums(dims, index)
<1>1. IsSums(f, dims, index)
  BY SumsExist DEF Sums
<1>2. Offset(dims, index) = f[Len(index)]
  BY DEF Offset, Sums, IsSums
<1> HIDE DEF f
<1>3. \A n \in 0 .. Len(index) :
         f[n] = IF n = 0 THEN 0 ELSE f[n - 1] + index[n] * Step(dims, n)
  BY <1>1 DEF IsSums
<1>4. 0 \in 0 .. Len(index) /\ \A n \in 1 .. Len(index) : n \in 0 .. Len(index) /\ n # 0
  OBVIOUS
<1>5. f[0] = 0 /\ \A n \in 1 .. Len(index) : f[n] = f[n - 1] + index[n] * Step(dims, n)
  BY <1>3, <1>4
<1> QED
  BY <1>2, <1>5 DEF f

\* Indices that agree give the same offset so far.
LEMMA SumsAgree ==
    ASSUME NEW dims, NEW s, NEW t, Len(s) \in Nat, Len(t) \in Nat,
           NEW m \in Nat, m <= Len(s), m <= Len(t), \A k \in 1 .. m : s[k] = t[k]
    PROVE  Sums(dims, s)[m] = Sums(dims, t)[m]
<1> DEFINE f == Sums(dims, s)
           g == Sums(dims, t)
           S == {n \in Nat : n <= m => f[n] = g[n]}
<1>1. 0 \in S
  BY SumsAre
<1>2. /\ \A n \in 1 .. Len(s) : f[n] = f[n - 1] + s[n] * Step(dims, n)
      /\ \A n \in 1 .. Len(t) : g[n] = g[n - 1] + t[n] * Step(dims, n)
  BY SumsAre
<1> HIDE DEF f, g
<1>3. ASSUME NEW n \in S \cap Nat PROVE n + 1 \in S
  <2> SUFFICES ASSUME n + 1 <= m PROVE f[n + 1] = g[n + 1]
    BY <1>3
  <2>1. f[n] = g[n]
    BY <1>3
  <2>2. n + 1 \in 1 .. Len(s) /\ n + 1 \in 1 .. Len(t) /\ n + 1 \in 1 .. m /\ (n + 1) - 1 = n
    BY <1>3
  <2>3. f[n + 1] = f[n] + s[n + 1] * Step(dims, n + 1)
    BY <1>2, <2>2
  <2>4. g[n + 1] = g[n] + t[n + 1] * Step(dims, n + 1)
    BY <1>2, <2>2
  <2>5. s[n + 1] = t[n + 1]
    BY <2>2
  <2> QED
    BY <2>1, <2>3, <2>4, <2>5
<1>4. m \in S
  <2> HIDE DEF S
  <2> QED
    BY <1>1, <1>3, Induction
<1> QED
  BY <1>4 DEF f, g

\* `known' is the shape dims with the length of the first dimension filled in.
IsShape(dims, known) ==
    /\ dims \in Seq(Nat) /\ known \in Seq(Nat \ {0})
    /\ Len(dims) \in Nat \ {0} /\ Len(known) = Len(dims)
    /\ \A k \in 2 .. Len(dims) : known[k] = dims[k]

\* The length of the first dimension does not matter to the words of a row.
LEMMA SameWords ==
    ASSUME NEW dims, NEW known, IsShape(dims, known)
    PROVE  \A l \in 1 .. Len(dims) : Words(dims)[l] = Words(known)[l]
<1> DEFINE n == Len(dims)
           v == Words(dims)
           w == Words(known)
           S == {h \in Nat : h < n => v[n - h] = w[n - h]}
<1>1. n \in Nat \ {0} /\ Len(known) = n /\ \A k \in 2 .. n : known[k] = dims[k]
  BY DEF IsShape
<1>2. /\ v[n] = 1 /\ \A l \in 0 .. n - 1 : v[l] = v[l + 1] * dims[l + 1]
      /\ w[n] = 1 /\ \A l \in 0 .. n - 1 : w[l] = w[l + 1] * known[l + 1]
  <2>1. v[n] = 1 /\ \A l \in 0 .. n - 1 : v[l] = v[l + 1] * dims[l + 1]
    BY <1>1, WordsAre
  <2>2. w[n] = 1 /\ \A l \in 0 .. n - 1 : w[l] = w[l + 1] * known[l + 1]
    <3>1. Len(known) \in Nat
      BY <1>1
    <3>2. /\ w[Len(known)] = 1
          /\ \A l \in 0 .. Len(known) - 1 : w[l] = w[l + 1] * known[l + 1]
      BY <3>1, WordsAre
    <3> HIDE DEF w
    <3> QED
      BY <1>1, <3>2
  <2> QED
    BY <2>1, <2>2
<1> HIDE DEF n, v, w
<1>3. 0 \in S
  BY <1>1, <1>2
<1>4. ASSUME NEW h \in S \cap Nat PROVE h + 1 \in S
  <2> SUFFICES ASSUME h + 1 < n PROVE v[n - (h + 1)] = w[n - (h + 1)]
    BY <1>4
  <2> DEFINE l == n - (h + 1)
  <2>1. l \in 0 .. n - 1 /\ l + 1 = n - h /\ l + 1 \in 2 .. n /\ h < n
    BY <1>1, <1>4
  <2>2. v[n - h] = w[n - h]
    BY <1>4, <2>1
  <2> HIDE DEF l
  <2>3. v[l] = w[l]
    BY <1>1, <1>2, <2>1, <2>2
  <2> QED
    BY <2>3 DEF l
<1>5. ASSUME NEW l \in 1 .. n PROVE v[l] = w[l]
  <2>1. n - l \in Nat /\ n - (n - l) = l /\ n - l < n
    BY <1>1, <1>5
  <2>2. n - l \in S
    <3> HIDE DEF S
    <3> QED
      BY <1>3, <1>4, <2>1, Induction
  <2> QED
    BY <2>1, <2>2
<1> QED
  BY <1>5 DEF n, v, w

LEMMA StepIs ==
    ASSUME NEW dims, NEW known, IsShape(dims, known)
    PROVE  /\ \A l \in 0 .. Len(dims) : Words(known)[l] \in Nat \ {0}
           /\ Words(known)[Len(dims)] = 1
           /\ \A l \in 1 .. Len(dims) :
                 /\ Step(dims, l) = Words(known)[l]
                 /\ Words(known)[l - 1] = Words(known)[l] * known[l]
<1> DEFINE w == Words(known)
           n == Len(dims)
<1>1. n \in Nat \ {0} /\ Len(known) = n /\ known \in Seq(Nat \ {0})
  BY DEF IsShape
<1>2. /\ w[Len(known)] = 1 /\ \A l \in 0 .. Len(known) : w[l] \in Nat \ {0}
      /\ \A l \in 0 .. Len(known) - 1 : w[l] = w[l + 1] * known[l + 1]
  BY <1>1, WordsAre, WordsPositive
<1>3. \A l \in 1 .. n : Words(dims)[l] = w[l]
  BY SameWords
<1>4. \A l \in 1 .. n : Step(dims, l) = IF l = n \/ Words(dims)[l] = -1 THEN 1 ELSE Words(dims)[l]
  BY DEF Step, Accumulation
<1> HIDE DEF w, n
<1>5. w[n] = 1 /\ \A l \in 0 .. n : w[l] \in Nat \ {0}
  BY <1>1, <1>2
<1>6. ASSUME NEW l \in 1 .. n
      PROVE  Step(dims, l) = w[l] /\ w[l - 1] = w[l] * known[l]
  <2>1. l \in 0 .. n /\ l - 1 \in 0 .. Len(known) - 1 /\ (l - 1) + 1 = l
    BY <1>1, <1>6
  <2>2. w[l - 1] = w[l] * known[l]
    BY <1>2, <2>1
  <2>3. w[l] \in Nat /\ w[l] # -1
    BY <1>5, <2>1
  <2> QED
    BY <1>3, <1>4, <1>5, <1>6, <2>2, <2>3
<1> QED
  BY <1>5, <1>6 DEF w, n

IsIndex(ix, known) ==
    ix \in [1 .. Len(known) -> Nat] /\ \A k \in 1 .. Len(known) : ix[k] < known[k]

\* An index moves the offset on by less than the row it is in.
LEMMA SumsClimb ==
    ASSUME NEW dims, NEW known, IsShape(dims, known), NEW ix, IsIndex(ix, known)
    PROVE  /\ Len(ix) = Len(dims) /\ Sums(dims, ix)[0] = 0
           /\ Offset(dims, ix) = Sums(dims, ix)[Len(dims)]
           /\ \A n \in 0 .. Len(dims) : Sums(dims, ix)[n] \in Nat
           /\ \A n \in 1 .. Len(dims) :
                 /\ Sums(dims, ix)[n] = Sums(dims, ix)[n - 1] + ix[n] * Words(known)[n]
                 /\ Sums(dims, ix)[n - 1] <= Sums(dims, ix)[n]
                 /\ Sums(dims, ix)[n] + Words(known)[n]
                       <= Sums(dims, ix)[n - 1] + Words(known)[n - 1]
<1> DEFINE f == Sums(dims, ix)
           w == Words(known)
           m == Len(dims)
           S == {n \in Nat : n <= m => f[n] \in Nat}
<1>1. m \in Nat \ {0} /\ Len(known) = m /\ known \in Seq(Nat \ {0})
  BY DEF IsShape
<1>2. Len(ix) = m /\ \A k \in 1 .. m : ix[k] \in Nat /\ known[k] \in Nat /\ ix[k] < known[k]
  <2>1. DOMAIN ix = 1 .. m /\ \A k \in 1 .. m : ix[k] \in Nat /\ ix[k] < known[k]
    BY <1>1 DEF IsIndex
  <2>2. \A k \in 1 .. m : known[k] \in Nat
    BY <1>1
  <2>3. ix \in Seq(Nat)
    BY <1>1 DEF IsIndex
  <2> QED
    BY <1>1, <2>1, <2>2, <2>3
<1>3. /\ \A l \in 0 .. m : w[l] \in Nat
      /\ \A l \in 1 .. m : Step(dims, l) = w[l] /\ w[l - 1] = w[l] * known[l]
  BY StepIs
<1>4. /\ f[0] = 0 /\ \A n \in 1 .. m : f[n] = f[n - 1] + ix[n] * Step(dims, n)
      /\ Offset(dims, ix) = f[m]
  <2>1. Len(ix) \in Nat
    BY <1>1, <1>2
  <2>2. /\ f[0] = 0 /\ \A n \in 1 .. Len(ix) : f[n] = f[n - 1] + ix[n] * Step(dims, n)
        /\ Offset(dims, ix) = f[Len(ix)]
    BY <2>1, SumsAre
  <2> HIDE DEF f
  <2> QED
    BY <1>2, <2>2
<1> HIDE DEF f, w, m
<1>5. ASSUME NEW n \in 1 .. m
      PROVE  /\ f[n] = f[n - 1] + ix[n] * w[n]
             /\ w[n - 1] = w[n] * known[n] /\ w[n] \in Nat
             /\ ix[n] \in Nat /\ known[n] \in Nat /\ ix[n] < known[n]
  <2>1. n \in 0 .. m
    BY <1>1, <1>5
  <2> QED
    BY <1>2, <1>3, <1>4, <1>5, <2>1
<1>6. 0 \in S
  BY <1>4
<1>7. ASSUME NEW n \in S \cap Nat PROVE n + 1 \in S
  <2> SUFFICES ASSUME n + 1 <= m PROVE f[n + 1] \in Nat
    BY <1>7
  <2>1. n + 1 \in 1 .. m /\ (n + 1) - 1 = n /\ f[n] \in Nat
    BY <1>1, <1>7
  <2>2. f[n + 1] = f[n] + ix[n + 1] * w[n + 1] /\ ix[n + 1] * w[n + 1] \in Nat
    <3>1. f[n + 1] = f[n] + ix[n + 1] * w[n + 1] /\ ix[n + 1] \in Nat /\ w[n + 1] \in Nat
      BY <1>5, <2>1
    <3> QED
      BY <3>1, Product
  <2> QED
    BY <2>1, <2>2
<1>8. ASSUME NEW n \in 0 .. m PROVE f[n] \in Nat
  <2>1. n \in Nat /\ n <= m
    BY <1>1, <1>8
  <2>2. n \in S
    <3> HIDE DEF S
    <3> QED
      BY <1>6, <1>7, <2>1, Induction
  <2> QED
    BY <2>1, <2>2
<1>9. ASSUME NEW n \in 1 .. m
      PROVE  f[n - 1] <= f[n] /\ f[n] + w[n] <= f[n - 1] + w[n - 1]
  <2> DEFINE i == ix[n]
             d == known[n]
             u == w[n]
  <2>1. /\ f[n] = f[n - 1] + i * u /\ w[n - 1] = u * d
        /\ u \in Nat /\ i \in Nat /\ d \in Nat /\ i < d
    BY <1>5, <1>9
  <2>2. n \in 0 .. m /\ n - 1 \in 0 .. m
    BY <1>1, <1>9
  <2>3. f[n - 1] \in Nat
    BY <1>8, <2>2
  <2> HIDE DEF i, d, u
  <2>4. (i + 1) * u = i * u + u /\ i * u \in Nat /\ (i + 1) * u <= d * u /\ u * d = d * u
        /\ d * u \in Nat
    <3>1. i + 1 \in Nat /\ i + 1 <= d
      BY <2>1
    <3> QED
      BY <2>1, <3>1, Product
  <2> QED
    BY <2>1, <2>3, <2>4 DEF u
<1> QED
  BY <1>2, <1>4, <1>5, <1>8, <1>9 DEF f, w, m

\* An index that precedes another one has a smaller offset.
LEMMA Below ==
    ASSUME NEW dims, NEW known, IsShape(dims, known), NEW a, IsIndex(a, known),
           NEW b, IsIndex(b, known), Precedes(a, b)
    PROVE  Offset(dims, a) < Offset(dims, b)
<1> DEFINE f == Sums(dims, a)
           g == Sums(dims, b)
           w == Words(known)
           m == Len(dims)
<1>1. m \in Nat \ {0} /\ Len(known) = m /\ Len(a) = m /\ Len(b) = m
  BY SumsClimb DEF IsShape
<1>2. /\ \A l \in 0 .. m : w[l] \in Nat \ {0}
      /\ w[m] = 1
  BY StepIs
<1>3. /\ \A n \in 0 .. m : f[n] \in Nat /\ g[n] \in Nat
      /\ Offset(dims, a) = f[m] /\ Offset(dims, b) = g[m]
  BY SumsClimb
<1>4. \A n \in 1 .. m : /\ f[n] = f[n - 1] + a[n] * w[n] /\ g[n] = g[n - 1] + b[n] * w[n]
                        /\ f[n] + w[n] <= f[n - 1] + w[n - 1] /\ g[n - 1] <= g[n]
  BY SumsClimb
<1>5. PICK k \in 1 .. m : a[k] < b[k] /\ \A l \in 1 .. (k - 1) : a[l] = b[l]
  <2>1. DOMAIN a = 1 .. m
    BY <1>1 DEF IsIndex
  <2> QED
    BY <2>1 DEF Precedes
<1>6. f[k - 1] = g[k - 1]
  <2>1. k - 1 \in Nat /\ k - 1 <= Len(a) /\ k - 1 <= Len(b) /\ Len(a) \in Nat /\ Len(b) \in Nat
    BY <1>1, <1>5
  <2> QED
    BY <1>5, <2>1, SumsAgree
<1>7. a[k] \in Nat /\ b[k] \in Nat
  BY <1>1, <1>5 DEF IsIndex
<1> HIDE DEF f, g, w, m
<1> DEFINE S == {h \in Nat : k + h <= m => f[k + h] + w[k + h] <= g[k + h]}
<1>8. 0 \in S
  <2> DEFINE i == a[k]
             j == b[k]
             u == w[k]
  <2>1. k \in 0 .. m /\ k - 1 \in 0 .. m /\ k + 0 = k
    BY <1>1, <1>5
  <2>2. /\ i \in Nat /\ j \in Nat /\ u \in Nat /\ i + 1 <= j
        /\ f[k] = f[k - 1] + i * u /\ g[k] = g[k - 1] + j * u
    BY <1>2, <1>4, <1>5, <1>7, <2>1
  <2>3. f[k - 1] \in Nat
    BY <1>3, <2>1
  <2> HIDE DEF i, j, u
  <2>4. (i + 1) * u = i * u + u /\ (i + 1) * u <= j * u /\ i * u \in Nat /\ j * u \in Nat
    BY <2>2, Product
  <2>5. f[k] + u <= g[k]
    BY <1>6, <2>2, <2>3, <2>4
  <2> QED
    BY <2>1, <2>5 DEF u
<1>9. ASSUME NEW h \in S \cap Nat PROVE h + 1 \in S
  <2> SUFFICES ASSUME k + (h + 1) <= m
               PROVE  f[k + (h + 1)] + w[k + (h + 1)] <= g[k + (h + 1)]
    BY <1>9
  <2> DEFINE n == k + (h + 1)
  <2>1. n \in 1 .. m /\ n - 1 = k + h /\ n - 1 \in 0 .. m /\ n \in 0 .. m
    BY <1>1, <1>5, <1>9
  <2>2. f[k + h] + w[k + h] <= g[k + h]
    BY <1>1, <1>5, <1>9, <2>1
  <2> HIDE DEF n
  <2>3. f[n - 1] + w[n - 1] <= g[n - 1]
    BY <2>1, <2>2
  <2>4. f[n] + w[n] <= f[n - 1] + w[n - 1] /\ g[n - 1] <= g[n]
    BY <1>4, <2>1
  <2>5. /\ f[n] \in Nat /\ w[n] \in Nat /\ g[n] \in Nat
        /\ f[n - 1] \in Nat /\ w[n - 1] \in Nat /\ g[n - 1] \in Nat
    BY <1>2, <1>3, <2>1
  <2>6. f[n] + w[n] <= g[n]
    BY <2>3, <2>4, <2>5
  <2> QED
    BY <2>6 DEF n
<1>10. f[m] + w[m] <= g[m]
  <2>1. m - k \in Nat /\ k + (m - k) = m
    BY <1>1, <1>5
  <2>2. m - k \in S
    <3> HIDE DEF S
    <3> QED
      BY <1>8, <1>9, <2>1, Induction
  <2> QED
    BY <2>1, <2>2
<1>11. m \in 0 .. m
  BY <1>1
<1> QED
  BY <1>2, <1>3, <1>10, <1>11

\* Every word of the array is reached by an index.
LEMMA Reaches ==
    ASSUME NEW dims, NEW known, IsShape(dims, known), NEW v \in 0 .. (Words(known)[0] - 1)
    PROVE  \E ix : IsIndex(ix, known) /\ Offset(dims, ix) = v
<1> DEFINE w == Words(known)
           m == Len(dims)
           Near(ix, n) == /\ IsIndex(ix, known)
                          /\ Sums(dims, ix)[n] <= v /\ v < Sums(dims, ix)[n] + w[n]
           S == {n \in Nat : n <= m => \E ix : Near(ix, n)}
<1>1. m \in Nat \ {0} /\ Len(known) = m /\ known \in Seq(Nat \ {0})
  BY DEF IsShape
<1>2. /\ \A l \in 0 .. m : w[l] \in Nat \ {0}
      /\ w[m] = 1
      /\ \A l \in 1 .. m : w[l - 1] = w[l] * known[l]
  BY StepIs
<1>3. \A k \in 1 .. m : known[k] \in Nat \ {0}
  BY <1>1
<1>4. v \in Nat /\ v < w[0]
  <2>1. 0 \in 0 .. m
    BY <1>1
  <2> QED
    BY <1>2, <2>1
<1> HIDE DEF w
<1>5. 0 \in S
  <2> DEFINE ix == [k \in 1 .. m |-> 0]
  <2>1. IsIndex(ix, known)
    BY <1>1, <1>3 DEF IsIndex
  <2> HIDE DEF ix
  <2>2. Sums(dims, ix)[0] = 0
    BY <2>1, SumsClimb
  <2>3. w[0] \in Nat
    BY <1>1, <1>2
  <2>4. Near(ix, 0)
    BY <1>4, <2>1, <2>2, <2>3
  <2> QED
    BY <2>4
<1>6. ASSUME NEW n \in S \cap Nat PROVE n + 1 \in S
  <2> SUFFICES ASSUME n + 1 <= m PROVE \E ix : Near(ix, n + 1)
    BY <1>6
  <2>1. PICK ix : Near(ix, n)
    BY <1>1, <1>6
  <2> DEFINE k == n + 1
             f == Sums(dims, ix)
             r == v - f[n]
             q == r \div w[k]
             jx == [ix EXCEPT ![k] = q]
             g == Sums(dims, jx)
  <2>2. k \in 1 .. m /\ k - 1 = n /\ n \in 0 .. m /\ k \in 0 .. m /\ n \in Nat /\ n <= m
    BY <1>1, <1>6
  <2>3. f[n] \in Nat /\ Len(ix) = m
    BY <2>1, <2>2, SumsClimb
  <2> HIDE DEF k, f
  <2>4. r \in Nat /\ r < w[k] * known[k] /\ w[k] \in Nat \ {0} /\ known[k] \in Nat \ {0}
    <3>1. f[n] <= v /\ v < f[n] + w[n] /\ w[n] \in Nat /\ w[n] = w[k] * known[k]
      BY <1>2, <2>1, <2>2 DEF f
    <3> QED
      BY <1>2, <1>3, <1>4, <2>2, <2>3, <3>1
  <2> HIDE DEF r
  <2>5. q \in Nat /\ q * w[k] <= r /\ r < q * w[k] + w[k] /\ q < known[k] /\ q * w[k] \in Nat
    <3> DEFINE u == w[k]
               d == known[k]
    <3>1. r \in Nat /\ u \in Nat \ {0} /\ d \in Nat \ {0} /\ r < u * d
      BY <2>4
    <3> HIDE DEF u, d
    <3>2. /\ r \div u \in Nat /\ r % u \in Nat /\ r % u < u
          /\ r = u * (r \div u) + (r % u)
      BY <3>1
    <3> DEFINE p == r \div u
               s == r % u
    <3>3. p \in Nat /\ s \in Nat /\ s < u /\ r = u * p + s
      BY <3>2
    <3> HIDE DEF p, s
    <3>4. u * p = p * u /\ p * u \in Nat /\ u * d = d * u /\ d * u \in Nat
      BY <3>1, <3>3, Product
    <3>5. p < d
      <4> SUFFICES ASSUME d <= p PROVE FALSE
        BY <3>1, <3>3
      <4>1. d * u <= p * u
        BY <3>1, <3>3, Product
      <4> QED
        BY <3>1, <3>3, <3>4, <4>1
    <3>6. p \in Nat /\ p * u <= r /\ r < p * u + u /\ p < d /\ p * u \in Nat
      BY <3>1, <3>3, <3>4, <3>5
    <3> QED
      BY <3>6 DEF p, u, d
  <2> HIDE DEF q
  <2>6. IsIndex(jx, known) /\ jx[k] = q /\ \A l \in 1 .. n : jx[l] = ix[l]
    <3>1. ix \in [1 .. m -> Nat] /\ \A l \in 1 .. m : ix[l] < known[l]
      BY <1>1, <2>1 DEF IsIndex
    <3>2. jx \in [1 .. m -> Nat] /\ jx[k] = q /\ \A l \in 1 .. m : l # k => jx[l] = ix[l]
      BY <2>2, <2>5, <3>1
    <3> HIDE DEF jx
    <3>3. \A l \in 1 .. n : l \in 1 .. m /\ l # k
      BY <1>1, <2>2
    <3>4. \A l \in 1 .. m : jx[l] < known[l]
      BY <2>5, <3>1, <3>2
    <3> QED
      BY <1>1, <3>2, <3>3, <3>4 DEF IsIndex
  <2> HIDE DEF jx
  <2>7. Len(jx) = m /\ g[k] = g[k - 1] + jx[k] * w[k]
    BY <2>2, <2>6, SumsClimb DEF w
  <2>8. f[n] = g[n]
    <3>1. Len(ix) \in Nat /\ Len(jx) \in Nat /\ n <= Len(ix) /\ n <= Len(jx)
      BY <1>1, <2>2, <2>3, <2>7
    <3> QED
      BY <2>2, <2>6, <3>1, SumsAgree DEF f
  <2> HIDE DEF g
  <2>9. g[k] = f[n] + q * w[k]
    BY <2>2, <2>6, <2>7, <2>8
  <2>10. g[k] <= v /\ v < g[k] + w[k]
    <3> DEFINE c == f[n]
               e == q * w[k]
               u == w[k]
               x == g[k]
    <3>1. v = c + r
      BY <1>4, <2>3 DEF r
    <3>2. /\ c \in Nat /\ r \in Nat /\ e \in Nat /\ u \in Nat
          /\ e <= r /\ r < e + u /\ x = c + e
      BY <2>3, <2>4, <2>5, <2>9
    <3> HIDE DEF c, e, u, x
    <3>3. x <= v /\ v < x + u
      BY <1>4, <3>1, <3>2
    <3> QED
      BY <3>3 DEF u, x
  <2>11. Near(jx, k)
    BY <2>6, <2>10 DEF g
  <2> QED
    BY <2>11 DEF k
<1>7. m \in S
  <2> HIDE DEF S
  <2> QED
    BY <1>1, <1>5, <1>6, Induction
<1>8. PICK ix : Near(ix, m)
  BY <1>1, <1>7
<1>9. Sums(dims, ix)[m] \in Nat /\ Offset(dims, ix) = Sums(dims, ix)[m]
  <2>1. m \in 0 .. m
    BY <1>1
  <2> QED
    BY <1>8, <2>1, SumsClimb
<1>10. Offset(dims, ix) = v
  BY <1>2, <1>4, <1>8, <1>9
<1> QED
  BY <1>8, <1>10

\* One of two different indices precedes the other.
LEMMA Either ==
    ASSUME NEW known \in Seq(Nat), NEW a, IsIndex(a, known), NEW b, IsIndex(b, known), a # b
    PROVE  Precedes(a, b) \/ Precedes(b, a)
<1> DEFINE m == Len(known)
           differ == {k \in 1 .. m : a[k] # b[k]}
<1>1. /\ m \in Nat /\ a \in [1 .. m -> Nat] /\ b \in [1 .. m -> Nat]
      /\ DOMAIN a = 1 .. m /\ DOMAIN b = 1 .. m
  BY DEF IsIndex
<1> HIDE DEF m
<1>2. differ # {} /\ differ \subseteq Nat
  <2>1. \E k \in 1 .. m : a[k] # b[k]
    BY <1>1
  <2>2. PICK k \in 1 .. m : a[k] # b[k]
    BY <2>1
  <2>3. k \in differ
    BY <2>2
  <2>4. ASSUME NEW n \in differ PROVE n \in Nat
    <3>1. n \in 1 .. m
      BY <2>4
    <3> QED
      BY <1>1, <3>1
  <2> HIDE DEF differ
  <2> QED
    BY <2>3, <2>4
<1>3. PICK k \in differ : \A n \in differ : k <= n
  <2> HIDE DEF differ
  <2> QED
    BY <1>2, Least
<1>4. k \in 1 .. m /\ a[k] # b[k] /\ a[k] \in Nat /\ b[k] \in Nat
  BY <1>1, <1>3
<1>5. ASSUME NEW l \in 1 .. (k - 1) PROVE a[l] = b[l]
  <2>1. l \in 1 .. m /\ l < k /\ l \in Nat /\ k \in Nat
    BY <1>1, <1>4, <1>5
  <2>2. l \notin differ
    <3> HIDE DEF differ
    <3> QED
      BY <1>3, <2>1
  <2> QED
    BY <2>1, <2>2
<1>6. CASE a[k] < b[k]
  BY <1>1, <1>4, <1>5, <1>6 DEF Precedes
<1>7. CASE b[k] < a[k]
  BY <1>1, <1>4, <1>5, <1>7 DEF Precedes
<1> QED
  BY <1>4, <1>6, <1>7

\* The offset of an index is the number of those that precede it.
LEMMA Ranked ==
    ASSUME NEW dims, NEW known, IsShape(dims, known), NEW ix, IsIndex(ix, known),
           NEW all, \A a : a \in all <=> IsIndex(a, known)
    PROVE  Cardinality({before \in all : Precedes(before, ix)}) = Offset(dims, ix)
<1> DEFINE B == {before \in all : Precedes(before, ix)}
           r == Offset(dims, ix)
           T == 0 .. (r - 1)
           f == [b \in B |-> Offset(dims, b)]
<1>1. ASSUME NEW a, IsIndex(a, known)
      PROVE  Offset(dims, a) \in Nat /\ Offset(dims, a) < Words(known)[0]
  <2> DEFINE g == Sums(dims, a)
             w == Words(known)
             m == Len(dims)
             S == {n \in Nat : n <= m => g[n] + w[n] <= w[0]}
  <2>1. m \in Nat \ {0}
    BY DEF IsShape
  <2>2. (\A l \in 0 .. m : w[l] \in Nat \ {0}) /\ w[m] = 1
    BY StepIs
  <2>3. /\ g[0] = 0 /\ Offset(dims, a) = g[m] /\ \A n \in 0 .. m : g[n] \in Nat
        /\ \A n \in 1 .. m : g[n] + w[n] <= g[n - 1] + w[n - 1]
    BY <1>1, SumsClimb
  <2> HIDE DEF g, w, m
  <2>4. 0 \in S
    <3>1. 0 \in 0 .. m
      BY <2>1
    <3>2. w[0] \in Nat
      BY <2>2, <3>1
    <3> QED
      BY <2>3, <3>2
  <2>5. ASSUME NEW n \in S \cap Nat PROVE n + 1 \in S
    <3> SUFFICES ASSUME n + 1 <= m PROVE g[n + 1] + w[n + 1] <= w[0]
      BY <2>5
    <3>1. n + 1 \in 1 .. m /\ (n + 1) - 1 = n /\ g[n] + w[n] <= w[0]
      BY <2>1, <2>5
    <3>2. n + 1 \in 0 .. m /\ n \in 0 .. m /\ 0 \in 0 .. m
      BY <2>1, <2>5, <3>1
    <3>3. g[n + 1] + w[n + 1] <= g[n] + w[n]
      BY <2>3, <3>1
    <3>4. /\ g[n + 1] \in Nat /\ w[n + 1] \in Nat /\ g[n] \in Nat /\ w[n] \in Nat
          /\ w[0] \in Nat
      BY <2>2, <2>3, <3>2
    <3> QED
      BY <3>1, <3>3, <3>4
  <2>6. m \in S
    <3> HIDE DEF S
    <3> QED
      BY <2>1, <2>4, <2>5, Induction
  <2>7. m \in 0 .. m /\ 0 \in 0 .. m /\ m \in Nat
    BY <2>1
  <2>8. g[m] \in Nat /\ g[m] + 1 <= w[0] /\ w[0] \in Nat
    BY <2>2, <2>3, <2>6, <2>7
  <2> QED
    BY <2>3, <2>8 DEF w
<1>2. known \in Seq(Nat)
  BY DEF IsShape
<1>3. r \in Nat /\ r < Words(known)[0]
  BY <1>1
<1>4. ASSUME NEW b \in B PROVE f[b] = Offset(dims, b) /\ f[b] \in T /\ IsIndex(b, known)
  <2>1. IsIndex(b, known) /\ Precedes(b, ix)
    BY <1>4
  <2>2. Offset(dims, b) < r
    BY <2>1, Below
  <2>3. Offset(dims, b) \in Nat
    BY <1>1, <2>1
  <2>4. Offset(dims, b) \in T
    BY <1>3, <2>2, <2>3
  <2> QED
    BY <2>1, <2>4, <1>4
<1>5. ASSUME NEW a \in B, NEW b \in B, f[a] = f[b] PROVE a = b
  <2> SUFFICES ASSUME a # b PROVE FALSE
    OBVIOUS
  <2>1. IsIndex(a, known) /\ IsIndex(b, known) /\ Offset(dims, a) = Offset(dims, b)
    BY <1>4, <1>5
  <2>2. Precedes(a, b) \/ Precedes(b, a)
    BY <1>2, <2>1, Either
  <2>3. Offset(dims, a) < Offset(dims, b) \/ Offset(dims, b) < Offset(dims, a)
    BY <2>1, <2>2, Below
  <2>4. Offset(dims, a) \in Nat
    BY <1>1, <2>1
  <2> QED
    BY <2>1, <2>3, <2>4
<1>6. ASSUME NEW v \in T PROVE \E b \in B : f[b] = v
  <2>0. Words(known)[0] \in Nat
    <3>1. 0 \in 0 .. Len(dims)
      BY DEF IsShape
    <3> QED
      BY <3>1, StepIs
  <2>1. v \in 0 .. (Words(known)[0] - 1) /\ v < r /\ v \in Nat
    <3> HIDE DEF r
    <3> QED
      BY <1>3, <1>6, <2>0
  <2>2. PICK b : IsIndex(b, known) /\ Offset(dims, b) = v
    BY <2>1, Reaches
  <2>3. b # ix
    BY <2>1, <2>2
  <2>4. ~ Precedes(ix, b)
    <3> SUFFICES ASSUME Precedes(ix, b) PROVE FALSE
      OBVIOUS
    <3>1. r < Offset(dims, b)
      BY <2>2, Below
    <3> QED
      BY <1>3, <2>1, <2>2, <3>1
  <2>5. Precedes(b, ix)
    BY <1>2, <2>2, <2>3, <2>4, Either
  <2>6. b \in B
    BY <2>2, <2>5
  <2> QED
    BY <1>4, <2>2, <2>6
<1>7. f \in [B -> T]
  <2> HIDE DEF B, T
  <2> QED
    BY <1>4
<1> HIDE DEF B, T, f, r
<1>8. f \in Bijection(B, T)
  BY <1>5, <1>6, <1>7, Fun_IsBij
<1>9. ExistsBijection(T, B)
  <2>1. ExistsBijection(B, T)
    BY <1>8 DEF ExistsBijection
  <2> QED
    BY <2>1, Fun_ExistsBijSymmetric
<1>10. IsFiniteSet(T) /\ Cardinality(T) = r
  <2>1. 0 \in Int /\ r - 1 \in Int
    BY <1>3
  <2>2. IsFiniteSet(0 .. (r - 1)) /\ Cardinality(0 .. (r - 1)) = IF 0 > r - 1 THEN 0
                                                                ELSE (r - 1) - 0 + 1
    BY <2>1, FS_Interval
  <2> QED
    BY <1>3, <2>2 DEF T
<1>11. Cardinality(B) = r
  BY <1>9, <1>10, FS_Bijection
<1> QED
  BY <1>11 DEF B, r

LEMMA Greatest ==
    ASSUME NEW s \in Seq(Nat), s # <<>>
    PROVE  /\ Max(Range(s)) \in Nat
           /\ \A k \in 1 .. Len(s) : s[k] <= Max(Range(s))
<1> DEFINE n == Len(s)
           S == {h \in Nat : h + 1 <= n => \E i \in 1 .. n : \A k \in 1 .. h + 1 : s[k] <= s[i]}
<1>1. n \in Nat \ {0} /\ DOMAIN s = 1 .. n /\ \A k \in 1 .. n : s[k] \in Nat
  BY EmptySeq
<1> HIDE DEF n
<1>2. 0 \in S
  <2>1. 1 \in 1 .. n /\ s[1] \in Nat
    BY <1>1
  <2>2. \A k \in 1 .. 0 + 1 : s[k] <= s[1]
    BY <2>1
  <2> QED
    BY <2>1, <2>2
<1>3. ASSUME NEW h \in S \cap Nat PROVE h + 1 \in S
  <2> SUFFICES ASSUME (h + 1) + 1 <= n
               PROVE  \E i \in 1 .. n : \A k \in 1 .. (h + 1) + 1 : s[k] <= s[i]
    BY <1>3
  <2>1. PICK i \in 1 .. n : \A k \in 1 .. h + 1 : s[k] <= s[i]
    BY <1>1, <1>3
  <2> DEFINE l == (h + 1) + 1
  <2>2. l \in 1 .. n /\ s[l] \in Nat /\ s[i] \in Nat
        /\ \A k \in 1 .. l : (k \in 1 .. h + 1 \/ k = l) /\ k \in 1 .. n
    BY <1>1, <1>3, <2>1
  <2> HIDE DEF l
  <2>3. CASE s[l] <= s[i]
    <3>1. \A k \in 1 .. l : s[k] <= s[i]
      BY <2>1, <2>2, <2>3
    <3> QED
      BY <3>1 DEF l
  <2>4. CASE ~(s[l] <= s[i])
    <3>1. ASSUME NEW k \in 1 .. l PROVE s[k] <= s[l]
      <4>1. (k \in 1 .. h + 1 \/ k = l) /\ s[k] \in Nat
        BY <1>1, <2>2, <3>1
      <4> QED
        BY <2>1, <2>2, <2>4, <4>1
    <3> QED
      BY <2>2, <3>1 DEF l
  <2> QED
    BY <2>3, <2>4
<1>4. n - 1 \in Nat /\ (n - 1) + 1 = n
  BY <1>1
<1>5. n - 1 \in S
  <2> HIDE DEF S
  <2> QED
    BY <1>2, <1>3, <1>4, Induction
<1>6. PICK i \in 1 .. n : \A k \in 1 .. n : s[k] <= s[i]
  BY <1>4, <1>5
<1> DEFINE R == Range(s)
<1>7. R = {s[k] : k \in 1 .. n}
  BY <1>1 DEF Range
<1> HIDE DEF R
<1>8. \E x \in R : \A y \in R : x >= y
  <2>1. s[i] \in R
    BY <1>6, <1>7
  <2>2. ASSUME NEW y \in R PROVE s[i] >= y
    <3>1. PICK k \in 1 .. n : y = s[k]
      BY <1>7, <2>2
    <3>2. s[k] <= s[i] /\ s[k] \in Nat /\ s[i] \in Nat
      BY <1>1, <1>6
    <3> QED
      BY <3>1, <3>2
  <2> QED
    BY <2>1, <2>2
<1>9. Max(R) \in R /\ \A y \in R : Max(R) >= y
  BY <1>8 DEF Max
<1> DEFINE x == Max(R)
<1>10. x \in R /\ \A y \in R : x >= y
  BY <1>9
<1> HIDE DEF x
<1>11. x \in Nat
  BY <1>1, <1>7, <1>10
<1>12. ASSUME NEW k \in 1 .. n PROVE s[k] <= x
  <2>1. s[k] \in R /\ s[k] \in Nat
    BY <1>1, <1>7
  <2> QED
    BY <1>10, <1>11, <2>1
<1> QED
  BY <1>11, <1>12 DEF x, R, n

LEMMA SubscriptsAre ==
    ASSUME NEW known \in Seq(Nat \ {0}), known # <<>>
    PROVE  \A ix : ix \in Subscripts(known) <=> IsIndex(ix, known)
<1> DEFINE x == Max(Range(known))
           m == Len(known)
<1>1. known \in Seq(Nat) /\ DOMAIN known = 1 .. m /\ m \in Nat
  OBVIOUS
<1>2. x \in Nat /\ \A k \in 1 .. m : known[k] <= x
  BY <1>1, Greatest
<1>3. \A k \in 1 .. m : known[k] \in Nat
  BY <1>1
<1>4. Subscripts(known) = {ix \in [1 .. m -> 0 .. (x - 1)] : \A k \in 1 .. m : ix[k] < known[k]}
  BY <1>1 DEF Subscripts
<1> HIDE DEF x, m
<1>5. ASSUME NEW ix, ix \in [1 .. m -> Nat], \A k \in 1 .. m : ix[k] < known[k]
      PROVE  ix \in [1 .. m -> 0 .. (x - 1)]
  <2>1. ASSUME NEW k \in 1 .. m PROVE ix[k] \in 0 .. (x - 1)
    <3>1. ix[k] \in Nat /\ ix[k] < known[k] /\ known[k] <= x /\ known[k] \in Nat
      BY <1>2, <1>3, <1>5, <2>1
    <3> QED
      BY <1>2, <3>1
  <2> QED
    BY <1>5, <2>1
<1>6. \A ix : ix \in [1 .. m -> 0 .. (x - 1)] => ix \in [1 .. m -> Nat]
  BY <1>2
<1> QED
  BY <1>4, <1>5, <1>6 DEF IsIndex, m

\* Indices left out count as 0.
LEMMA Truncated ==
    ASSUME NEW dims, NEW known, IsShape(dims, known), NEW ix, IsIndex(ix, known),
           NEW n \in 1 .. Len(dims), \A k \in 1 .. Len(dims) : k > n => ix[k] = 0
    PROVE  Offset(dims, SubSeq(ix, 1, n)) = Offset(dims, ix)
<1> DEFINE t == SubSeq(ix, 1, n)
           f == Sums(dims, ix)
           w == Words(known)
           m == Len(dims)
           S == {h \in Nat : n + h <= m => f[n + h] = f[n]}
<1>1. m \in Nat \ {0} /\ Len(known) = m /\ Len(ix) = m
  BY SumsClimb DEF IsShape
<1>2. /\ Offset(dims, ix) = f[m]
      /\ \A k \in 0 .. m : f[k] \in Nat
      /\ \A k \in 1 .. m : f[k] = f[k - 1] + ix[k] * w[k]
  BY SumsClimb
<1>3. \A l \in 0 .. m : w[l] \in Nat
  BY StepIs
<1>4. ix \in Seq(Nat)
  BY <1>1 DEF IsIndex
<1>5. Len(t) = n /\ \A k \in 1 .. n : t[k] = ix[k]
  BY <1>1, <1>4
<1>6. Offset(dims, t) = Sums(dims, t)[n]
  <2>1. Len(t) \in Nat
    BY <1>1, <1>5
  <2> HIDE DEF t
  <2>2. Offset(dims, t) = Sums(dims, t)[Len(t)]
    BY <2>1, SumsAre
  <2> QED
    BY <1>5, <2>2
<1>7. Sums(dims, t)[n] = f[n]
  <2> HIDE DEF t
  <2>1. n \in Nat /\ n <= Len(t) /\ n <= Len(ix) /\ Len(t) \in Nat /\ Len(ix) \in Nat
    BY <1>1, <1>5
  <2> QED
    BY <1>5, <2>1, SumsAgree
<1> HIDE DEF t, f, w, m
<1>8. 0 \in S
  BY <1>1
<1>9. ASSUME NEW h \in S \cap Nat PROVE h + 1 \in S
  <2> SUFFICES ASSUME n + (h + 1) <= m PROVE f[n + (h + 1)] = f[n]
    BY <1>9
  <2> DEFINE k == n + (h + 1)
  <2>1. k \in 1 .. m /\ k > n /\ k - 1 = n + h /\ k \in 0 .. m /\ n + h <= m /\ n \in 0 .. m
    BY <1>1, <1>9 DEF m
  <2>2. f[n + h] = f[n]
    BY <1>9, <2>1
  <2> HIDE DEF k
  <2>3. f[k] = f[k - 1] + 0 * w[k] /\ w[k] \in Nat /\ f[n] \in Nat
    BY <1>2, <1>3, <2>1 DEF m
  <2> DEFINE u == w[k]
             e == f[n]
  <2>4. f[k] = e + 0 * u /\ u \in Nat /\ e \in Nat
    BY <2>1, <2>2, <2>3
  <2> HIDE DEF u, e
  <2>5. f[k] = e
    BY <2>4
  <2> QED
    BY <2>5 DEF k, e
<1>10. f[m] = f[n]
  <2>1. m - n \in Nat /\ n + (m - n) = m
    BY <1>1 DEF m
  <2>2. m - n \in S
    <3> HIDE DEF S
    <3> QED
      BY <1>8, <1>9, <2>1, Induction
  <2> QED
    BY <2>1, <2>2
<1> QED
  BY <1>2, <1>6, <1>7, <1>10 DEF t

LEMMA KnownShape ==
    ASSUME NEW dims \in Shapes \cup ParamShapes
    PROVE  IsShape(dims, Known(dims)) /\ Known(dims) # <<>>
<1>1. CASE dims \in Shapes
  <2>1. dims \in Seq(Nat \ {0}) /\ dims # <<>>
    BY <1>1, ArraysAssumption
  <2>2. Len(dims) \in Nat \ {0} /\ dims[1] # 0 /\ dims \in Seq(Nat)
    BY <2>1, EmptySeq
  <2>3. Known(dims) = dims
    BY <2>2 DEF Known
  <2> QED
    BY <2>1, <2>2, <2>3 DEF IsShape
<1>2. CASE dims \in ParamShapes
  <2> DEFINE known == [dims EXCEPT ![1] = 2]
             m == Len(dims)
  <2>1. /\ dims \in Seq(Nat) /\ dims # <<>> /\ dims[1] = 0
        /\ \A k \in DOMAIN dims : k > 1 => dims[k] \in Nat \ {0}
    BY <1>2, ArraysAssumption
  <2>2. m \in Nat \ {0} /\ DOMAIN dims = 1 .. m
    BY <2>1, EmptySeq
  <2>3. Known(dims) = known
    BY <2>1 DEF Known
  <2>4. DOMAIN known = 1 .. m /\ known[1] = 2 /\ \A k \in 2 .. m : known[k] = dims[k]
    BY <2>1, <2>2
  <2> HIDE DEF known
  <2>5. \A k \in 1 .. m : known[k] \in Nat \ {0}
    BY <2>1, <2>2, <2>4
  <2>6. known = [k \in 1 .. m |-> known[k]]
    BY <2>1, <2>2 DEF known
  <2>7. known \in [1 .. m -> Nat \ {0}]
    BY <2>4, <2>5, <2>6
  <2> HIDE DEF m
  <2>8. known \in Seq(Nat \ {0}) /\ Len(known) = m
    BY <2>2, <2>4, <2>7
  <2>9. known # <<>>
    BY <2>2, <2>8
  <2> QED
    BY <2>1, <2>2, <2>3, <2>4, <2>8, <2>9 DEF IsShape, m
<1> QED
  BY <1>1, <1>2

LEMMA IndicesFind == dimension \in Shapes => IndexFindsElement
<1> SUFFICES ASSUME dimension \in Shapes,
                    NEW dims \in {dimension} \cup ParamShapes,
                    NEW ix \in Subscripts(Known(dims)), NEW n \in DOMAIN dims,
                    \A k \in DOMAIN dims : k > n => ix[k] = 0
             PROVE  Offset(dims, SubSeq(ix, 1, n)) =
                       Cardinality({before \in Subscripts(Known(dims)) : Precedes(before, ix)})
  BY Zenon DEF IndexFindsElement
<1> DEFINE known == Known(dims)
           all == Subscripts(known)
<1>1. IsShape(dims, known) /\ known # <<>>
  BY KnownShape
<1> HIDE DEF known
<1>2. known \in Seq(Nat \ {0}) /\ DOMAIN dims = 1 .. Len(dims)
  BY <1>1 DEF IsShape
<1>3. \A a : a \in all <=> IsIndex(a, known)
  BY <1>1, <1>2, SubscriptsAre
<1> HIDE DEF all
<1>4. IsIndex(ix, known)
  BY <1>3 DEF all, known
<1>5. Cardinality({before \in all : Precedes(before, ix)}) = Offset(dims, ix)
  BY <1>1, <1>3, <1>4, Ranked
<1>6. Offset(dims, SubSeq(ix, 1, n)) = Offset(dims, ix)
  BY <1>1, <1>2, <1>4, Truncated
<1> QED
  BY <1>5, <1>6 DEF all, known

\* The offset that IndexExpression::genCode computes counts the elements that come
\* before the one C means, for every shape, also where the first length is unknown.
THEOREM IndexHolds == Spec => []IndexFindsElement
<1>1. IInv => IndexFindsElement
  BY IndicesFind DEF IInv
<1> QED
  BY <1>1, AlwaysIInv, PTL

=============================================================================
