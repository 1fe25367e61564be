------------------------- MODULE BlockCodec_proofs -------------------------
(***************************************************************************)
(* Proofs about Scaling and BlockCodec: which sizes of the DCT libjpeg may *)
(* choose, for every scale, every width of a picture and all sampling      *)
(* factors that a file may have.                                           *)
(***************************************************************************)
EXTENDS BlockCodec, WellFoundedInduction, TLAPS

\* A set of natural numbers has a least one.
LEMMA NatMin ==
  ASSUME NEW T \in SUBSET Nat, T # {}
  PROVE  Min(T) \in T /\ \A k \in T : Min(T) <= k
<1> DEFINE R == OpToRel(<, Nat)
<1>1. IsWellFoundedOn(R, Nat)
  BY NatLessThanWellFounded, Zenon
<1>2. \A x, y \in Nat : <<y, x>> \in R <=> y < x
  BY DEF OpToRel
<1> HIDE DEF R
<1>3. PICK m \in T : \A k \in T : ~ (<<k, m>> \in R)
  BY <1>1, WFMin
<1>4. \A k \in T : m <= k
  <2> TAKE k \in T
  <2>1. m \in Nat /\ k \in Nat /\ ~ (k < m)
    BY <1>2, <1>3
  <2> QED
    BY <2>1
<1> QED
  BY <1>4 DEF Min

\* A division that rounds up.
LEMMA RoundUp ==
  ASSUME NEW a \in Nat, NEW b \in Nat \ {0}
  PROVE  LET q == jdiv_round_up(a, b)
         IN q \in Nat /\ a <= q * b /\ q * b < a + b /\ (a > 0 => q > 0)
<1> DEFINE q == jdiv_round_up(a, b)
<1>1. a + b - 1 \in Nat
  OBVIOUS
<1>2. PICK n \in Nat : n = a + b - 1
  BY <1>1
<1>3. /\ n \div b \in Nat
      /\ b * (n \div b) <= n /\ n < b * (n \div b) + b
  OBVIOUS
<1>4. q \in Nat /\ b * q <= a + b - 1 /\ a + b - 1 < b * q + b
  BY <1>2, <1>3 DEF jdiv_round_up
<1> HIDE DEF q
<1>5. a <= q * b /\ q * b < a + b
  BY <1>4
<1>6. q = 0 => q * b = 0
  OBVIOUS
<1>7. a > 0 => q > 0
  BY <1>4, <1>5, <1>6
<1> QED
  BY <1>4, <1>5, <1>7 DEF q

\* The square blocks, and those that are twice as wide or twice as high.
LEMMA TablesOfFunctions ==
  \A n \in 1 .. 16 :
    /\ Supported([w |-> n, h |-> n])
    /\ n <= 8 => Supported([w |-> 2 * n, h |-> n]) /\ Supported([w |-> n, h |-> 2 * n])
<1>1. \A n \in 1 .. 16 :
        /\ \E f \in F!ForwardDCT : f.w = n /\ f.h = n
        /\ n <= 8 => /\ \E f \in F!ForwardDCT : f.w = 2 * n /\ f.h = n
                     /\ \E f \in F!ForwardDCT : f.w = n /\ f.h = 2 * n
  BY DEF F!ForwardDCT, F!Function,
         F!jpeg_fdct_islow, F!jpeg_fdct_7x7, F!jpeg_fdct_6x6,
         F!jpeg_fdct_5x5, F!jpeg_fdct_4x4, F!jpeg_fdct_3x3, F!jpeg_fdct_2x2,
         F!jpeg_fdct_1x1, F!jpeg_fdct_9x9, F!jpeg_fdct_10x10,
         F!jpeg_fdct_11x11, F!jpeg_fdct_12x12, F!jpeg_fdct_13x13,
         F!jpeg_fdct_14x14, F!jpeg_fdct_15x15, F!jpeg_fdct_16x16,
         F!jpeg_fdct_16x8, F!jpeg_fdct_14x7, F!jpeg_fdct_12x6,
         F!jpeg_fdct_10x5, F!jpeg_fdct_8x4, F!jpeg_fdct_6x3, F!jpeg_fdct_4x2,
         F!jpeg_fdct_2x1, F!jpeg_fdct_8x16, F!jpeg_fdct_7x14,
         F!jpeg_fdct_6x12, F!jpeg_fdct_5x10, F!jpeg_fdct_4x8,
         F!jpeg_fdct_3x6, F!jpeg_fdct_2x4, F!jpeg_fdct_1x2
<1>2. \A n \in 1 .. 16 :
        /\ \E f \in I!InverseDCT : f.w = n /\ f.h = n
        /\ n <= 8 => /\ \E f \in I!InverseDCT : f.w = 2 * n /\ f.h = n
                     /\ \E f \in I!InverseDCT : f.w = n /\ f.h = 2 * n
  BY DEF I!InverseDCT, I!Function,
         I!jpeg_idct_islow, I!jpeg_idct_7x7, I!jpeg_idct_6x6,
         I!jpeg_idct_5x5, I!jpeg_idct_4x4, I!jpeg_idct_3x3, I!jpeg_idct_2x2,
         I!jpeg_idct_1x1, I!jpeg_idct_9x9, I!jpeg_idct_10x10,
         I!jpeg_idct_11x11, I!jpeg_idct_12x12, I!jpeg_idct_13x13,
         I!jpeg_idct_14x14, I!jpeg_idct_15x15, I!jpeg_idct_16x16,
         I!jpeg_idct_16x8, I!jpeg_idct_14x7, I!jpeg_idct_12x6,
         I!jpeg_idct_10x5, I!jpeg_idct_8x4, I!jpeg_idct_6x3, I!jpeg_idct_4x2,
         I!jpeg_idct_2x1, I!jpeg_idct_8x16, I!jpeg_idct_7x14,
         I!jpeg_idct_6x12, I!jpeg_idct_5x10, I!jpeg_idct_4x8,
         I!jpeg_idct_3x6, I!jpeg_idct_2x4, I!jpeg_idct_1x2
<1> QED
  BY <1>1, <1>2 DEF Supported

\* The first of the scales that satisfies its condition.
LEMMA EncoderSizeIsFirst ==
  ASSUME NEW c
  PROVE  EncoderSize(c) \in 1 .. 16
<1> DEFINE T == {k \in 1 .. 15 : c.num * k >= c.denom * c.block_size} \cup {16}
<1>1. EncoderSize(c) = Min(T)
  BY DEF EncoderSize, FirstOf
<1>2. T \subseteq 1 .. 16 /\ T # {}
  OBVIOUS
<1> HIDE DEF T
<1>3. T \subseteq Nat
  BY <1>2
<1>4. Min(T) \in T
  BY <1>2, <1>3, NatMin
<1> QED
  BY <1>1, <1>2, <1>4

\* The decoder, asked for the inverse scale, chooses what the encoder chose.
LEMMA DecoderInverts ==
  ASSUME NEW c, NEW k \in 1 .. 16, c.num = k, c.denom = c.block_size,
         c.block_size = 8
  PROVE  DecoderSize(c) = k
<1> DEFINE T == {n \in 1 .. 15 : c.num * c.block_size <= c.denom * n} \cup {16}
<1>1. DecoderSize(c) = Min(T)
  BY DEF DecoderSize, FirstOf
<1>2. T \subseteq 1 .. 16 /\ T # {} /\ k \in T /\ \A n \in T : k <= n
  OBVIOUS
<1> HIDE DEF T
<1>3. Min(T) \in T /\ \A n \in T : Min(T) <= n
  BY <1>2, NatMin
<1>4. Min(T) \in 1 .. 16
  BY <1>2, <1>3
<1> QED
  BY <1>1, <1>2, <1>3, <1>4

\* What the loop makes of the size of a DCT: it is doubled once or twice only
\* if it then has at most 16 samples and a whole number of them makes up for
\* the sampling factor.
LEMMA EnlargedSize ==
  ASSUME NEW min \in 1 .. 16, NEW fancy \in BOOLEAN,
         NEW factor \in 1 .. 4, NEW max \in factor .. 4
  PROVE  \E a \in {1, 2, 4} :
           /\ Enlarged(min, fancy, factor, max) = min * a
           /\ a > 1 => min * a <= 16 /\ max % (factor * a) = 0
<1> DEFINE Doubles(ssize) ==
             /\ min * ssize <= IF fancy THEN DCTSIZE ELSE DCTSIZE \div 2
             /\ max % (factor * ssize * 2) = 0
           Last(ssize) == /\ ~ Doubles(ssize)
                          /\ \A smaller \in {1, 2} : smaller < ssize => Doubles(smaller)
<1>1. Enlarged(min, fancy, factor, max) = min * (CHOOSE a \in {1, 2, 4} : Last(a))
  BY DEF Enlarged
<1>2. ~ Doubles(4)
  <2>1. factor * 4 * 2 \in 8 .. 32 /\ max \in 1 .. 4
    OBVIOUS
  <2>2. max % (factor * 4 * 2) = max
    BY <2>1
  <2> QED
    BY <2>1, <2>2
<1>3. \A a \in {1, 2} : Doubles(a) => min * (a * 2) <= 16 /\ max % (factor * (a * 2)) = 0
  <2> SUFFICES ASSUME NEW a \in {1, 2}, Doubles(a)
               PROVE  min * (a * 2) <= 16 /\ max % (factor * (a * 2)) = 0
    OBVIOUS
  <2>1. min * a <= 8
    BY DEF DCTSIZE
  <2>2. factor * a * 2 = factor * (a * 2) /\ min * (a * 2) = 2 * (min * a)
    OBVIOUS
  <2> QED
    BY <2>1, <2>2
<1> HIDE DEF Doubles
<1>4. \E a \in {1, 2, 4} : Last(a)
  <2>1. CASE ~ Doubles(1)
    BY <2>1
  <2>2. CASE Doubles(1) /\ ~ Doubles(2)
    BY <2>2
  <2>3. CASE Doubles(1) /\ Doubles(2)
    BY <1>2, <2>3
  <2> QED
    BY <2>1, <2>2, <2>3
<1>5. PICK a \in {1, 2, 4} : Last(a) /\ Enlarged(min, fancy, factor, max) = min * a
  BY <1>1, <1>4
<1>6. CASE a = 1
  BY <1>5, <1>6
<1>7. CASE a = 2
  <2>1. Doubles(1)
    BY <1>5, <1>7
  <2> QED
    BY <1>3, <1>5, <1>7, <2>1
<1>8. CASE a = 4
  <2>1. Doubles(2)
    BY <1>5, <1>8
  <2> QED
    BY <1>3, <1>5, <1>8, <2>1
<1> QED
  BY <1>6, <1>7, <1>8

\* A configuration, as far as the choice looks at it.
Configured(c) ==
  /\ c.block_size = DCTSIZE /\ c.fancy \in BOOLEAN
  /\ c.num \in Nat \ {0} /\ c.denom \in Nat \ {0}
  /\ c.h \in 1 .. 4 /\ c.hmax \in c.h .. 4
  /\ c.v \in 1 .. 4 /\ c.vmax \in c.v .. 4

\* The shapes of a component's blocks.
LEMMA ScaledShape ==
  ASSUME NEW c, Configured(c), NEW min \in 1 .. 16
  PROVE  \E a, b \in {1, 2, 4} :
           /\ ScaledSize(min, c) = [w |-> min * a, h |-> min * b]
           /\ a <= b * 2 /\ b <= a * 2
           /\ a > 1 => min * a <= 16 /\ c.hmax % (c.h * a) = 0
           /\ b > 1 => min * b <= 16 /\ c.vmax % (c.v * b) = 0
<1>1. PICK a \in {1, 2, 4} :
        /\ Enlarged(min, c.fancy, c.h, c.hmax) = min * a
        /\ a > 1 => min * a <= 16 /\ c.hmax % (c.h * a) = 0
  BY EnlargedSize DEF Configured
<1>2. PICK b \in {1, 2, 4} :
        /\ Enlarged(min, c.fancy, c.v, c.vmax) = min * b
        /\ b > 1 => min * b <= 16 /\ c.vmax % (c.v * b) = 0
  BY EnlargedSize DEF Configured
<1>3. ScaledSize(min, c) = Limited([w |-> min * a, h |-> min * b])
  BY <1>1, <1>2 DEF ScaledSize
<1>4. \A f, n \in 1 .. 4 : n % (f * 4) = 0 => n % (f * 2) = 0
  <2> TAKE f, n \in 1 .. 4
  <2>1. CASE f = 1
    BY <2>1
  <2>2. CASE f # 1
    <3>1. f * 4 \in 8 .. 16
      BY <2>2
    <3>2. n % (f * 4) = n
      BY <3>1
    <3> QED
      BY <3>2
  <2> QED
    BY <2>1, <2>2
<1>5. CASE a <= b * 2 /\ b <= a * 2
  <2>1. ~ min * a > min * b * 2 /\ ~ min * b > min * a * 2
    BY <1>5
  <2> QED
    BY <1>1, <1>2, <1>3, <1>5, <2>1 DEF Limited
<1>6. CASE a = 4 /\ b = 1
  <2>1. min * a > min * b * 2 /\ min * b * 2 = min * 2 /\ min * 2 <= 16
    BY <1>1, <1>6
  <2>2. ScaledSize(min, c) = [w |-> min * 2, h |-> min * b]
    BY <1>3, <2>1 DEF Limited
  <2>3. c.hmax % (c.h * 2) = 0
    BY <1>1, <1>4, <1>6 DEF Configured
  <2> QED
    BY <1>2, <1>6, <2>1, <2>2, <2>3
<1>7. CASE a = 1 /\ b = 4
  <2>1. ~ min * a > min * b * 2 /\ min * b > min * a * 2 /\ min * a * 2 = min * 2
        /\ min * 2 <= 16
    BY <1>2, <1>7
  <2>2. ScaledSize(min, c) = [w |-> min * a, h |-> min * 2]
    BY <1>3, <2>1 DEF Limited
  <2>3. c.vmax % (c.v * 2) = 0
    BY <1>2, <1>4, <1>7 DEF Configured
  <2> QED
    BY <1>1, <1>7, <2>1, <2>2, <2>3
<1> QED
  BY <1>5, <1>6, <1>7

\* Each of these shapes has its functions.
LEMMA ScaledIsSupported ==
  ASSUME NEW c, Configured(c), NEW min \in 1 .. 16
  PROVE  /\ Supported(ScaledSize(min, c))
         /\ ScaledSize(min, c) \in [w : 1 .. 16, h : 1 .. 16]
<1>1. PICK a \in {1, 2, 4}, b \in {1, 2, 4} :
        /\ ScaledSize(min, c) = [w |-> min * a, h |-> min * b]
        /\ a <= b * 2 /\ b <= a * 2
        /\ a > 1 => min * a <= 16
        /\ b > 1 => min * b <= 16
  BY ScaledShape
<1>2. min * a \in 1 .. 16 /\ min * b \in 1 .. 16
  BY <1>1
<1>3. CASE a = b
  BY <1>1, <1>2, <1>3, TablesOfFunctions
<1>4. CASE a = b * 2
  <2>1. min * a = 2 * (min * b) /\ min * b <= 8
    BY <1>2, <1>4
  <2> QED
    BY <1>1, <1>2, <2>1, TablesOfFunctions
<1>5. CASE b = a * 2
  <2>1. min * b = 2 * (min * a) /\ min * a <= 8
    BY <1>2, <1>5
  <2> QED
    BY <1>1, <1>2, <2>1, TablesOfFunctions
<1> QED
  BY <1>1, <1>3, <1>4, <1>5

\* The number of samples that stand for the pixels of a group still divides
\* it, if the sampling factor did.
LEMMA GroupIsIntegral ==
  ASSUME NEW c, Configured(c), NEW min \in 1 .. 16,
         c.hmax % c.h = 0, c.vmax % c.v = 0
  PROVE  Integral(Group(min, c), c)
<1>1. PICK a \in {1, 2, 4}, b \in {1, 2, 4} :
        /\ ScaledSize(min, c) = [w |-> min * a, h |-> min * b]
        /\ a > 1 => c.hmax % (c.h * a) = 0
        /\ b > 1 => c.vmax % (c.v * b) = 0
  BY ScaledShape
<1>2. \A f \in 1 .. 4, n \in {1, 2, 4} : (f * (min * n)) \div min = f * n
  <2> TAKE f \in 1 .. 4, n \in {1, 2, 4}
  <2>1. PICK x \in Nat : x = f * n
    OBVIOUS
  <2>2. f * (min * n) = x * min
    BY <2>1
  <2>3. (x * min) \div min = x
    OBVIOUS
  <2> QED
    BY <2>1, <2>2, <2>3
<1>3. Group(min, c) = [h |-> c.h * a, v |-> c.v * b]
  <2>1. (c.h * (min * a)) \div min = c.h * a /\ (c.v * (min * b)) \div min = c.v * b
    BY <1>2 DEF Configured
  <2> QED
    BY <1>1, <2>1 DEF Group
<1>4. c.hmax % (c.h * a) = 0 /\ c.vmax % (c.v * b) = 0
  BY <1>1 DEF Configured
<1> QED
  BY <1>3, <1>4 DEF Integral

\* What is cut into blocks of d, each of which becomes s samples, fills the
\* samples of all blocks but the last, and some of the last one's.
LEMMA BlocksHoldSamples ==
  ASSUME NEW n \in Nat \ {0}, NEW d \in Nat \ {0}, NEW s \in Nat \ {0}
  PROVE  LET blocks == jdiv_round_up(n, d)
         IN jdiv_round_up(n * s, d) \in (blocks - 1) * s + 1 .. blocks * s
<1> DEFINE B == jdiv_round_up(n, d)
           C == jdiv_round_up(n * s, d)
<1>1. n * s \in Nat
  OBVIOUS
<1>2. B \in Nat /\ n <= B * d /\ B * d < n + d
  BY RoundUp
<1>3. C \in Nat /\ n * s <= C * d /\ C * d < n * s + d
  BY <1>1, RoundUp
<1> HIDE DEF B, C
<1>4. \A x, y \in Int : x * d < y * d => x < y
  <2> SUFFICES ASSUME NEW x \in Int, NEW y \in Int, x >= y PROVE x * d >= y * d
    OBVIOUS
  <2>1. (x - y) * d >= 0
    OBVIOUS
  <2> QED
    BY <2>1
<1>5. C <= B * s
  <2>1. n * s <= (B * d) * s
    BY <1>2
  <2>2. (B * d) * s + d = (B * s + 1) * d
    BY <1>2
  <2>3. C * d < (B * s + 1) * d
    BY <1>1, <1>2, <1>3, <2>1, <2>2
  <2>4. C < B * s + 1
    BY <1>2, <1>3, <1>4, <2>3
  <2> QED
    BY <1>2, <1>3, <2>4
<1>6. (B - 1) * s < C
  <2>1. ((B - 1) * d) * s < n * s
    <3>1. (B - 1) * d < n
      BY <1>2
    <3>2. PICK x \in Int : x = (B - 1) * d
      BY <1>2
    <3>3. (n - x) * s > 0
      BY <3>1, <3>2
    <3> QED
      BY <3>2, <3>3
  <2>2. ((B - 1) * s) * d = ((B - 1) * d) * s
    BY <1>2
  <2>3. ((B - 1) * s) * d < C * d
    BY <1>1, <1>2, <1>3, <2>1, <2>2
  <2> QED
    BY <1>2, <1>3, <1>4, <2>3
<1>7. (B - 1) * s \in Int /\ B * s \in Int
  BY <1>2
<1> QED
  BY <1>3, <1>5, <1>6, <1>7 DEF B, C

\* The width of a picture after both conversions, and its blocks.
LEMMA WidthsAgree ==
  ASSUME NEW c, Configured(c), NEW width \in Nat \ {0}, NEW inverse,
         inverse.num = EncoderSize(c), inverse.denom = c.block_size,
         inverse.block_size = c.block_size
  PROVE  LET k      == EncoderSize(c)
             back   == output_width(inverse, jpeg_width(c, width))
             blocks == width_in_blocks(c, width)
             w      == ScaledSize(k, c).w
         IN /\ DecoderSize(inverse) = k
            /\ width <= back
            /\ (back - width - 1) * c.block_size < k
            /\ downsampled_width(c, width) \in (blocks - 1) * w + 1 .. blocks * w
<1> DEFINE k == EncoderSize(c)
           j == jpeg_width(c, width)
           back == output_width(inverse, j)
           w == ScaledSize(k, c).w
<1>1. k \in 1 .. 16 /\ c.block_size = 8 /\ c.h \in 1 .. 4 /\ c.hmax \in 1 .. 4
  BY EncoderSizeIsFirst DEF Configured, DCTSIZE
<1>2. DecoderSize(inverse) = k
  BY <1>1, DecoderInverts
<1>3. j \in Nat \ {0} /\ width * 8 <= j * k /\ j * k < width * 8 + k
  <2>1. width * 8 \in Nat /\ width * 8 > 0 /\ k \in Nat \ {0}
    BY <1>1
  <2>2. j = jdiv_round_up(width * 8, k)
    BY <1>1 DEF jpeg_width
  <2> HIDE DEF j, k
  <2> QED
    BY <2>1, <2>2, RoundUp
<1>4. w \in 1 .. 16
  BY <1>1, ScaledIsSupported
<1>5. back \in Nat /\ j * k <= back * 8 /\ back * 8 < j * k + 8
  <2>1. j * k \in Nat
    BY <1>1, <1>3
  <2>2. back = jdiv_round_up(j * k, 8)
    BY <1>1, <1>2 DEF output_width
  <2> HIDE DEF j, k, back
  <2> QED
    BY <2>1, <2>2, RoundUp
<1>6. downsampled_width(c, width) = jdiv_round_up(j * c.h * w, c.hmax * 8)
      /\ width_in_blocks(c, width) = jdiv_round_up(j * c.h, c.hmax * 8)
  BY <1>1 DEF downsampled_width, width_in_blocks
<1> HIDE DEF j, k, w, back
<1>7. width <= back /\ (back - width - 1) * 8 < k
  <2>1. PICK x \in Nat : x = j * k
    BY <1>1, <1>3
  <2> QED
    BY <1>1, <1>3, <1>5, <2>1
<1>8. LET blocks == width_in_blocks(c, width)
      IN downsampled_width(c, width) \in (blocks - 1) * w + 1 .. blocks * w
  <2>1. j * c.h \in Nat \ {0} /\ c.hmax * 8 \in Nat \ {0} /\ w \in Nat \ {0}
    BY <1>1, <1>3, <1>4
  <2> QED
    BY <1>6, <2>1, BlocksHoldSamples
<1> QED
  BY <1>1, <1>2, <1>7, <1>8 DEF j, k, w, back
-----------------------------------------------------------------------------
\* What is known until the first block is fed: the configuration, and that the
\* sizes come from it.
SizeInv ==
  /\ stage \in {"SetUp", "Feed"} => Configured(cinfo) /\ cinfo \in Configurations
  /\ stage = "Feed" => size = ScaledSize(EncoderSize(cinfo), cinfo)
  /\ EverySizeIsSupported /\ RatiosStayIntegral
  /\ size \in [w : 1 .. 16, h : 1 .. 16]

\* The set of configurations is what it was meant to be.
LEMMA AllConfigured ==
  ASSUME NEW c \in Configurations, c.h <= c.hmax, c.v <= c.vmax
  PROVE  Configured(c) /\ c.width \in Nat \ {0}
  BY CodecAssumption DEF Configurations, Configured

\* Setting up chooses a supported size.
LEMMA SetUpKeeps == ASSUME SizeInv, SetUp PROVE SizeInv'
<1> DEFINE min == EncoderSize(cinfo)
           s == ScaledSize(min, cinfo)
<1>1. Configured(cinfo) /\ cinfo \in Configurations /\ stage = "SetUp"
  BY DEF SetUp, SizeInv
<1>2. min \in 1 .. 16
  BY EncoderSizeIsFirst
<1>3. Supported(s) /\ s \in [w : 1 .. 16, h : 1 .. 16]
  BY <1>1, <1>2, ScaledIsSupported
<1>4. cinfo.hmax % cinfo.h = 0 /\ cinfo.vmax % cinfo.v = 0
        => Integral(Group(min, cinfo), cinfo)
  BY <1>1, <1>2, GroupIsIntegral
<1>5. /\ size' = s /\ cinfo' = cinfo
      /\ stage' = IF ~ Integral(Group(min, cinfo), cinfo)
                  THEN "JERR_FRACT_SAMPLE_NOTIMPL" ELSE "Feed"
  BY <1>3 DEF SetUp
<1> HIDE DEF min, s
<1>6. EverySizeIsSupported' /\ RatiosStayIntegral'
  BY <1>4, <1>5 DEF EverySizeIsSupported, RatiosStayIntegral
<1>7. (stage \in {"SetUp", "Feed"} => Configured(cinfo) /\ cinfo \in Configurations)'
  BY <1>1, <1>5 DEF Configured, Configurations
<1> QED
  BY <1>3, <1>5, <1>6, <1>7 DEF SizeInv, min, s

\* The sizes are settled before any sample is looked at, and stay.
THEOREM SizesAreSettled == Spec => []SizeInv
<1>1. Init => SizeInv
  BY AllConfigured DEF Init, SizeInv, EverySizeIsSupported, RatiosStayIntegral, DCTSIZE
<1>2. SizeInv /\ [Next]_vars => SizeInv'
  <2> SUFFICES ASSUME SizeInv, [Next]_vars PROVE SizeInv'
    OBVIOUS
  <2>1. CASE SetUp
    BY <2>1, SetUpKeeps
  <2>2. CASE (\E picture \in Pictures : Feed(picture)) \/ Transform
    <3>1. size' = size /\ stage' \notin {"SetUp", "Feed", "JERR_BAD_DCTSIZE",
                                          "JERR_FRACT_SAMPLE_NOTIMPL"}
      BY <2>2 DEF Feed, Transform, ForwardRows, ForwardColumns, Quantize,
                  InverseColumns, InverseRows, Limit
    <3> QED
      BY <3>1 DEF SizeInv, EverySizeIsSupported, RatiosStayIntegral
  <2>3. CASE UNCHANGED vars
    BY <2>3 DEF vars, SizeInv, EverySizeIsSupported, RatiosStayIntegral, Configured,
                Configurations
  <2> QED
    BY <2>1, <2>2, <2>3 DEF Next
<1> QED
  BY <1>1, <1>2, PTL DEF Spec

\* Whatever the scale and the sampling factors, there are a forward and an
\* inverse DCT for the size that is chosen (jcdctmgr.c 180-369).
THEOREM SizesAreSupported == Spec => []EverySizeIsSupported
<1>1. SizeInv => EverySizeIsSupported
  BY DEF SizeInv
<1> QED
  BY <1>1, SizesAreSettled, PTL

\* Enlarging the DCT never turns sampling factors that divide the largest ones
\* into ones that the resampling refuses (jdmaster.c 102-134, jcsample.c 478-538).
THEOREM RatiosAreIntegral == Spec => []RatiosStayIntegral
<1>1. SizeInv => RatiosStayIntegral
  BY DEF SizeInv
<1> QED
  BY <1>1, SizesAreSettled, PTL

\* Compressing at any scale and decompressing at the inverse one loses no
\* column of the picture, and no block is to spare (jcmaster.c 52-205,
\* jdinput.c 57-204, jdmaster.c 102-134).
THEOREM ColumnsAreKept == Spec => []NoColumnIsLost
<1>1. SizeInv => NoColumnIsLost
  <2> SUFFICES ASSUME SizeInv, stage = "Feed" PROVE NoColumnIsLost
    BY DEF NoColumnIsLost
  <2>1. /\ Configured(cinfo) /\ cinfo \in Configurations
        /\ size = ScaledSize(EncoderSize(cinfo), cinfo)
    BY DEF SizeInv
  <2> DEFINE inverse == [cinfo EXCEPT !.num = EncoderSize(cinfo), !.denom = cinfo.block_size]
  <2>2. /\ inverse.num = EncoderSize(cinfo) /\ inverse.denom = cinfo.block_size
        /\ inverse.block_size = cinfo.block_size /\ cinfo.width \in Nat \ {0}
    BY <2>1, AllConfigured DEF Configurations, Configured
  <2> HIDE DEF inverse
  <2>3. LET k      == EncoderSize(cinfo)
            back   == output_width(inverse, jpeg_width(cinfo, cinfo.width))
            blocks == width_in_blocks(cinfo, cinfo.width)
            w      == ScaledSize(k, cinfo).w
        IN /\ DecoderSize(inverse) = k
           /\ cinfo.width <= back
           /\ (back - cinfo.width - 1) * cinfo.block_size < k
           /\ downsampled_width(cinfo, cinfo.width) \in (blocks - 1) * w + 1 .. blocks * w
    BY <2>1, <2>2, WidthsAgree
  <2> QED
    BY <2>1, <2>3 DEF NoColumnIsLost, inverse
<1> QED
  BY <1>1, SizesAreSettled, PTL
=============================================================================
