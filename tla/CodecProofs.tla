---------------------------- MODULE CodecProofs ----------------------------
(* Theorems about Codec for pictures of any size and content.               *)
EXTENDS Codec, FiniteSetTheorems, WellFoundedInduction, TLAPS

LEMMA ChannelRange == \A n \in Channel : n \in Nat /\ n < 65536
<1>1. \A max \in Int : \A n \in 0..max : n \in Nat /\ n < max + 1
  OBVIOUS
<1>2. 65535 + 1 = 65536
  BY SMT
<1> QED
  BY SMT, <1>1, <1>2 DEF Channel

LEMMA ColourFields ==
  ASSUME NEW c \in Colour
  PROVE  /\ c[1] \in Nat /\ c[1] < 65536
         /\ c[2] \in Nat /\ c[2] < 65536
         /\ c[3] \in Nat /\ c[3] < 65536
<1>1. c[1] \in Channel /\ c[2] \in Channel /\ c[3] \in Channel
  BY DEF Colour
<1> QED
  BY <1>1, ChannelRange

(* The weights add up to 256, so a colour weighs less than 2^24.            *)
LEMMA WeightedRange ==
  ASSUME NEW c \in Colour
  PROVE  Weighted(c) \in Nat /\ Weighted(c) < 16777216
<1>1. \A x, y, z \in Nat :
        x < 65536 /\ y < 65536 /\ z < 65536
          => /\ x * 54 + y * 183 + z * 19 < 16777216
             /\ x * 54 + y * 183 + z * 19 \in Nat
  BY SMT
<1> QED
  BY SMT, <1>1, ColourFields DEF Weighted

LEMMA NibbleRange ==
  ASSUME NEW c \in Colour
  PROVE  lumaNibble(c) \in Nibble
<1>1. \A n \in Nat : n < 16777216 => AtMost(n \div 1048576, 15) \in Nibble
  BY SMT DEF AtMost, Nibble
<1> QED
  BY SMT, <1>1, WeightedRange DEF lumaNibble

(* Of every colour luma8 is 0: the shift takes a sum of 24 bits to nothing. *)
THEOREM LumaLost == \A c \in Colour : luma8(c) = 0
<1>1. \A n \in Nat : n < 16777216 => AtMost(n \div 16777216, 255) = 0
  BY SMT DEF AtMost
<1> QED
  BY SMT, <1>1, WeightedRange DEF luma8

(* A grey keeps its four most significant bits: the weights and the shift   *)
(* of lumaNibble do not distort, and it never has to be cut to 15.          *)
THEOREM GreysKept ==
  \A g \in Channel : lumaNibble(<<g, g, g>>) = g \div 4096
<1> SUFFICES ASSUME NEW g \in Channel
             PROVE  lumaNibble(<<g, g, g>>) = g \div 4096
  OBVIOUS
<1>1. g \in Nat /\ g < 65536
  BY ChannelRange
<1>2. Weighted(<<g, g, g>>) = 256 * g
  BY SMT, <1>1 DEF Weighted
<1>3. AtMost((256 * g) \div 1048576, 15) = g \div 4096
  BY SMT, <1>1 DEF AtMost
<1> QED
  BY SMT, <1>2, <1>3 DEF lumaNibble

(* Division by any number, once the quotient and the rest are known.        *)
LEMMA Quotient ==
  ASSUME NEW k \in Nat, k > 0, NEW y \in Nat, NEW q \in 0..(k - 1)
  PROVE  (y * k + q) \div k = y /\ (y * k + q) % k = q
<1> DEFINE a == y * k + q
           d == a \div k
           m == a % k
<1>1. a \in Nat /\ d \in Int /\ m \in 0..(k - 1) /\ a = k * d + m
  OBVIOUS
<1>2. k * (y - d) = m - q
  BY <1>1
<1>3. ASSUME y - d >= 1 PROVE FALSE
  <2>1. k * (y - d) >= k
    BY <1>1, <1>3
  <2> HIDE DEF a, d, m
  <2> QED
    BY <1>1, <1>2, <2>1
<1>4. ASSUME d - y >= 1 PROVE FALSE
  <2>1. k * (d - y) >= k /\ k * (d - y) = -(k * (y - d))
    BY <1>1, <1>4
  <2> HIDE DEF a, d, m
  <2> QED
    BY <1>1, <1>2, <2>1
<1>5. d = y
  BY <1>1, <1>3, <1>4
<1>6. m = q
  BY <1>1, <1>2, <1>5
<1> QED
  BY <1>5, <1>6

(* Position i of h rows of k bytes is in a column and in a row.             *)
LEMMA Position ==
  ASSUME NEW k \in Nat, k > 0, NEW h \in Nat, NEW i \in 1..(k * h)
  PROVE  (i - 1) % k \in 0..(k - 1) /\ (i - 1) \div k \in 0..(h - 1)
<1> DEFINE d == (i - 1) \div k
           m == (i - 1) % k
<1>1. k * h \in Nat
  OBVIOUS
<1>2. i - 1 \in Nat /\ i - 1 < k * h
  BY <1>1
<1>3. d \in Nat /\ m \in 0..(k - 1) /\ i - 1 = k * d + m
  BY <1>2
<1>4. ASSUME d >= h PROVE FALSE
  <2>1. k * d >= k * h
    BY <1>3, <1>4
  <2> HIDE DEF d, m
  <2> QED
    BY <1>1, <1>2, <1>3, <2>1
<1> QED
  BY <1>3, <1>4

LEMMA PixelColour ==
  ASSUME NEW w \in Nat, NEW h \in Nat, NEW png \in Pictures(w, h),
         NEW x \in 0..(w - 1), NEW y \in 0..(h - 1)
  PROVE  png.w = w /\ png.h = h /\ png.at[<<x, y>>] \in Colour
BY DEF Pictures, Points

(* Whatever the picture, packed to one bit it is black.                     *)
THEOREM BinaryBlack ==
  ASSUME NEW w \in Nat, NEW h \in Nat, w > 0, w % 8 = 0,
         NEW png \in Pictures(w, h)
  PROVE  \A i \in DOMAIN PackPNGBinary1(png) : PackPNGBinary1(png)[i] = {}
<1> DEFINE k == w \div 8
<1>1. k \in Nat /\ k > 0 /\ w = 8 * k
  BY SMT
<1>2. png.w = w /\ png.h = h
  BY DEF Pictures
<1> DEFINE colour(i, bit) == png.at[<<8 * ((i - 1) % k) + bit, (i - 1) \div k>>]
<1>3. PackPNGBinary1(png)
        = [i \in 1..(k * h) |-> {bit \in 0..7 : luma8(colour(i, bit)) > 127}]
  BY <1>1, <1>2 DEF PackPNGBinary1
<1> HIDE DEF k
<1>4. ASSUME NEW i \in 1..(k * h), NEW bit \in 0..7
      PROVE  luma8(colour(i, bit)) = 0
  <2>1. (i - 1) % k \in 0..(k - 1) /\ (i - 1) \div k \in 0..(h - 1)
    BY <1>1, Position
  <2>2. 8 * ((i - 1) % k) + bit \in 0..(w - 1)
    BY <1>1, <2>1, SMT
  <2>3. colour(i, bit) \in Colour
    BY <2>1, <2>2, PixelColour
  <2> QED
    BY <2>3, LumaLost
<1> HIDE DEF colour
<1> QED
  BY <1>3, <1>4

-----------------------------------------------------------------------------
(* The words of a picture loaded as signage-cli does.                       *)
LEMMA FullArea ==
  ASSUME NEW w \in Nat, NEW h \in Nat, w < 65536, h < 65536, w > 0
  PROVE  AreaWords(4, w, h, [x |-> 0, y |-> 0, w |-> w, h |-> h])
           = <<32, 0, 0, w, h>>
<1> DEFINE full == [x |-> 0, y |-> 0, w |-> w, h |-> h]
<1>1. Encode(EncodeBPP(4)) = 32
  BY DEF Encode, EncodeBPP
<1>2. Word(0) = 0 /\ Word(w) = w /\ Word(h) = h
  BY SMT DEF Word
<1>3. full # NoRegion
  <2>1. full.w # NoRegion.w
    BY DEF NoRegion
  <2> QED
    BY <2>1
<1>4. full.x = 0 /\ full.y = 0 /\ full.w = w /\ full.h = h
  OBVIOUS
<1> HIDE DEF full
<1>5. AreaWords(4, w, h, full)
        = <<Encode(EncodeBPP(4)), Word(full.x), Word(full.y), Word(full.w),
            Word(full.h)>>
  BY <1>3 DEF AreaWords
<1>6. AreaWords(4, w, h, full) = <<32, 0, 0, w, h>>
  BY <1>1, <1>2, <1>4, <1>5
<1> QED
  BY <1>6 DEF full

(* What PackPNGGrayscale4 makes of a picture, with the words it is sent     *)
(* with, is the picture: every pixel, in the place and of the level it has. *)
THEOREM PackFaithful ==
  ASSUME NEW w \in Nat, NEW h \in Nat, w < 65536, h < 65536,
         NEW png \in Pictures(w, h), Packs4(png)
  PROVE  LET pixels == PackPNGGrayscale4(png)
             words  == AreaWords(4, w, h, [x |-> 0, y |-> 0, w |-> w, h |-> h])
         IN  Complete(pixels, words) /\ Shown(pixels, words) = Levels(png)
<1> DEFINE k == w \div 2
           nibble(x, y) == lumaNibble(png.at[<<x, y>>])
           pixels == PackPNGGrayscale4(png)
           words == AreaWords(4, w, h, [x |-> 0, y |-> 0, w |-> w, h |-> h])
<1>1. png.w = w /\ png.h = h /\ w > 0 /\ h > 0 /\ w % 2 = 0
  BY DEF Pictures, Packs4
<1>2. k \in Nat /\ k > 0 /\ w = 2 * k
  BY <1>1, SMT
<1>3. words = <<32, 0, 0, w, h>>
  BY <1>1, FullArea
<1>4. pixels = [i \in 1..(k * h) |->
                  16 * nibble(2 * ((i - 1) % k) + 1, (i - 1) \div k)
                    + nibble(2 * ((i - 1) % k), (i - 1) \div k)]
  BY <1>1 DEF PackPNGGrayscale4
<1> HIDE DEF k, words, pixels
<1>5. k * h \in Nat /\ 2 * (k * h) = w * h
  BY <1>2
<1>6. Complete(pixels, words)
  <2>1. Len(pixels) = k * h
    BY <1>4, <1>5
  <2> QED
    BY <1>3, <1>5, <2>1 DEF Complete
<1>7. ASSUME NEW x \in 0..(w - 1), NEW y \in 0..(h - 1)
      PROVE  nibble(x, y) \in 0..15
  BY <1>7, PixelColour, NibbleRange DEF Nibble
<1>8. ASSUME NEW x \in 0..(w - 1), NEW y \in 0..(h - 1)
      PROVE  (IF x % 2 = 0 THEN pixels[y * k + x \div 2 + 1] % 16
                           ELSE pixels[y * k + x \div 2 + 1] \div 16)
               = nibble(x, y)
  <2> DEFINE q == x \div 2
             i == y * k + q + 1
  <2>1. q \in 0..(k - 1) /\ (x = 2 * q \/ x = 2 * q + 1) /\ y \in Nat
    BY <1>2
  <2>2. (y * k + q) \div k = y /\ (y * k + q) % k = q
    BY <1>2, <2>1, Quotient
  <2>3. i \in 1..(k * h) /\ i - 1 = y * k + q
    <3>1. y * k + k <= h * k /\ y * k \in Nat /\ h * k = k * h
      <4>1. \A a, b, c \in Nat : a + 1 <= b => a * c + c <= b * c
        OBVIOUS
      <4> QED
        BY <1>1, <1>2, <2>1, <4>1
    <3> HIDE DEF q
    <3> QED
      BY <1>2, <1>5, <2>1, <3>1
  <2>4. pixels[i] = 16 * nibble(2 * q + 1, y) + nibble(2 * q, y)
    <3> HIDE DEF i, q, nibble
    <3> QED
      BY <1>4, <2>2, <2>3
  <2>5. nibble(2 * q + 1, y) \in 0..15 /\ nibble(2 * q, y) \in 0..15
    <3>1. 2 * q + 1 \in 0..(w - 1) /\ 2 * q \in 0..(w - 1)
      BY <1>2, <2>1
    <3> HIDE DEF q, nibble
    <3> QED
      BY <1>7, <3>1
  <2>6. \A a, b \in 0..15 : (16 * a + b) % 16 = b /\ (16 * a + b) \div 16 = a
    BY SMT
  <2>7. x % 2 = 0 <=> x = 2 * q
    OBVIOUS
  <2> HIDE DEF i, nibble, q
  <2>8. pixels[i] % 16 = nibble(2 * q, y) /\ pixels[i] \div 16 = nibble(2 * q + 1, y)
    BY <2>4, <2>5, <2>6
  <2>9. (IF x % 2 = 0 THEN pixels[i] % 16 ELSE pixels[i] \div 16) = nibble(x, y)
    BY <2>1, <2>7, <2>8
  <2> QED
    BY <2>9 DEF i, q
<1>9. Shown(pixels, words) = Levels(png)
  <2> HIDE DEF nibble
  <2>1. Shown(pixels, words)
          = [p \in Points(w, h) |->
               IF p[1] % 2 = 0 THEN pixels[p[2] * k + p[1] \div 2 + 1] % 16
                               ELSE pixels[p[2] * k + p[1] \div 2 + 1] \div 16]
    BY <1>3 DEF Shown, k
  <2>2. Levels(png) = [p \in Points(w, h) |-> lumaNibble(png.at[p])]
    BY <1>1 DEF Levels
  <2>3. ASSUME NEW p \in Points(w, h)
        PROVE  /\ p[1] \in 0..(w - 1) /\ p[2] \in 0..(h - 1)
               /\ lumaNibble(png.at[p]) = nibble(p[1], p[2])
    <3>1. p = <<p[1], p[2]>> /\ p[1] \in 0..(w - 1) /\ p[2] \in 0..(h - 1)
      BY DEF Points
    <3> QED
      BY <3>1 DEF nibble
  <2> QED
    BY <1>8, <2>1, <2>2, <2>3
<1> QED
  BY <1>6, <1>9 DEF pixels, words

-----------------------------------------------------------------------------
(* Nonnegative numbers below Half are themselves in 32 bits.                *)
LEMMA Int32Small ==
  ASSUME NEW n \in 0..(Half - 1)
  PROVE  Int32(n) = n
<1>1. Half \in Nat \ {0}
  BY WidthAssumption
<1>2. n + Half \in 0..(2 * Half - 1)
  BY <1>1
<1>3. (n + Half) % (2 * Half) = n + Half
  BY <1>1, <1>2
<1> QED
  BY <1>1, <1>3 DEF Int32

LEMMA SquareGrows ==
  ASSUME NEW m \in Nat, NEW n \in Nat, m <= n
  PROVE  m * m <= n * n /\ m * m \in Nat /\ m <= m * m
<1>1. m * m <= n * m
  OBVIOUS
<1>2. n * m <= n * n
  OBVIOUS
<1>3. m * m \in Nat /\ n * m \in Nat /\ n * n \in Nat
  OBVIOUS
<1>4. m <= m * m
  OBVIOUS
<1> QED
  BY <1>1, <1>2, <1>3, <1>4

LEMMA LeastMember ==
  ASSUME NEW k \in Nat, NEW T, T \subseteq 1..k, T # {}
  PROVE  \E n \in T : \A m \in T : n <= m
<1> DEFINE S == 1..k
           Initials == {1..n : n \in T}
<1>1. IsFiniteSet(S)
  BY FS_Interval
<1>2. Initials \subseteq FiniteSubsetsOf(S)
  <2> SUFFICES ASSUME NEW n \in T
               PROVE  1..n \in FiniteSubsetsOf(S)
    OBVIOUS
  <2>1. 1..n \in SUBSET S
    OBVIOUS
  <2> QED
    BY <1>1, <2>1, FS_Subset DEF FiniteSubsetsOf
<1>3. Initials # {}
  OBVIOUS
<1> HIDE DEF Initials
<1>4. PICK I \in Initials :
        \A J \in Initials : ~(<<J, I>> \in StrictSubsetOrdering(S))
  BY <1>2, <1>3, FS_StrictSubsetOrderingWellFounded, WFMin
<1> USE DEF Initials
<1>5. PICK n \in T : I = 1..n
  OBVIOUS
<1>6. ASSUME NEW m \in T, m < n
      PROVE  FALSE
  <2>1. 1..m \in Initials /\ 1..m \in SUBSET S /\ I \in SUBSET S
    BY <1>5
  <2>2. 1..m \subseteq I /\ 1..m # I
    BY <1>5, <1>6
  <2> HIDE DEF Initials
  <2> QED
    BY <1>4, <2>1, <2>2 DEF StrictSubsetOrdering
<1> QED
  BY <1>5, <1>6

(* Without a region, as long as a square whose own number of pixels fits    *)
(* 32 bits has room for the pixels, the handler's loop ends, at the least   *)
(* square that has: no smaller one would hold them.                         *)
THEOREM LeastSquare ==
  ASSUME NEW total \in Nat, NEW bpp \in Nat \ {0},
         NEW s \in Nat \ {0}, s * s < Half, (total * 8) \div bpp <= s * s
  PROVE  LET pixels == (total * 8) \div bpp
             side == dimsFromHeader(NoRegion, total, bpp)[1]
         IN  /\ HasSide(NoRegion, total, bpp)
             /\ dimsFromHeader(NoRegion, total, bpp) = <<side, side>>
             /\ side * side >= pixels
             /\ \A m \in 1..(side - 1) : m * m < pixels
<1> DEFINE pixels == (total * 8) \div bpp
           Squares == Sides(total, bpp)
           side == CHOOSE n \in Squares : \A m \in Squares : n <= m
<1>1. pixels \in Nat /\ Half \in Nat \ {0}
  BY WidthAssumption
<1>2. Squares = {n \in 1..(Half - 1) : Int32(n * n) >= Int32(pixels)}
  BY DEF Sides
<1>3. pixels <= s * s
  OBVIOUS
<1> HIDE DEF pixels, Squares
<1>4. ASSUME NEW n \in 1..s
      PROVE  n \in 1..(Half - 1) /\ n * n \in 0..(Half - 1)
  BY <1>1, <1>4, SquareGrows
<1>5. Int32(pixels) = pixels
  <2>1. s * s \in Nat
    OBVIOUS
  <2>2. pixels \in 0..(Half - 1)
    BY <1>1, <1>3, <2>1
  <2> QED
    BY <2>2, Int32Small
<1>6. \A n \in 1..s : n \in Squares <=> n * n >= pixels
  BY <1>2, <1>4, <1>5, Int32Small
<1>7. s \in Squares
  BY <1>3, <1>6
<1>8. Half - 1 \in Nat /\ Squares \subseteq 1..(Half - 1)
  BY <1>1, <1>2
<1>9. side \in Squares /\ \A m \in Squares : side <= m
  BY <1>7, <1>8, LeastMember
<1>10. dimsFromHeader(NoRegion, total, bpp) = <<side, side>>
  BY DEF dimsFromHeader, Squares
<1>11. HasSide(NoRegion, total, bpp)
  BY <1>7 DEF HasSide, Squares
<1> HIDE DEF side
<1>12. side \in 1..s
  BY <1>7, <1>8, <1>9
<1>13. side * side >= pixels
  BY <1>6, <1>9, <1>12
<1>14. \A m \in 1..(side - 1) : m * m < pixels
  <2> SUFFICES ASSUME NEW m \in 1..(side - 1), m * m >= pixels
               PROVE  FALSE
    BY <1>1, <1>12
  <2>1. m \in 1..s /\ ~(side <= m)
    BY <1>12
  <2>2. m \in Squares
    BY <1>6, <2>1
  <2> QED
    BY <1>9, <2>1, <2>2
<1> QED
  BY <1>10, <1>11, <1>13, <1>14 DEF pixels

-----------------------------------------------------------------------------
(* A waveform named on the command line is the one that is drawn, through   *)
(* the numbers of the protocol and those of the controller.                 *)
THEOREM WaveformKept ==
  \A s : Known(s) => ModeString(translateMode(parseWaveform(s))) = s
<1> SUFFICES ASSUME NEW s, Known(s)
             PROVE  ModeString(translateMode(parseWaveform(s))) = s
  OBVIOUS
<1> DEFINE m == parseWaveform(s)
<1>1. m \in Modes /\ WaveformNames[m] = s
  BY DEF Known, parseWaveform
<1> HIDE DEF m
<1>2. translateMode(m) = m - 1 /\ m \in Int
  BY <1>1 DEF translateMode, Modes
<1>3. ModeString(m - 1) = WaveformNames[m]
  <2>1. (m - 1) + 1 = m
    BY <1>2
  <2> QED
    BY <1>1, <2>1 DEF ModeString
<1> QED
  BY <1>1, <1>2, <1>3 DEF m
=============================================================================
