------------------------------- MODULE Codec -------------------------------
(***************************************************************************)
(* How a picture becomes words on the bus of the panel: signagelib's       *)
(* packing and encodings, the numbers of waveforms on their way from the   *)
(* command line to the controller, and what the controller makes of it.    *)
(*                                                                         *)
(* A picture is [w, h, at]: at[<<x, y>>] is a colour, <<r, g, b>> in the   *)
(* 16 bits per channel of color.Color.  Bytes are 0..255, a shift to the   *)
(* right is a division.  An int32 is -Half..Half - 1.                      *)
(***************************************************************************)
EXTENDS Integers, Sequences

CONSTANT Half  \* 2^31

ASSUME WidthAssumption == Half \in Nat \ {0}

Channel == 0..65535
Colour  == Channel \X Channel \X Channel
Byte    == 0..255
Nibble  == 0..15
Side    == 1..65535  \* widths and heights that a word can hold

Points(w, h) == (0..(w - 1)) \X (0..(h - 1))

Pictures(w, h) == [w : {w}, h : {h}, at : [Points(w, h) -> Colour]]

-----------------------------------------------------------------------------
(* bitmap.go.                                                              *)

AtMost(n, max) == IF n > max THEN max ELSE n

Weighted(c) == c[1] * 54 + c[2] * 183 + c[3] * 19

luma8(c)      == AtMost(Weighted(c) \div 16777216, 255)  \* >> 24
lumaNibble(c) == AtMost(Weighted(c) \div 1048576, 15)    \* >> 20

(* What PackPNGGrayscale4 takes: an area, and an even width.               *)
Packs4(png) == png.w > 0 /\ png.h > 0 /\ png.w % 2 = 0

(* Two pixels to a byte, row by row, low nibble first.                     *)
PackPNGGrayscale4(png) ==
  LET k == png.w \div 2
      nibble(x, y) == lumaNibble(png.at[<<x, y>>])
  IN  [i \in 1..(k * png.h) |->
         LET x == 2 * ((i - 1) % k)
             y == (i - 1) \div k
         IN  16 * nibble(x + 1, y) + nibble(x, y)]

(* Eight pixels to a byte, most significant bit first; here a byte is the  *)
(* set of its bits that are set.                                           *)
PackPNGBinary1(png) ==
  LET k == png.w \div 8
  IN  [i \in 1..(k * png.h) |->
         {bit \in 0..7 :
            luma8(png.at[<<8 * ((i - 1) % k) + bit, (i - 1) \div k>>]) > 127}]

-----------------------------------------------------------------------------
(* it8951.go and display_linux.go: words of 16 bits.                       *)

Word(n) == n % 65536

NoCode == 4

EncodeBPP(bpp) == CASE bpp = 2 -> 0 [] bpp = 4 -> 2 [] bpp = 8 -> 3
                    [] OTHER -> NoCode

(* LdImgInfo.Encode, little-endian and not rotated, as the driver uses it. *)
Encode(code) == (code % 4) * 16

NoRegion == [x |-> 0, y |-> 0, w |-> 0, h |-> 0]

(* The words after LD_IMG_AREA.  No region means the image's own size.     *)
AreaWords(bpp, w, h, region) ==
  LET r == IF region = NoRegion THEN [x |-> 0, y |-> 0, w |-> w, h |-> h]
                                ELSE region
  IN  <<Encode(EncodeBPP(bpp)), Word(r.x), Word(r.y), Word(r.w), Word(r.h)>>

Int32(n) == ((n + Half) % (2 * Half)) - Half

(* displayservice.go: without a region, the first side whose square is not *)
(* below the number of pixels, both of them in 32 bits.  Sides beyond Half *)
(* have the same squares again: without one of these the loop never ends.  *)
Sides(total, bpp) ==
  {n \in 1..(Half - 1) : Int32(n * n) >= Int32((total * 8) \div bpp)}

HasSide(region, total, bpp) == region # NoRegion \/ Sides(total, bpp) # {}

dimsFromHeader(region, total, bpp) ==
  LET side == CHOOSE n \in Sides(total, bpp) :
                \A m \in Sides(total, bpp) : n <= m
  IN  IF region # NoRegion THEN <<region.w, region.h>> ELSE <<side, side>>

-----------------------------------------------------------------------------
(* Waveforms: the k-th name is k in the protocol and k - 1 in signagelib   *)
(* and on the wire.                                                        *)

WaveformNames == <<"INIT", "DU", "GC16", "GL16", "GLR16", "GLD16", "A2">>
Modes == 1..7
Unspecified == 0

(* The command line: a name of no waveform is refused.                     *)
Known(s) == \E m \in Modes : WaveformNames[m] = s
parseWaveform(s) == CHOOSE m \in Modes : WaveformNames[m] = s

(* Mutated: the number goes to the controller as it is ("Values match the  *)
(* canonical IT8951 firmware mode IDs", signage.proto:50).                 *)
translateModeCast(m) == m

(* displayservice.go: by name; any other number is GC16.                   *)
translateMode(m) == IF m \in Modes THEN m - 1 ELSE 2

(* waveform.go, whose numbers are those of the firmware.                   *)
ModeString(n) == IF n + 1 \in Modes THEN WaveformNames[n + 1] ELSE "Unknown"

-----------------------------------------------------------------------------
(* External: what the controller shows of pixels it was given with words.  *)

Shown(pixels, words) ==
  LET w == words[4]
      h == words[5]
      byte(x, y) == pixels[y * (w \div 2) + x \div 2 + 1]
  IN  [p \in Points(w, h) |->
         IF p[1] % 2 = 0 THEN byte(p[1], p[2]) % 16
                         ELSE byte(p[1], p[2]) \div 16]

(* The pixels are what the words announce, at 4 bits each.                 *)
Complete(pixels, words) ==
  /\ words[1] = 32
  /\ words[2] = 0 /\ words[3] = 0
  /\ 2 * Len(pixels) = words[4] * words[5]

(* The picture itself, in 16 levels.                                       *)
Levels(png) == [p \in Points(png.w, png.h) |-> lumaNibble(png.at[p])]
=============================================================================
