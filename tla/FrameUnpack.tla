---------------------------- MODULE FrameUnpack ----------------------------
(***************************************************************************)
(* How streaming2() and streaming() (src/main.c) unpack a frame: rows of   *)
(* 64 bit words, each with two pixels of three 10 bit components, into     *)
(* rows of bytes, three for each pixel.  A row of words is padded to a     *)
(* multiple of 8 pixels, a row of bytes is not.                            *)
(*                                                                         *)
(* A word is the pair of its bits 0-29 and its bits 30-59, each a number;  *)
(* bits 60-63 are not used.  The sizes and what the card delivers are      *)
(* parameters, so that the arithmetic is checked and proved for more than  *)
(* 1920 x 1080, which needs no padding.                                    *)
(***************************************************************************)
EXTENDS Integers

CONSTANTS Widths, Heights,   \* values of FRAME_WIDTH and FRAME_HEIGHT
          Inputs(_, _),      \* Inputs(w, h): what the input buffer may hold
          Old                \* what the output buffer holds at first

Byte == 0 .. 255
Pixels == { p \in Nat : p < 1073741824 }       \* 30 bits
Halves == {"low", "high"}
Words == [Halves -> Pixels]

\* The words of a row, as the card delivers them.
LineWords(w) == 4 * ((w + 7) \div 8)

ASSUME SizesAssumption  == Widths \subseteq Nat \ {0} /\ Heights \subseteq Nat \ {0}
ASSUME InputsAssumption ==
  \A w \in Widths, h \in Heights :
    Inputs(w, h) \subseteq [0 .. LineWords(w) * h - 1 -> Words]
ASSUME OldAssumption == Old \in Byte

VARIABLES width, height,   \* FRAME_WIDTH, FRAME_HEIGHT: they never change
          input,           \* input_buffer, as words
          output,          \* output_buffer, as bytes
          row, col, outCol

size == <<width, height>>
vars == <<size, input, output, row, col, outCol>>

-----------------------------------------------------------------------------
\* padded_width and stride_2pixels.  The first operator of each pair is the
\* code with a mistake.
StrideUnpadded(w) == w \div 2
Stride(w) == (((w + 7) \div 8) * 8) \div 2

\* convert_10bit_to_8bit
ConvertDown(val10) == (val10 * 255) \div 1023
Convert(val10) == ((val10 * 255 + 511) \div 1023) % 256

\* Green, blue and red: bits 0-9, 10-19 and 20-29 of a pixel.
Component(pixel, k) ==
  (IF k = 0 THEN pixel ELSE IF k = 1 THEN pixel \div 1024 ELSE pixel \div 1048576) % 1024

\* The bytes of the pixel at column c of the current row, of which those of
\* the padding are not stored.
Offset(r, c) == (r * width + c) * 3
TargetsUnguarded(c) == Offset(row, c) .. Offset(row, c) + 2
Targets(c) == IF c < width THEN Offset(row, c) .. Offset(row, c) + 2 ELSE {}

WordAt == row * Stride(width) + col

NextRowColumnKept == col' = 0 /\ outCol' = outCol + 2 /\ row' = row + 1
NextRow == col' = 0 /\ outCol' = 0 /\ row' = row + 1

\* One turn of the inner loop, and of the outer loop at the end of a row.
UnpackWord ==
  /\ row < height
  /\ output' = [i \in DOMAIN output |->
       IF i \in Targets(outCol + 1)
       THEN Convert(Component(input[WordAt]["high"], i - Offset(row, outCol + 1)))
       ELSE IF i \in Targets(outCol)
            THEN Convert(Component(input[WordAt]["low"], i - Offset(row, outCol)))
            ELSE output[i]]
  /\ IF col + 1 < Stride(width)
     THEN col' = col + 1 /\ outCol' = outCol + 2 /\ UNCHANGED row
     ELSE NextRow
  /\ UNCHANGED <<size, input>>

Init ==
  /\ width \in Widths /\ height \in Heights
  /\ input \in Inputs(width, height)
  /\ output = [i \in 0 .. width * height * 3 - 1 |-> Old]
  /\ row = 0 /\ col = 0 /\ outCol = 0

Next == UnpackWord

Spec == Init /\ [][Next]_vars

-----------------------------------------------------------------------------
(* Properties.                                                             *)

TypeOK ==
  /\ width \in Widths /\ height \in Heights
  /\ input \in [0 .. LineWords(width) * height - 1 -> Words]
  /\ output \in [0 .. width * height * 3 - 1 -> Byte]
  /\ row \in 0 .. height
  /\ col \in 0 .. LineWords(width) - 1
  /\ outCol = 2 * col

\* The loops stay inside both buffers, whatever the width: the last words of
\* the last row are padding and store nothing behind the frame.  (UnpackWord
\* itself drops a store that is out of bounds, so this has to be said.)
InBounds ==
  row < height => /\ WordAt \in DOMAIN input
                  /\ Targets(outCol) \cup Targets(outCol + 1) \subseteq DOMAIN output

\* The component k of the pixel that the card delivers at row r, column c.
Delivered(r, c, k) ==
  Component(input[r * LineWords(width) + c \div 2][IF c % 2 = 0 THEN "low" ELSE "high"], k)

\* The byte b stands for v of 1023 as well as any byte can.
Nearest(b, v) == -1023 <= 2 * (1023 * b - 255 * v) /\ 2 * (1023 * b - 255 * v) <= 1023

Done(r, c) == r < row \/ (r = row /\ c < outCol)

\* Every pixel the loops have passed is in the output: at its place, with its
\* components in their order, scaled to the nearest byte.  Padding, the other
\* pixel of a word and later rows do not disturb it.
FrameCorrect ==
  \A r \in 0 .. height - 1, c \in 0 .. width - 1, k \in 0 .. 2 :
    Done(r, c) => Nearest(output[Offset(r, c) + k], Delivered(r, c, k))
=============================================================================
