------------------------- MODULE FrameUnpackProofs -------------------------
(***************************************************************************)
(* FrameUnpack is right for every width and height, and for everything the *)
(* card may deliver.                                                       *)
(***************************************************************************)
EXTENDS FrameUnpack, TLAPS

-----------------------------------------------------------------------------
(* Arithmetic.                                                             *)

\* The stride of the code is the stride of the card.
LEMMA StrideIsLine ==
  ASSUME NEW w \in Nat \ {0}
  PROVE  /\ Stride(w) = LineWords(w)
         /\ LineWords(w) \in Nat \ {0}
         /\ w <= 2 * LineWords(w)
BY DEF Stride, LineWords

LEMMA Monotone ==
  ASSUME NEW a \in Nat, NEW b \in Nat, NEW c \in Nat, a < b
  PROVE  /\ a * c + c <= b * c
         /\ a * c \in Nat
         /\ b * c \in Nat
<1>1. PICK d \in Nat : b = a + 1 + d
  <2>1. b - a - 1 \in Nat /\ b = a + 1 + (b - a - 1)
    OBVIOUS
  <2> QED BY <2>1
<1>2. b * c = a * c + c + d * c
  BY <1>1
<1>3. a * c \in Nat /\ d * c \in Nat /\ b * c \in Nat
  BY <1>1
<1> QED BY <1>2, <1>3

\* Column c of row r, in an array of h rows of n elements.
LEMMA IndexInRows ==
  ASSUME NEW n \in Nat, NEW h \in Nat, NEW r \in Nat, NEW c \in Nat,
         r < h, c < n
  PROVE  r * n + c \in 0 .. n * h - 1
<1>1. r * n + n <= h * n /\ r * n \in Nat /\ h * n \in Nat
  BY Monotone
<1>2. h * n = n * h
  OBVIOUS
<1> QED BY <1>1, <1>2

\* A pixel inside the frame has its three bytes inside the output.
LEMMA OffsetInFrame ==
  ASSUME NEW w \in Nat, NEW h \in Nat, NEW r \in Nat, NEW c \in Nat,
         r < h, c < w
  PROVE  /\ (r * w + c) * 3 \in Nat
         /\ (r * w + c) * 3 + 2 <= w * h * 3 - 1
         /\ (r * w + c) * 3 <= (r * w + w) * 3 - 3
<1>1. r * w + w <= h * w /\ r * w \in Nat /\ h * w \in Nat
  BY Monotone
<1>2. w * h = h * w
  OBVIOUS
<1> QED BY <1>1, <1>2

\* A 10 bit component is converted to the nearest byte.
LEMMA ConvertNearest ==
  ASSUME NEW v \in 0 .. 1023
  PROVE  Convert(v) \in Byte /\ Nearest(Convert(v), v)
BY DEF Convert, Byte, Nearest

LEMMA ComponentRange ==
  ASSUME NEW p \in Nat, NEW k \in 0 .. 2
  PROVE  Component(p, k) \in 0 .. 1023
<1>1. p \div 1024 \in Nat /\ p \div 1048576 \in Nat
  BY SMT
<1>2. \A q \in Nat : q % 1024 \in 0 .. 1023
  OBVIOUS
<1> QED BY <1>1, <1>2, SMT DEF Component

-----------------------------------------------------------------------------
(* One turn of the inner loop.                                             *)

\* The type invariant gives the sizes.
LEMMA Sizes ==
  ASSUME TypeOK
  PROVE  /\ width \in Nat \ {0} /\ height \in Nat \ {0}
         /\ LineWords(width) \in Nat \ {0} /\ Stride(width) = LineWords(width)
         /\ width <= 2 * LineWords(width)
         /\ row \in Nat /\ col \in Nat /\ outCol \in Nat /\ outCol = 2 * col
         /\ col < LineWords(width)
<1>1. width \in Nat \ {0} /\ height \in Nat \ {0}
  BY SizesAssumption DEF TypeOK
<1>2. /\ LineWords(width) \in Nat \ {0} /\ Stride(width) = LineWords(width)
      /\ width <= 2 * LineWords(width)
  BY <1>1, StrideIsLine
<1> QED BY <1>1, <1>2 DEF TypeOK

\* The bytes of a pixel of the current row: none in the padding, and else
\* three, inside the output.
LEMMA TargetsOfPixel ==
  ASSUME TypeOK, row < height, NEW c \in Nat, NEW i \in Targets(c)
  PROVE  /\ c < width
         /\ Offset(row, c) \in Nat
         /\ i \in Int /\ i - Offset(row, c) \in 0 .. 2
         /\ i \in 0 .. width * height * 3 - 1
<1>1. c < width /\ i \in Offset(row, c) .. Offset(row, c) + 2
  BY DEF Targets
<1>2. /\ Offset(row, c) \in Nat
      /\ Offset(row, c) + 2 <= width * height * 3 - 1
  BY <1>1, Sizes, OffsetInFrame DEF Offset
<1>3. width * height * 3 - 1 \in Int
  BY Sizes
<1> QED BY <1>1, <1>2, <1>3

LEMMA Inside == TypeOK => InBounds
<1> SUFFICES ASSUME TypeOK, row < height
             PROVE  /\ WordAt \in DOMAIN input
                    /\ Targets(outCol) \cup Targets(outCol + 1) \subseteq DOMAIN output
  BY DEF InBounds
<1>1. WordAt \in 0 .. LineWords(width) * height - 1
  BY Sizes, IndexInRows DEF WordAt
<1>2. \A c \in Nat : Targets(c) \subseteq 0 .. width * height * 3 - 1
  BY TargetsOfPixel
<1>3. outCol \in Nat /\ outCol + 1 \in Nat
  BY Sizes
<1> QED BY <1>1, <1>2, <1>3 DEF TypeOK

\* What the turn stores is a byte that stands for the component delivered.
LEMMA StoredPixel ==
  ASSUME TypeOK, row < height, NEW half \in Halves, NEW k \in 0 .. 2
  PROVE  LET v == Component(input[WordAt][half], k) IN
         v \in 0 .. 1023 /\ Convert(v) \in Byte /\ Nearest(Convert(v), v)
<1>1. WordAt \in DOMAIN input
  BY Inside DEF InBounds
<1>2. input[WordAt] \in Words
  BY <1>1 DEF TypeOK
<1>3. input[WordAt][half] \in Pixels
  BY <1>2 DEF Words
<1>4. Pixels \subseteq Nat
  BY SMT DEF Pixels
<1>5. Component(input[WordAt][half], k) \in 0 .. 1023
  BY <1>3, <1>4, ComponentRange
<1> QED BY <1>5, ConvertNearest

\* The output after the turn, byte by byte: the pixels of the word are stored,
\* the rest stays.
LEMMA StepOutput ==
  ASSUME TypeOK, UnpackWord
  PROVE  /\ DOMAIN output' = DOMAIN output
         /\ \A i \in DOMAIN output :
              (i \notin Targets(outCol) /\ i \notin Targets(outCol + 1))
                => output'[i] = output[i]
         /\ \A k \in 0 .. 2 : outCol < width =>
              output'[Offset(row, outCol) + k] = Convert(Component(input[WordAt]["low"], k))
         /\ \A k \in 0 .. 2 : outCol + 1 < width =>
              output'[Offset(row, outCol + 1) + k]
                = Convert(Component(input[WordAt]["high"], k))
<1> DEFINE low  == Offset(row, outCol)
           high == Offset(row, outCol + 1)
<1>1. /\ DOMAIN output' = DOMAIN output
      /\ \A i \in DOMAIN output :
           /\ i \in Targets(outCol + 1) =>
                output'[i] = Convert(Component(input[WordAt]["high"], i - high))
           /\ (i \in Targets(outCol) /\ i \notin Targets(outCol + 1)) =>
                output'[i] = Convert(Component(input[WordAt]["low"], i - low))
           /\ (i \notin Targets(outCol) /\ i \notin Targets(outCol + 1)) =>
                output'[i] = output[i]
  BY Zenon DEF UnpackWord
<1>2. row < height
  BY DEF UnpackWord
<1>3. /\ outCol < width => low \in Nat /\ Targets(outCol) = low .. low + 2
      /\ outCol + 1 < width =>
           high \in Nat /\ Targets(outCol + 1) = high .. high + 2
      /\ outCol + 1 >= width => Targets(outCol + 1) = {}
  <2>1. outCol \in Nat /\ outCol + 1 \in Nat /\ width \in Nat /\ row \in Nat
    BY Sizes
  <2>2. \A c \in Nat : Offset(row, c) \in Nat
    BY <2>1 DEF Offset
  <2> QED BY <2>1, <2>2 DEF Targets
<1>4. high = low + 3
  BY Sizes DEF Offset
<1>5. Targets(outCol) \subseteq DOMAIN output /\ Targets(outCol + 1) \subseteq DOMAIN output
  BY <1>2, Inside DEF InBounds
<1>6. outCol \in Nat /\ width \in Nat
  BY Sizes
<1> HIDE DEF low, high
<1>7. ASSUME NEW k \in 0 .. 2, outCol < width, NEW i \in Int, i = low + k
      PROVE  output'[i] = Convert(Component(input[WordAt]["low"], k))
  <2>1. i \in Targets(outCol) /\ i \notin Targets(outCol + 1) /\ i - low = k
    BY <1>7, <1>3, <1>4, <1>6
  <2> QED BY <1>1, <1>5, <2>1, Zenon
<1>8. ASSUME NEW k \in 0 .. 2, outCol + 1 < width, NEW i \in Int, i = high + k
      PROVE  output'[i] = Convert(Component(input[WordAt]["high"], k))
  <2>1. i \in Targets(outCol + 1) /\ i - high = k
    BY <1>8, <1>3
  <2> QED BY <1>1, <1>5, <2>1, Zenon
<1>9. /\ \A k \in 0 .. 2 : outCol < width => low + k \in Int
      /\ \A k \in 0 .. 2 : outCol + 1 < width => high + k \in Int
  BY <1>3
<1> QED BY <1>1, <1>7, <1>8, <1>9, Zenon DEF low, high

\* The bytes of a pixel that was passed before are none of those stored now.
LEMMA DonePixelStays ==
  ASSUME TypeOK, UnpackWord,
         NEW r \in 0 .. height - 1, NEW c \in 0 .. width - 1, NEW k \in 0 .. 2,
         Done(r, c)
  PROVE  output'[Offset(r, c) + k] = output[Offset(r, c) + k]
<1>1. /\ width \in Nat /\ height \in Nat /\ row \in Nat /\ outCol \in Nat
      /\ r \in Nat /\ c \in Nat /\ r < height /\ c < width
  BY Sizes
<1>2. Offset(r, c) + k \in DOMAIN output
  <2>1. Offset(r, c) \in Nat /\ Offset(r, c) + 2 <= width * height * 3 - 1
    BY <1>1, OffsetInFrame DEF Offset
  <2>2. width * height * 3 - 1 \in Int
    BY <1>1
  <2> QED BY <2>1, <2>2 DEF TypeOK
<1>3. Offset(r, c) \in Int /\ Offset(r, c) + 3 <= Offset(row, outCol)
  <2>1. CASE r = row /\ c < outCol
    BY <1>1, <2>1 DEF Offset
  <2>2. CASE r < row
    <3>1. r * width + width <= row * width /\ r * width \in Nat /\ row * width \in Nat
      BY <1>1, <2>2, Monotone
    <3> QED BY <1>1, <3>1 DEF Offset
  <2> QED BY <2>1, <2>2 DEF Done
<1>4. /\ Offset(row, outCol) \in Int
      /\ Offset(row, outCol + 1) = Offset(row, outCol) + 3
  BY <1>1 DEF Offset
<1>5. /\ Offset(r, c) + k \notin Targets(outCol)
      /\ Offset(r, c) + k \notin Targets(outCol + 1)
  BY <1>3, <1>4 DEF Targets
<1> QED BY <1>2, <1>5, StepOutput

\* The pixel that the loops pass now is stored as it was delivered.
LEMMA NewPixelStored ==
  ASSUME TypeOK, UnpackWord,
         NEW c \in 0 .. width - 1, NEW k \in 0 .. 2, c \in {outCol, outCol + 1}
  PROVE  Nearest(output'[Offset(row, c) + k], Delivered(row, c, k))
<1>1. WordAt = row * LineWords(width) + col
  BY Sizes DEF WordAt
<1>2. row < height
  BY DEF UnpackWord
<1>3. CASE c = outCol
  <2>1. c \div 2 = col /\ c % 2 = 0 /\ outCol < width
    BY <1>3, Sizes
  <2>2. Delivered(row, c, k) = Component(input[WordAt]["low"], k)
    BY <2>1, <1>1 DEF Delivered
  <2>3. output'[Offset(row, c) + k] = Convert(Component(input[WordAt]["low"], k))
    BY <1>3, <2>1, StepOutput, Zenon
  <2>4. LET v == Component(input[WordAt]["low"], k) IN Nearest(Convert(v), v)
    <3>1. "low" \in Halves
      BY DEF Halves
    <3> QED BY <1>2, <3>1, StoredPixel, Zenon
  <2> QED BY <2>2, <2>3, <2>4
<1>4. CASE c = outCol + 1
  <2>1. c \div 2 = col /\ c % 2 = 1 /\ outCol + 1 < width
    BY <1>4, Sizes
  <2>2. Delivered(row, c, k) = Component(input[WordAt]["high"], k)
    BY <2>1, <1>1 DEF Delivered
  <2>3. output'[Offset(row, c) + k] = Convert(Component(input[WordAt]["high"], k))
    BY <1>4, <2>1, StepOutput, Zenon
  <2>4. LET v == Component(input[WordAt]["high"], k) IN Nearest(Convert(v), v)
    <3>1. "high" \in Halves
      BY DEF Halves
    <3> QED BY <1>2, <3>1, StoredPixel, Zenon
  <2> QED BY <2>2, <2>3, <2>4
<1> QED BY <1>3, <1>4

-----------------------------------------------------------------------------
(* The inductive invariant: the types, and every passed pixel in place.    *)

Inv == TypeOK /\ FrameCorrect

LEMMA InitInv == Init => Inv
<1> SUFFICES ASSUME Init PROVE Inv
  OBVIOUS
<1>1. width \in Nat \ {0} /\ height \in Nat \ {0}
  BY SizesAssumption DEF Init
<1>2. LineWords(width) \in Nat \ {0}
  BY <1>1, StrideIsLine
<1>3. input \in [0 .. LineWords(width) * height - 1 -> Words]
  BY InputsAssumption DEF Init
<1>4. output \in [0 .. width * height * 3 - 1 -> Byte]
  BY OldAssumption DEF Init
<1>5. 0 \in 0 .. height /\ 0 \in 0 .. LineWords(width) - 1
  BY <1>1, <1>2
<1>6. TypeOK
  BY <1>3, <1>4, <1>5 DEF Init, TypeOK
<1>7. FrameCorrect
  BY <1>1 DEF Init, FrameCorrect, Done
<1> QED BY <1>6, <1>7 DEF Inv

\* Where the loops are after a turn: one word further, or at the next row.
LEMMA StepPosition ==
  ASSUME TypeOK, UnpackWord
  PROVE  /\ row' \in 0 .. height /\ col' \in 0 .. LineWords(width) - 1
         /\ outCol' = 2 * col'
         /\ \A r \in 0 .. height - 1, c \in 0 .. width - 1 :
              (Done(r, c))' => Done(r, c) \/ (r = row /\ c \in {outCol, outCol + 1})
<1>1. /\ width \in Nat \ {0} /\ height \in Nat \ {0} /\ row \in Nat /\ row < height
      /\ LineWords(width) \in Nat \ {0} /\ col \in Nat /\ outCol = 2 * col
      /\ Stride(width) = LineWords(width) /\ width <= 2 * LineWords(width)
      /\ col < LineWords(width)
  BY Sizes DEF UnpackWord
<1>2. CASE col + 1 < Stride(width)
  <2>1. col' = col + 1 /\ outCol' = outCol + 2 /\ row' = row
    BY <1>2 DEF UnpackWord
  <2> QED BY <1>1, <1>2, <2>1 DEF Done
<1>3. CASE ~(col + 1 < Stride(width))
  <2>1. col' = 0 /\ outCol' = 0 /\ row' = row + 1
    BY <1>3 DEF UnpackWord, NextRow
  <2>2. \A c \in 0 .. width - 1 : c < outCol + 2
    BY <1>1, <1>3
  <2> QED BY <1>1, <2>1, <2>2 DEF Done
<1> QED BY <1>2, <1>3

LEMMA StepTypes ==
  ASSUME TypeOK, UnpackWord
  PROVE  TypeOK'
<1>1. output' \in [0 .. width * height * 3 - 1 -> Byte]
  <2>1. row < height /\ outCol \in Nat /\ outCol + 1 \in Nat
    BY Sizes DEF UnpackWord
  <2>2. ASSUME NEW half \in Halves, NEW c \in Nat, NEW i \in Targets(c)
        PROVE  Convert(Component(input[WordAt][half], i - Offset(row, c))) \in Byte
    <3>1. i - Offset(row, c) \in 0 .. 2
      BY <2>1, <2>2, TargetsOfPixel
    <3> QED BY <2>1, <3>1, StoredPixel, Zenon
  <2>3. "low" \in Halves /\ "high" \in Halves
    BY DEF Halves
  <2>4. /\ \A i \in Targets(outCol + 1) :
             Convert(Component(input[WordAt]["high"], i - Offset(row, outCol + 1))) \in Byte
        /\ \A i \in Targets(outCol) :
             Convert(Component(input[WordAt]["low"], i - Offset(row, outCol))) \in Byte
    BY <2>1, <2>2, <2>3, Zenon
  <2>5. \A i \in DOMAIN output : output[i] \in Byte
    BY DEF TypeOK
  <2>6. DOMAIN output = 0 .. width * height * 3 - 1
    BY DEF TypeOK
  <2> QED BY <2>4, <2>5, <2>6, Zenon DEF UnpackWord
<1>2. UNCHANGED <<width, height, input>>
  BY DEF UnpackWord, size
<1> QED BY <1>1, <1>2, StepPosition DEF TypeOK

LEMMA StepInv == Inv /\ [Next]_vars => Inv'
<1> SUFFICES ASSUME Inv, [Next]_vars PROVE Inv'
  OBVIOUS
<1>1. CASE UnpackWord
  <2>1. TypeOK /\ TypeOK' /\ FrameCorrect
    BY <1>1, StepTypes DEF Inv
  <2>2. UNCHANGED <<width, height, input>>
    BY <1>1 DEF UnpackWord, size
  <2>3. ASSUME NEW r \in 0 .. height - 1, NEW c \in 0 .. width - 1, NEW k \in 0 .. 2,
               (Done(r, c))'
        PROVE  Nearest(output'[Offset(r, c) + k], Delivered(r, c, k))
    <3>1. CASE Done(r, c)
      <4>1. output'[Offset(r, c) + k] = output[Offset(r, c) + k]
        BY <1>1, <2>1, <3>1, DonePixelStays
      <4>2. Nearest(output[Offset(r, c) + k], Delivered(r, c, k))
        BY <2>1, <3>1, Zenon DEF FrameCorrect
      <4> QED BY <4>1, <4>2
    <3>2. CASE r = row /\ c \in {outCol, outCol + 1}
      <4>1. Nearest(output'[Offset(row, c) + k], Delivered(row, c, k))
        BY <1>1, <2>1, <3>2, NewPixelStored, Zenon
      <4> QED BY <3>2, <4>1, Zenon
    <3> QED BY <1>1, <2>1, <2>3, <3>1, <3>2, StepPosition
  <2>4. FrameCorrect'
    BY <2>2, <2>3 DEF FrameCorrect, Offset, Delivered
  <2> QED BY <2>1, <2>4 DEF Inv
<1>2. CASE UNCHANGED vars
  BY <1>2 DEF Inv, TypeOK, FrameCorrect, vars, size, Done, Offset, Delivered
<1> QED BY <1>1, <1>2 DEF Next

-----------------------------------------------------------------------------
(* The theorems.                                                           *)

LEMMA Invariance == Spec => []Inv
BY InitInv, StepInv, PTL DEF Spec

\* The indices keep to their ranges and the output holds bytes, for every size
\* of a frame.
THEOREM TypeCorrect == Spec => []TypeOK
<1>1. Inv => TypeOK
  BY DEF Inv
<1> QED BY <1>1, Invariance, PTL

\* For every width and height, the loops read no word behind the input buffer
\* and write no byte behind the output buffer.
THEOREM NoOverrun == Spec => []InBounds
<1>1. Inv => InBounds
  BY Inside DEF Inv
<1> QED BY <1>1, Invariance, PTL

\* For every size and everything the card delivers, each pixel that the loops
\* have passed is in its place, with the nearest byte for each component.
THEOREM PixelsArrive == Spec => []FrameCorrect
<1>1. Inv => FrameCorrect
  BY DEF Inv
<1> QED BY <1>1, Invariance, PTL
=============================================================================
