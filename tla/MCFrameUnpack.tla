--------------------------- MODULE MCFrameUnpack ---------------------------
(***************************************************************************)
(* FrameUnpack on frames in which all pixels are alike, but one.           *)
(***************************************************************************)
EXTENDS FrameUnpack

\* Green 0, blue 1, red 1023; green 511, blue 512, red 2; all ones.
SomePixels == {1023 * 1048576 + 1 * 1024, 2 * 1048576 + 512 * 1024 + 511, 1073741823}

OneMarked(w, h) ==
  { [i \in 0 .. LineWords(w) * h - 1 |->
       [half \in Halves |-> IF <<i, half>> = mark THEN p ELSE q]] :
    mark \in (0 .. LineWords(w) * h - 1) \X Halves, p \in SomePixels, q \in SomePixels }
=============================================================================
