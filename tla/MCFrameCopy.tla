----------------------------- MODULE MCFrameCopy -----------------------------
(* The instance of FrameCopy for TLC: every landscape or square picture up   *)
(* to 10 x 10 with even sides, and a few bitmaps of odd width.               *)
EXTENDS FrameCopy

SmallSizes == {s \in {2, 4, 6, 8, 10} \X {2, 4, 6, 8, 10} : s[2] <= s[1]}
SmallBitmaps == {3, 7} \X {2, 4}
=============================================================================
