--------------------------- MODULE MCVideoSource ---------------------------
(* The instance of VideoSource for TLC; the bounds are in the .cfg file. *)
EXTENDS VideoSource
=============================================================================
