---------------------------- MODULE MCNvEncoder ----------------------------
(* Instances of NvEncoder for TLC; the bounds are in the .cfg files. *)
EXTENDS NvEncoder
=============================================================================
