----------------------------- MODULE MCCEncoder -----------------------------
(* The instance of CEncoder for TLC; threads and rates are in the .cfg file. *)
EXTENDS CEncoder
=============================================================================
