---------------------------- MODULE MCDataChannel ----------------------------
(* The instances of the datachannel sample for TLC: two clients and small   *)
(* sets of candidates, given in the .cfg files.                             *)
EXTENDS DataChannelSample
==============================================================================
