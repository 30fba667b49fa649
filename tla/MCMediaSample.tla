---------------------------- MODULE MCMediaSample ----------------------------
(* The instance of the media samples for TLC: both programs, two candidates *)
(* a side, and a capture loop of three frames.                              *)
EXTENDS MediaSample
==============================================================================
