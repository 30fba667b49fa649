---------------------------- MODULE EncoderQueue ----------------------------
(***************************************************************************)
(* What NvEncoder promises the code that feeds it, with no buffers in      *)
(* sight: the encoder is a queue of pictures.  A picture it has accepted   *)
(* comes back at most once and never before an older one that also comes   *)
(* back.  As long as no call into the driver has failed nothing is skipped *)
(* either; after a failure ("lossy") pictures may be missing.              *)
(***************************************************************************)
EXTENDS Naturals, Sequences, Functions

CONSTANT Frames          \* what identifies a picture

VARIABLES accepted,      \* the pictures the encoder took, oldest first
          delivered,     \* the pictures the caller got back, oldest first
          lossy          \* TRUE once a call has failed

vars == <<accepted, delivered, lossy>>

Init == accepted = <<>> /\ delivered = <<>> /\ lossy = FALSE

Accept == \E f \in Frames \ Range(accepted) :
            accepted' = Append(accepted, f) /\ UNCHANGED <<delivered, lossy>>

\* Nothing as new as the k-th picture has come back yet.
Undelivered(k) == \A j \in k .. Len(accepted) : accepted[j] \notin Range(delivered)

Deliver == \E k \in 1 .. Len(accepted) :
             /\ Undelivered(k)
             /\ lossy \/ ~ \E j \in 1 .. k - 1 : Undelivered(j)
             /\ delivered' = Append(delivered, accepted[k])
             /\ UNCHANGED <<accepted, lossy>>

Fail == lossy' = TRUE /\ UNCHANGED <<accepted, delivered>>

Next == Accept \/ Deliver \/ Fail

Spec == Init /\ [][Next]_vars
=============================================================================
