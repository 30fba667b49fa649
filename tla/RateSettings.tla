---------------------------- MODULE RateSettings ----------------------------
(***************************************************************************)
(* What the C table of the encoder promises those who adjust a running     *)
(* encoder: each call changes the one setting it is about, at one instant, *)
(* and leaves the other as it was.  How calls of several threads are kept  *)
(* apart is left out.                                                      *)
(***************************************************************************)
CONSTANTS Bitrates, FrameRates,
          DefaultFrameRate,    \* the frame rate an encoder starts with
          NoConfig             \* there is no encoder

VARIABLE settings              \* what the driver encodes with

Init == settings = NoConfig

Build == /\ settings = NoConfig
         /\ \E b \in Bitrates :
              settings' = [bitrate |-> b, framerate |-> DefaultFrameRate]

SetBitrate == /\ settings # NoConfig
              /\ \E b \in Bitrates : settings' = [settings EXCEPT !.bitrate = b]

SetFrameRate == /\ settings # NoConfig
                /\ \E f \in FrameRates : settings' = [settings EXCEPT !.framerate = f]

Destroy == settings # NoConfig /\ settings' = NoConfig

Next == Build \/ SetBitrate \/ SetFrameRate \/ Destroy

Spec == Init /\ [][Next]_settings
=============================================================================
