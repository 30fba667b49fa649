--------------------------- MODULE PeerConnection ---------------------------
(***************************************************************************)
(* The part of libwebrtc's PeerConnection and DataChannel that the samples *)
(* depend on.  libwebrtc is not in the repository: each operator is the    *)
(* effect of one call of webrtc::PeerConnectionInterface, written down     *)
(* from how the samples use it.  The operators are pure functions on the   *)
(* record of one peer connection, so that a handler that touches the       *)
(* connections of both clients is still a single step.                     *)
(***************************************************************************)
EXTENDS FiniteSets

CONSTANTS A,            \* the client built with initiative_ = true
          B,            \* the client built with initiative_ = false
          Candidates    \* what ICE gathers for one client

ASSUME TwoClients == A # B
ASSUME SomeCandidate == Candidates # {}

Clients == {A, B}
OtherClient(c) == IF c = A THEN B ELSE A

\* An ICE candidate carries the client that gathered it.
IceCandidate == Clients \X Candidates
CandidatesOf(c) == {c} \X Candidates

SdpType == {"offer", "answer"}

\* request: the CreateOffer / CreateAnswer that has not called back yet.
\* toReport: candidates gathered but not yet given to OnIceCandidate.
\* remoteCandidates: what AddIceCandidate has accepted.
\* failed: OnFailure of an observer is due, which in the samples is an
\* assert(false).
Peer == [sig : {"stable", "have-local-offer", "have-remote-offer", "closed"},
         local : SdpType \cup {"none"},
         remote : SdpType \cup {"none"},
         request : SdpType \cup {"none"},
         toReport : SUBSET Candidates,
         remoteCandidates : SUBSET IceCandidate,
         failed : BOOLEAN]

NewPeer == [sig |-> "stable", local |-> "none", remote |-> "none",
            request |-> "none", toReport |-> {}, remoteCandidates |-> {},
            failed |-> FALSE]

Fail(p) == [p EXCEPT !.failed = TRUE]

CreateOffer(p) ==
  IF p.sig # "closed" /\ p.request = "none"
  THEN [p EXCEPT !.request = "offer"]
  ELSE Fail(p)

CreateAnswer(p) ==
  IF p.sig = "have-remote-offer" /\ p.request = "none"
  THEN [p EXCEPT !.request = "answer"]
  ELSE Fail(p)

\* The offer/answer state machine: an offer opens a round, an answer closes
\* the one opened by the other side; anything else fails.
SetLocalDescription(p, type) ==
  CASE type = "offer" /\ p.sig \in {"stable", "have-local-offer"} ->
         [p EXCEPT !.sig = "have-local-offer", !.local = type, !.toReport = Candidates]
    [] type = "answer" /\ p.sig = "have-remote-offer" ->
         [p EXCEPT !.sig = "stable", !.local = type, !.toReport = Candidates]
    [] OTHER -> Fail(p)

SetRemoteDescription(p, type) ==
  CASE type = "offer" /\ p.sig \in {"stable", "have-remote-offer"} ->
         [p EXCEPT !.sig = "have-remote-offer", !.remote = type]
    [] type = "answer" /\ p.sig = "have-local-offer" ->
         [p EXCEPT !.sig = "stable", !.remote = type]
    [] OTHER -> Fail(p)

\* Without a remote description the candidate is refused; the samples do not
\* look at the result.
AddIceCandidate(p, cand) ==
  IF p.remote # "none" /\ p.sig # "closed"
  THEN [p EXCEPT !.remoteCandidates = @ \cup {cand}]
  ELSE p

Close(p) == [p EXCEPT !.sig = "closed", !.toReport = {}]

\* Both rounds of the negotiation are over.
Negotiated(p) == p.sig = "stable" /\ p.local # "none" /\ p.remote # "none"
=============================================================================
