------------------------ MODULE PeerConnection_proofs ------------------------
(***************************************************************************)
(* Lemmas about the calls of PeerConnection, for any candidates, which the *)
(* proofs about the samples share.                                         *)
(***************************************************************************)
EXTENDS PeerConnection, TLAPS

\* Every call of the PeerConnection interface takes a peer connection to one.
LEMMA PeerTyping ==
  ASSUME NEW p \in Peer
  PROVE  /\ CreateOffer(p) \in Peer
         /\ CreateAnswer(p) \in Peer
         /\ Close(p) \in Peer
         /\ \A type \in SdpType : /\ SetLocalDescription(p, type) \in Peer
                                  /\ SetRemoteDescription(p, type) \in Peer
         /\ \A cand \in IceCandidate : AddIceCandidate(p, cand) \in Peer
         /\ [p EXCEPT !.request = "none"] \in Peer
         /\ \A k : [p EXCEPT !.toReport = @ \ {k}] \in Peer
<1>1. CreateOffer(p) \in Peer
  BY DEF Peer, CreateOffer, Fail, SdpType
<1>2. CreateAnswer(p) \in Peer
  BY DEF Peer, CreateAnswer, Fail, SdpType
<1>3. Close(p) \in Peer
  BY DEF Peer, Close
<1>4. ASSUME NEW type \in SdpType
      PROVE  SetLocalDescription(p, type) \in Peer
  BY <1>4 DEF Peer, SetLocalDescription, Fail, SdpType
<1>5. ASSUME NEW type \in SdpType
      PROVE  SetRemoteDescription(p, type) \in Peer
  BY <1>5 DEF Peer, SetRemoteDescription, Fail, SdpType
<1>6. ASSUME NEW cand \in IceCandidate
      PROVE  AddIceCandidate(p, cand) \in Peer
  BY <1>6 DEF Peer, AddIceCandidate
<1>7. [p EXCEPT !.request = "none"] \in Peer
  BY DEF Peer
<1>8. ASSUME NEW k PROVE [p EXCEPT !.toReport = @ \ {k}] \in Peer
  BY DEF Peer
<1>9. QED
  BY <1>1, <1>2, <1>3, <1>4, <1>5, <1>6, <1>7, <1>8

\* Only Close closes a connection, and no call opens it again.
LEMMA PeerClosing ==
  ASSUME NEW p \in Peer
  PROVE  /\ Close(p).sig = "closed"
         /\ CreateOffer(p).sig = p.sig
         /\ CreateAnswer(p).sig = p.sig
         /\ [p EXCEPT !.request = "none"].sig = p.sig
         /\ \A type \in SdpType :
              /\ SetLocalDescription(p, type).sig = "closed" <=> p.sig = "closed"
              /\ SetRemoteDescription(p, type).sig = "closed" <=> p.sig = "closed"
         /\ \A cand : AddIceCandidate(p, cand).sig = p.sig
         /\ \A k : [p EXCEPT !.toReport = @ \ {k}].sig = p.sig
<1>1. Close(p).sig = "closed" BY DEF Peer, Close
<1>2. CreateOffer(p).sig = p.sig /\ CreateAnswer(p).sig = p.sig
  BY DEF Peer, CreateOffer, CreateAnswer, Fail
<1>3. [p EXCEPT !.request = "none"].sig = p.sig BY DEF Peer
<1>4. ASSUME NEW type \in SdpType
      PROVE  /\ SetLocalDescription(p, type).sig = "closed" <=> p.sig = "closed"
             /\ SetRemoteDescription(p, type).sig = "closed" <=> p.sig = "closed"
  BY <1>4 DEF Peer, SetLocalDescription, SetRemoteDescription, Fail, SdpType
<1>5. ASSUME NEW cand PROVE AddIceCandidate(p, cand).sig = p.sig BY DEF Peer, AddIceCandidate
<1>6. ASSUME NEW k PROVE [p EXCEPT !.toReport = @ \ {k}].sig = p.sig BY DEF Peer
<1> QED BY <1>1, <1>2, <1>3, <1>4, <1>5, <1>6
==============================================================================
