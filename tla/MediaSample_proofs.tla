-------------------------- MODULE MediaSample_proofs --------------------------
(***************************************************************************)
(* Proofs about MediaSample, for any candidates and any limit of the       *)
(* capture loop.                                                           *)
(*                                                                         *)
(* The owner, the capture thread and the encoder do what VideoSource says  *)
(* and nothing else (SourceTheorem), which keeps SourceLife.  The rest of  *)
(* the invariant says how far main() has got with building and linking the *)
(* clients, what is left of a client in each stage of its destruction,     *)
(* that the encoder uses the source only before that, and that the         *)
(* receiver's sink came with the first description it has taken.           *)
(***************************************************************************)
EXTENDS MediaSample, PeerConnection_proofs

\* What main() has built and linked at each point.
BeforeStart ==
  {"boot", "source", "starting", "bind_a", "bind_b", "link_a", "link_b", "start"}
BeforeLinkA == {"boot", "source", "starting", "bind_a", "bind_b", "link_a"}
BeforeBindA == {"boot", "source", "starting", "bind_a"}

Building ==
  /\ main = "boot" => \A c \in Clients : obj[c] = "unborn" /\ receiver_[c] = "null"
  /\ main \in BeforeStart \ {"boot"} => \A c \in Clients : obj[c] = "alive"
  /\ main \in BeforeStart => \A c \in Clients : pc[c] = NewPeer
  /\ main # "boot" => receiver_[B] # "null" /\ \A c \in Clients : obj[c] # "unborn"

Linked ==
  /\ main \notin BeforeBindA /\ obj[A] # "dead" => peer_connection_[A]
  /\ main \notin BeforeBindA \union {"bind_b"} /\ obj[B] # "dead" => peer_connection_[B]
  /\ main \notin BeforeLinkA => other_[A] = B
  /\ main \notin BeforeLinkA \union {"link_b"} => other_[B] = A

\* The stages of a client's destruction.
Destruction ==
  /\ \A c \in Clients : pc[c].sig = "closed" <=> obj[c] \in {"closed", "dead"}
  /\ obj[B] \in {"alive", "closing", "closed"} => receiver_[B] = "alive"
  /\ rendering => receiver_[B] = "alive" /\ pc[B].sig # "closed"
  /\ B \in remoteSinks => receiver_[B] # "null"

\* The encoder is off the source before the sender is closed.
EncoderLife ==
  /\ obj[A] \in {"closing", "closed", "dead"} => user["encoder"] # "attached"
  /\ obj[A] \in {"closed", "dead"} => user["encoder"] # "removing"

\* Each captured frame is sent at most once; the audio sample captures none.
FrameCount ==
  /\ sample = "audio" => owner = "new"
  /\ sample # "audio" => inFlight <= cnt
  /\ sample # "audio" /\ (capture = "captured" \/ "encoder" \in remaining) => inFlight < cnt

\* The sink was added in the task that set the offer, and media came after it.
SinkFirst ==
  /\ pc[B].remote # "none" => B \in remoteSinks
  /\ inFlight > 0 => B \in remoteSinks

\* The thread and the members of the source, and its one sink.
SourceLife ==
  /\ owner = "new" <=> capture = "none"
  /\ members # Source!Members =>
       capture = "done" /\ owner \in {"destroying", "destroyed"}
  /\ "i420_creator_" \in members => "broadcaster_" \in members
  /\ remaining \subseteq sinks
  /\ remaining # {} => capture = "delivering"
  /\ "encoder" \in sinks <=> user["encoder"] \in {"attached", "removing"}

IInv == /\ TypeOK /\ Building /\ Linked /\ Destruction
        /\ EncoderLife /\ FrameCount /\ SinkFirst /\ SourceLife /\ NoNullPointer

------------------------------------------------------------------------------
(* The source.                                                              *)

\* What the samples do to the source, VideoSource allows.
LEMMA SourceSteps == [Next]_vars => [Source!Next]_source
<1> SUFFICES ASSUME [Next]_vars PROVE Source!Next \/ UNCHANGED source
  OBVIOUS
<1>1. ASSUME NEW c \in Clients, SignalThread(c) PROVE UNCHANGED source
  BY <1>1 DEF SignalThread
<1>2. CASE MediaPath
  BY <1>2 DEF MediaPath, EncoderAttached, MicrophoneFrame, OnFrame, Source!Next, Source!User
<1>3. CASE CaptureThread
  BY <1>3 DEF CaptureThread, Source!Next
<1>4. CASE EncoderRemoved
  BY <1>4 DEF EncoderRemoved, Source!Next, Source!User
<1>5. CASE OnFrameReturns \/ Exit
  BY <1>5 DEF OnFrameReturns, Exit
<1>6. CASE NewClients \/ NewSource \/ SourceStarted \/ Start
  BY <1>6 DEF NewClients, NewSource, SourceStarted, Start, Source!Next, Source!Owner
<1>7. ASSUME NEW c \in Clients, BindPeerConnection(c) \/ SetOther(c) PROVE UNCHANGED source
  BY <1>7 DEF BindPeerConnection, SetOther
<1>8. ASSUME NEW c \in Clients, DropReference(c) \/ CloseReturns(c) \/ DestroyMembers(c)
      PROVE  Source!Next \/ UNCHANGED source
  BY <1>8 DEF DropReference, CloseReturns, DestroyMembers, Source!Next, Source!User
<1>9. CASE StopThread \/ ReleaseTrack \/ SourceDestroyed
  BY <1>9 DEF StopThread, ReleaseTrack, SourceDestroyed, Source!Next, Source!Owner
<1>10. CASE UNCHANGED vars
  BY <1>10 DEF vars, source
<1> QED
  BY <1>1, <1>2, <1>3, <1>4, <1>5, <1>6, <1>7, <1>8, <1>9, <1>10 DEF Next, MainProceeds

LEMMA SourceTypeStep ==
  ASSUME Source!TypeOK, SourceLife, [Source!Next]_source
  PROVE  Source!TypeOK'
<1> USE DEF Source!TypeOK
<1>1. CASE Source!Owner
  <2>1. CASE Source!StartCapture
    <3>1. cnt' <= MaxCount + 1
      BY <2>1 DEF Source!StartCapture, SourceLife
    <3> QED
      BY <2>1, <3>1 DEF Source!StartCapture
  <2>2. CASE Source!CaptureStarted \/ Source!ReleaseSource \/ Source!StopCapture
    BY <2>2 DEF Source!CaptureStarted, Source!ReleaseSource, Source!StopCapture
  <2>3. CASE Source!JoinCapture \/ Source!DestroyBroadcaster
    BY <2>3 DEF Source!JoinCapture, Source!DestroyBroadcaster, Source!Destroy
  <2> QED
    BY <1>1, <2>1, <2>2, <2>3 DEF Source!Owner, Source!Destruction
<1>2. CASE Source!LoopTest
  <2>1. cnt' \in 0 .. MaxCount + 2 /\ (capture' # "done" => cnt' <= MaxCount + 1)
    BY <1>2, CountIsNat DEF Source!LoopTest, Source!WithinLimit, Source!CountCap, Source!Seen
  <2>2. capture' \in {"captured", "done"}
    BY <1>2 DEF Source!LoopTest
  <2> QED
    BY <1>2, <2>1, <2>2 DEF Source!LoopTest
<1>3. CASE Source!PromiseKept \/ Source!OnFrame \/ Source!FrameDone
  BY <1>3 DEF Source!PromiseKept, Source!OnFrame, Source!FrameDone
<1>4. ASSUME NEW s \in {"encoder"}, Source!Deliver(s) PROVE Source!TypeOK'
  BY <1>4 DEF Source!Deliver
<1>5. ASSUME NEW s \in {"encoder"}, Source!User(s) PROVE Source!TypeOK'
  BY <1>5 DEF Source!User, Source!AddOrUpdateSink, Source!CallRemoveSink,
     Source!ReturnFromRemoveSink, Source!RemoveSink
<1>6. CASE UNCHANGED source
  BY <1>6 DEF source
<1> QED
  BY <1>1, <1>2, <1>3, <1>4, <1>5, <1>6 DEF Source!Next, Source!Capture

LEMMA SourceLifeStep ==
  ASSUME Source!TypeOK, SourceLife, [Source!Next]_source
  PROVE  SourceLife'
<1> USE DEF SourceLife
<1>1. CASE Source!Owner
  BY <1>1 DEF Source!TypeOK, Source!Owner, Source!Destruction, Source!StartCapture,
     Source!CaptureStarted, Source!ReleaseSource, Source!StopCapture, Source!JoinCapture,
     Source!DestroyBroadcaster, Source!Destroy, Source!NextToGo, Source!DeclaredAfter,
     Source!Members
<1>2. CASE Source!PromiseKept \/ Source!LoopTest \/ Source!OnFrame \/ Source!FrameDone
  BY <1>2 DEF Source!PromiseKept, Source!LoopTest, Source!OnFrame, Source!FrameDone
<1>3. ASSUME NEW s \in {"encoder"}, Source!Deliver(s) PROVE SourceLife'
  BY <1>3 DEF Source!Deliver
<1>4. ASSUME NEW s \in {"encoder"}, Source!User(s) PROVE SourceLife'
  <2> USE DEF Source!TypeOK
  <2>1. CASE Source!AddOrUpdateSink(s) BY <1>4, <2>1 DEF Source!AddOrUpdateSink
  <2>2. CASE Source!CallRemoveSink(s) BY <1>4, <2>2 DEF Source!CallRemoveSink
  <2>3. CASE Source!ReturnFromRemoveSink(s)
    \* The lock is free, so that no frame is under way.
    <3>1. remaining = {}
      BY <2>3 DEF Source!ReturnFromRemoveSink, Source!RemoveSink, Source!LockIsFree
    <3> QED
      BY <1>4, <2>3, <3>1 DEF Source!ReturnFromRemoveSink, Source!RemoveSink
  <2> QED
    BY <1>4, <2>1, <2>2, <2>3 DEF Source!User
<1>5. CASE UNCHANGED source
  BY <1>5 DEF source
<1> QED
  BY <1>1, <1>2, <1>3, <1>4, <1>5 DEF Source!Next, Source!Capture

------------------------------------------------------------------------------
(* The signaling thread.                                                    *)

LEMMA TwoEnds ==
  /\ A \in Clients /\ B \in Clients /\ OtherClient(A) = B /\ OtherClient(B) = A
  /\ \A c \in Clients : OtherClient(c) \in Clients /\ OtherClient(c) # c
BY TwoClients DEF Clients, OtherClient

\* What a client does with a received description keeps the type of its
\* connection, and that it is open.
LEMMA OnSdpKeeps ==
  ASSUME NEW p \in Peer, NEW type \in SdpType
  PROVE  /\ OnSdp(p, type) \in Peer
         /\ OnSdp(p, type).sig = "closed" <=> p.sig = "closed"
<1> DEFINE q == SetRemoteDescription(p, type)
<1>1. q \in Peer /\ (q.sig = "closed" <=> p.sig = "closed")
  BY PeerTyping, PeerClosing
<1> HIDE DEF q
<1>2. CreateAnswer(q) \in Peer /\ CreateAnswer(q).sig = q.sig
  BY <1>1, PeerTyping, PeerClosing
<1>3. OnSdp(p, type) = IF type = "offer" THEN CreateAnswer(q) ELSE q
  BY DEF OnSdp, q
<1> QED
  BY <1>1, <1>2, <1>3

\* So do the calls OnSuccess makes on the client's own connection.
LEMMA OwnDescriptionKeeps ==
  ASSUME NEW p \in Peer, NEW type \in SdpType
  PROVE  /\ SetLocalDescription([p EXCEPT !.request = "none"], type) \in Peer
         /\ SetLocalDescription([p EXCEPT !.request = "none"], type).sig = "closed"
              <=> p.sig = "closed"
<1> DEFINE q == [p EXCEPT !.request = "none"]
<1>1. q \in Peer /\ q.sig = p.sig
  BY PeerTyping, PeerClosing
<1> HIDE DEF q
<1>2. /\ SetLocalDescription(q, type) \in Peer
      /\ SetLocalDescription(q, type).sig = "closed" <=> q.sig = "closed"
  BY <1>1, PeerTyping, PeerClosing
<1> QED
  BY <1>1, <1>2 DEF q

\* A connection that has been left alone has nothing to call back for.
LEMMA CallbackAfterStart ==
  ASSUME IInv, NEW c \in Clients, pc[c].request # "none" \/ pc[c].toReport # {}
  PROVE  main \notin BeforeStart
<1>1. pc[c] # NewPeer
  BY DEF NewPeer
<1> QED
  BY <1>1 DEF IInv, Building

\* Once both clients are linked a living client finds both pointers set.
LEMMA CallNotNull ==
  ASSUME IInv, NEW c \in Clients, obj[c] = "alive", main \notin BeforeStart
  PROVE  CallThrough(c) \in {"none", "dead_peer"}
<1>1. /\ main \notin BeforeBindA \union {"bind_b"}
      /\ main \notin BeforeLinkA \union {"link_b"}
      /\ main \notin BeforeBindA /\ main \notin BeforeLinkA
  BY DEF BeforeStart, BeforeBindA, BeforeLinkA
<1>2. other_[A] = B /\ other_[B] = A
  BY <1>1 DEF IInv, Linked
<1>3. \A d \in Clients : obj[d] = "alive" => peer_connection_[d]
  <2>1. main \notin BeforeBindA /\ main \notin BeforeBindA \union {"bind_b"}
    BY <1>1
  <2>2. /\ obj[A] # "dead" => peer_connection_[A]
        /\ obj[B] # "dead" => peer_connection_[B]
    BY <2>1 DEF IInv, Linked
  <2> QED
    BY <2>2 DEF Clients
<1>4. other_[c] \in Clients /\ other_[c] # NoClient
  BY <1>2, TwoEnds, NullIsNoClient DEF Clients
<1>5. peer_connection_[c] = TRUE
  BY <1>3 DEF IInv, TypeOK
<1>6. obj[other_[c]] = "alive" => peer_connection_[other_[c]] = TRUE
  BY <1>3, <1>4 DEF IInv, TypeOK
<1> QED
  BY <1>4, <1>5, <1>6 DEF CallThrough

\* Only connections, the receiver's sink and the fault change.
LEMMA SignalEffect ==
  ASSUME IInv, NEW c \in Clients, SignalThread(c)
  PROVE  /\ UNCHANGED <<sample, main, obj, peer_connection_, other_, receiver_,
                        inFlight, rendering>>
         /\ UNCHANGED source
         /\ main \notin BeforeStart
         /\ pc' \in [Clients -> Peer]
         /\ \A d \in Clients : pc'[d].sig = "closed" <=> pc[d].sig = "closed"
         /\ fault' \in {"none", "dead_peer"}
         /\ remoteSinks' \subseteq Clients
         /\ B \in remoteSinks' => B \in remoteSinks \/ receiver_[B] # "null"
<1>1. /\ UNCHANGED <<sample, main, obj, peer_connection_, other_, receiver_, inFlight, rendering>>
      /\ UNCHANGED source
  BY DEF SignalThread, client
<1>2. main \notin BeforeStart
  BY CallbackAfterStart DEF SignalThread, OnSuccess, OnIceCandidate
<1>3. CallThrough(c) \in {"none", "dead_peer"}
  BY <1>2, CallNotNull DEF SignalThread
<1>4. pc \in [Clients -> Peer] /\ remoteSinks \subseteq Clients /\ fault = "none"
  BY DEF IInv, TypeOK, SignalThread, SignalThreadRuns, Works
<1> DEFINE o == OtherClient(c)
<1>5. o \in Clients /\ o # c /\ pc[c] \in Peer /\ pc[o] \in Peer
  BY <1>4, TwoEnds
<1> HIDE DEF o
<1>6. CASE OnSuccess(c)
  <2> DEFINE type == pc[c].request
             own == SetLocalDescription([pc[c] EXCEPT !.request = "none"], type)
             theirs == OnSdp(pc[o], type)
  <2>1. type \in SdpType
    BY <1>5, <1>6 DEF OnSuccess, Peer
  <2>2. pc' = [pc EXCEPT ![c] = own, ![o] = theirs] \/ pc' = [pc EXCEPT ![c] = own]
    BY <1>5, <1>6 DEF OnSuccess, o
  <2>3. /\ own \in Peer /\ theirs \in Peer
        /\ own.sig = "closed" <=> pc[c].sig = "closed"
        /\ theirs.sig = "closed" <=> pc[o].sig = "closed"
    BY <1>5, <2>1, OnSdpKeeps, OwnDescriptionKeeps
  <2> HIDE DEF own, theirs, type
  <2>4. /\ pc' \in [Clients -> Peer]
        /\ \A d \in Clients : pc'[d].sig = "closed" <=> pc[d].sig = "closed"
    BY <1>4, <1>5, <2>2, <2>3
  <2>5. c \in Sending => o = B /\ OnAddTrack(o) = "receiver"
    <3>1. c \in Sending => o = B
      BY TwoEnds DEF Sending, o
    <3>2. receiver_[B] # "null"
      BY <1>2 DEF IInv, Building, BeforeStart
    <3> QED
      BY <3>1, <3>2 DEF OnAddTrack
  <2>6. remoteSinks' \in {remoteSinks, remoteSinks \union {B}} /\ fault' \in {"none", "dead_peer"}
    BY <1>3, <1>4, <1>6, <2>5 DEF OnSuccess, o
  <2>7. receiver_[B] # "null"
    BY <1>2 DEF IInv, Building, BeforeStart
  <2> QED
    BY <1>1, <1>2, <1>4, <2>4, <2>6, <2>7, TwoEnds
<1>7. CASE OnIceCandidate(c)
  <2>1. PICK k \in pc[c].toReport :
          LET own == AddIceCandidate([pc[c] EXCEPT !.toReport = @ \ {k}], <<c, k>>)
          IN /\ \/ pc' = [pc EXCEPT ![c] = own, ![o] = AddIceCandidate(@, <<c, k>>)]
                \/ pc' = [pc EXCEPT ![c] = own]
             /\ fault' = CallThrough(c)
             /\ UNCHANGED remoteSinks
    BY <1>7 DEF OnIceCandidate, ReceivedIceCandidate, o
  <2> DEFINE less == [pc[c] EXCEPT !.toReport = @ \ {k}]
             own == AddIceCandidate(less, <<c, k>>)
             theirs == AddIceCandidate(pc[o], <<c, k>>)
  <2>2. <<c, k>> \in IceCandidate
    BY <1>5, <2>1 DEF Peer, IceCandidate
  <2>3. less \in Peer /\ less.sig = pc[c].sig
    BY <1>5, PeerTyping, PeerClosing
  <2>4. pc' = [pc EXCEPT ![c] = own, ![o] = theirs] \/ pc' = [pc EXCEPT ![c] = own]
    BY <1>4, <1>5, <2>1
  <2> HIDE DEF less
  <2>5. own \in Peer /\ theirs \in Peer /\ own.sig = pc[c].sig /\ theirs.sig = pc[o].sig
    BY <1>5, <2>2, <2>3, PeerTyping, PeerClosing
  <2> HIDE DEF own, theirs
  <2>6. /\ pc' \in [Clients -> Peer]
        /\ \A d \in Clients : pc'[d].sig = "closed" <=> pc[d].sig = "closed"
    BY <1>4, <1>5, <2>4, <2>5
  <2> QED
    BY <1>1, <1>2, <1>3, <1>4, <2>1, <2>6
<1> QED
  BY <1>6, <1>7 DEF SignalThread

------------------------------------------------------------------------------
(* Every step keeps each part of the invariant.                             *)

LEMMA InitIInv == Init => IInv
<1> SUFFICES ASSUME Init PROVE IInv
  OBVIOUS
<1>1. NewPeer \in Peer /\ NewPeer.sig # "closed"
  BY DEF NewPeer, Peer
<1>2. Source!TypeOK /\ SourceLife /\ owner = "new" /\ capture = "none" /\ remaining = {} /\ cnt = 0
  <2>1. Source!Init
    BY DEF Init
  <2>2. user["encoder"] = "unused" /\ 0 \in 0 .. MaxCount + 1
    BY <2>1, CountIsNat DEF Source!Init
  <2>3. cnt \in 0 .. MaxCount + 2 /\ cnt <= MaxCount + 1
    BY <2>1, CountIsNat DEF Source!Init
  <2>4. SourceLife
    BY <2>1, <2>2 DEF Source!Init, SourceLife, Source!Members
  <2> QED
    BY <2>1, <2>2, <2>3, <2>4 DEF Source!Init, Source!TypeOK
<1>3. TypeOK
  <2>1. 0 \in 0 .. MaxCount + 1
    BY CountIsNat
  <2>2. pc \in [Clients -> Peer] /\ main \in MainPoint
    BY <1>1 DEF Init, MainPoint
  <2> QED
    BY <1>2, <2>1, <2>2 DEF Init, TypeOK
<1>4. Building /\ Linked /\ Destruction
  BY <1>1, TwoEnds DEF Init, Building, Linked, Destruction, BeforeStart, BeforeLinkA, BeforeBindA
<1>5. EncoderLife /\ FrameCount /\ SinkFirst /\ NoNullPointer
  BY <1>2, TwoEnds DEF Init, EncoderLife, FrameCount, SinkFirst, NoNullPointer, NewPeer
<1> QED
  BY <1>2, <1>3, <1>4, <1>5 DEF IInv

LEMMA FrameCountStep ==
  ASSUME IInv, [Next]_vars
  PROVE  FrameCount'
<1> USE DEF FrameCount
<1>1. /\ inFlight \in Nat /\ cnt \in Nat /\ FrameCount /\ SourceLife /\ Source!TypeOK
      /\ sample \in {"audio", "video"}
  BY KnownSamples DEF IInv, TypeOK, Source!TypeOK
<1>2. ASSUME NEW c \in Clients, SignalThread(c) PROVE FrameCount'
  BY <1>1, <1>2 DEF SignalThread, source
<1>3. CASE EncoderAttached
  BY <1>1, <1>3 DEF EncoderAttached, Source!AddOrUpdateSink, media
<1>4. CASE MicrophoneFrame
  BY <1>1, <1>4 DEF MicrophoneFrame, source
<1>5. CASE OnFrame
  <2>1. inFlight' \in Nat /\ inFlight' <= inFlight
    <3>1. PICK n \in 0 .. MaxCount : n < inFlight /\ inFlight' = n
      BY <1>5 DEF OnFrame
    <3> QED
      BY <1>1, <3>1, CountIsNat
  <2> QED
    BY <1>1, <1>5, <2>1 DEF OnFrame, source
<1>6. CASE CaptureThread
  <2>1. sample' = sample /\ owner' = owner
    BY <1>6 DEF CaptureThread, Source!Capture, Source!PromiseKept, Source!LoopTest,
       Source!OnFrame, Source!Deliver, Source!FrameDone
  <2>2. sample = "video"
    \* In the audio sample there is no capture thread.
    BY <1>1, <1>6 DEF CaptureThread, Source!Capture, Source!PromiseKept, Source!LoopTest,
       Source!OnFrame, Source!Deliver, Source!FrameDone, SourceLife
  <2>3. CASE Source!LoopTest
    <3>1. capture = "looping" /\ remaining = {}
      BY <1>1, <2>3 DEF Source!LoopTest, SourceLife
    <3>2. inFlight' = inFlight
      BY <1>6, <3>1 DEF CaptureThread, Source!Deliver
    <3>3. remaining' = remaining /\ (capture' = "captured" => cnt' = cnt + 1)
          /\ (cnt' = cnt \/ cnt' = cnt + 1)
      BY <1>1, <2>3, CountIsNat DEF Source!LoopTest, Source!WithinLimit, Source!CountCap
    <3> QED
      BY <1>1, <2>1, <2>2, <3>1, <3>2, <3>3
  <2>4. CASE Source!PromiseKept \/ Source!OnFrame \/ Source!FrameDone
    <3>1. inFlight' = inFlight
      BY <1>6, <2>4 DEF CaptureThread, Source!Deliver, Source!PromiseKept, Source!OnFrame,
         Source!FrameDone
    <3> QED
      BY <1>1, <2>1, <2>2, <2>4, <3>1 DEF SourceLife, Source!PromiseKept, Source!OnFrame,
         Source!FrameDone
  <2>5. CASE Source!Deliver("encoder")
    <3>1. inFlight' \in {inFlight, inFlight + 1}
      BY <1>6 DEF CaptureThread
    <3>2. /\ "encoder" \in remaining /\ "encoder" \notin remaining'
          /\ capture' = "delivering" /\ cnt' = cnt
      BY <1>1, <2>5 DEF Source!Deliver
    <3> QED
      BY <1>1, <2>1, <2>2, <3>1, <3>2
  <2> QED
    BY <1>6, <2>3, <2>4, <2>5 DEF CaptureThread, Source!Capture
<1>7. CASE EncoderRemoved
  BY <1>1, <1>7 DEF EncoderRemoved, Source!ReturnFromRemoveSink, media
<1>8. CASE OnFrameReturns \/ Exit
  BY <1>1, <1>8 DEF OnFrameReturns, Exit, media, source
<1>9. CASE NewClients \/ NewSource \/ SourceStarted \/ Start
  \* When the thread is started no frame has been captured.
  BY <1>1, <1>9 DEF NewClients, NewSource, SourceStarted, Start, Goto, media, source, SourceLife,
     Source!StartCapture, Source!CaptureStarted
<1>10. ASSUME NEW c \in Clients, BindPeerConnection(c) \/ SetOther(c) PROVE FrameCount'
  BY <1>1, <1>10 DEF BindPeerConnection, SetOther, media, source
<1>11. ASSUME NEW c \in Clients, DropReference(c) \/ CloseReturns(c) \/ DestroyMembers(c)
       PROVE  FrameCount'
  BY <1>1, <1>11 DEF DropReference, CloseReturns, DestroyMembers, media, source,
     Source!CallRemoveSink
<1>12. CASE StopThread \/ ReleaseTrack \/ SourceDestroyed
  BY <1>1, <1>12 DEF StopThread, ReleaseTrack, SourceDestroyed, media, source,
     Source!ReleaseSource, Source!Destruction, Source!StopCapture, Source!JoinCapture,
     Source!DestroyBroadcaster, Source!Destroy
<1>13. CASE UNCHANGED vars
  BY <1>1, <1>13 DEF vars, media, source
<1> QED
  BY <1>2, <1>3, <1>4, <1>5, <1>6, <1>7, <1>8, <1>9, <1>10, <1>11, <1>12, <1>13
     DEF Next, MainProceeds, MediaPath

LEMMA InFlightStep ==
  ASSUME IInv, [Next]_vars
  PROVE  inFlight' \in 0 .. MaxCount + 1
<1>1. /\ inFlight \in 0 .. MaxCount + 1 /\ cnt' \in 0 .. MaxCount + 2
      /\ capture' # "done" => cnt' <= MaxCount + 1
      /\ sample \in {"audio", "video"} /\ MaxCount \in Nat
  BY SourceSteps, SourceTypeStep, KnownSamples, CountIsNat DEF IInv, TypeOK, Source!TypeOK
<1>2. CASE UNCHANGED inFlight
  BY <1>1, <1>2
<1>3. CASE MicrophoneFrame
  BY <1>1, <1>3 DEF MicrophoneFrame
<1>4. CASE OnFrame
  <2>1. PICK n \in 0 .. MaxCount : inFlight' = n
    BY <1>4 DEF OnFrame
  <2> QED
    BY <1>1, <2>1
<1>5. CASE CaptureThread
  <2>1. inFlight' \in Nat /\ sample' = sample
    BY <1>1, <1>5 DEF CaptureThread
  <2>2. sample # "audio"
    BY <1>5 DEF IInv, FrameCount, SourceLife, CaptureThread, Source!Capture, Source!PromiseKept,
       Source!LoopTest, Source!OnFrame, Source!Deliver, Source!FrameDone
  <2>3. inFlight' <= cnt'
    BY <2>1, <2>2, FrameCountStep DEF FrameCount
  <2>4. CASE Source!Deliver("encoder")
    <3>1. capture' = "delivering"
      BY <2>4 DEF Source!Deliver
    <3> QED
      BY <1>1, <2>1, <2>3, <3>1
  <2>5. CASE ~Source!Deliver("encoder")
    BY <1>1, <1>5, <2>5 DEF CaptureThread
  <2> QED
    BY <2>4, <2>5
<1>6. MicrophoneFrame \/ OnFrame \/ CaptureThread \/ UNCHANGED inFlight
  BY DEF Next, MainProceeds, MediaPath, SignalThread, EncoderAttached, EncoderRemoved,
     OnFrameReturns, Exit, NewClients, NewSource, SourceStarted, Start, BindPeerConnection,
     SetOther, DropReference, CloseReturns, DestroyMembers, StopThread, ReleaseTrack,
     SourceDestroyed, vars, media
<1> QED
  BY <1>2, <1>3, <1>4, <1>5, <1>6

LEMMA TypeStep ==
  ASSUME IInv, [Next]_vars
  PROVE  TypeOK'
<1> DEFINE Rest == /\ sample \in Samples /\ main \in MainPoint
                   /\ obj \in [Clients -> {"unborn", "alive", "closing", "closed", "dead"}]
                   /\ peer_connection_ \in [Clients -> BOOLEAN]
                   /\ other_ \in [Clients -> Clients \union {NoClient}]
                   /\ receiver_ \in [Clients -> {"null", "alive", "freed"}]
                   /\ pc \in [Clients -> Peer]
                   /\ remoteSinks \subseteq Clients /\ rendering \in BOOLEAN
                   /\ fault \in {"none", "null", "dead_peer"}
<1>1. Source!TypeOK' /\ inFlight' \in 0 .. MaxCount + 1
  BY SourceSteps, SourceTypeStep, InFlightStep DEF IInv, TypeOK
<1>2. Rest
  BY DEF IInv, TypeOK
<1> SUFFICES Rest'
  BY <1>1 DEF TypeOK
<1>3. ASSUME NEW c \in Clients, SignalThread(c) PROVE Rest'
  BY <1>2, <1>3, SignalEffect
<1>4. CASE EncoderAttached \/ MicrophoneFrame \/ CaptureThread \/ EncoderRemoved
  BY <1>2, <1>4 DEF EncoderAttached, MicrophoneFrame, CaptureThread, EncoderRemoved, client, media
<1>5. CASE OnFrame \/ OnFrameReturns
  <2>1. rendering' \in BOOLEAN
    <3>1. CASE OnFrame
      <4>1. (B \in remoteSinks) \in BOOLEAN
        OBVIOUS
      <4>2. rendering' = (B \in remoteSinks)
        BY <3>1 DEF OnFrame
      <4> QED
        BY <4>1, <4>2, Zenon
    <3>2. CASE OnFrameReturns
      BY <3>2 DEF OnFrameReturns
    <3> QED
      BY <1>5, <3>1, <3>2
  <2>2. UNCHANGED <<sample, main, client, pc, remoteSinks, fault>>
    BY <1>5 DEF OnFrame, OnFrameReturns
  <2> QED
    BY <1>2, <2>1, <2>2 DEF client
<1>6. CASE NewClients \/ NewSource \/ SourceStarted \/ Exit
  BY <1>2, <1>6 DEF NewClients, NewSource, SourceStarted, Exit, Goto, MainPoint, client, media
<1>7. CASE Start
  <2>1. CreateOffer(pc[A]) \in Peer
    BY <1>2, TwoEnds, PeerTyping
  <2>2. pc' \in [Clients -> Peer]
    BY <1>2, <1>7, <2>1 DEF Start
  <2> QED
    BY <1>2, <1>7, <2>2 DEF Start, Goto, MainPoint, client, media
<1>8. ASSUME NEW c \in Clients, BindPeerConnection(c) PROVE Rest'
  BY <1>2, <1>8 DEF BindPeerConnection, Goto, MainPoint, media
<1>9. ASSUME NEW c \in Clients, SetOther(c) PROVE Rest'
  BY <1>2, <1>9, TwoEnds DEF SetOther, Goto, MainPoint, media
<1>10. ASSUME NEW c \in Clients, DropReference(c) PROVE Rest'
  <2>1. main' \in {main, "drop_a", "drop_b", "stopping"}
    BY <1>10 DEF DropReference, Dropped
  <2>2. main' \in MainPoint
    BY <1>2, <2>1 DEF MainPoint
  <2> QED
    BY <1>2, <1>10, <2>2 DEF DropReference, media
<1>11. ASSUME NEW c \in Clients, CloseReturns(c) PROVE Rest'
  <2>1. Close(pc[c]) \in Peer
    BY <1>2, PeerTyping
  <2>2. pc' \in [Clients -> Peer]
    BY <1>2, <1>11, <2>1 DEF CloseReturns
  <2> QED
    BY <1>2, <1>11, <2>2 DEF CloseReturns, media
<1>12. ASSUME NEW c \in Clients, DestroyMembers(c) PROVE Rest'
  BY <1>2, <1>12 DEF DestroyMembers, Dropped, MainPoint, media
<1>13. CASE StopThread \/ ReleaseTrack \/ SourceDestroyed
  BY <1>2, <1>13 DEF StopThread, ReleaseTrack, SourceDestroyed, Goto, MainPoint, client, media
<1>14. CASE UNCHANGED vars
  BY <1>2, <1>14 DEF vars, client, media
<1> QED
  BY <1>3, <1>4, <1>5, <1>6, <1>7, <1>8, <1>9, <1>10, <1>11, <1>12, <1>13, <1>14
     DEF Next, MainProceeds, MediaPath

\* Steps in which main() stays where it is and no client comes or goes.
LEMMA OthersKeep ==
  ASSUME IInv, MediaPath \/ CaptureThread \/ EncoderRemoved \/ OnFrameReturns \/ UNCHANGED vars
  PROVE  UNCHANGED <<main, obj, peer_connection_, other_, receiver_, pc, remoteSinks, fault>>
BY DEF MediaPath, EncoderAttached, MicrophoneFrame, OnFrame, CaptureThread, EncoderRemoved,
   OnFrameReturns, vars, client, media

LEMMA BuildingStep ==
  ASSUME IInv, [Next]_vars
  PROVE  Building'
<1> USE DEF Building, BeforeStart
<1>1. Building /\ TypeOK
  BY DEF IInv
<1>2. ASSUME NEW c \in Clients, SignalThread(c) PROVE Building'
  BY <1>1, <1>2, SignalEffect
<1>3. CASE MediaPath \/ CaptureThread \/ EncoderRemoved \/ OnFrameReturns \/ UNCHANGED vars
  BY <1>1, <1>3, OthersKeep
<1>4. CASE NewClients
  BY <1>1, <1>4, TwoEnds DEF NewClients, Goto
<1>5. CASE NewSource \/ SourceStarted \/ Exit \/ StopThread \/ ReleaseTrack \/ SourceDestroyed
  BY <1>1, <1>5 DEF NewSource, SourceStarted, Exit, StopThread, ReleaseTrack, SourceDestroyed,
     Goto, client
<1>6. CASE Start
  BY <1>1, <1>6 DEF Start, Goto, client
<1>7. ASSUME NEW c \in Clients, BindPeerConnection(c) \/ SetOther(c) PROVE Building'
  BY <1>1, <1>7 DEF BindPeerConnection, SetOther, Goto
<1>8. ASSUME NEW c \in Clients, DropReference(c) \/ CloseReturns(c) \/ DestroyMembers(c)
      PROVE  Building'
  <2>1. main \notin BeforeStart
    <3>1. CASE DropReference(c) \/ DestroyMembers(c)
      BY <3>1 DEF DropReference, DestroyMembers
    <3>2. CASE CloseReturns(c)
      BY <1>1, <3>2 DEF CloseReturns
    <3> QED
      BY <1>8, <3>1, <3>2
  <2>2. main' \notin BeforeStart
    BY <1>8, <2>1 DEF DropReference, CloseReturns, DestroyMembers, Dropped
  <2>3. receiver_[B] # "null" => receiver_'[B] # "null"
    BY <1>1, <1>8, TwoEnds DEF DropReference, CloseReturns, DestroyMembers, TypeOK
  <2>4. \A d \in Clients : obj[d] # "unborn" => obj'[d] # "unborn"
    BY <1>1, <1>8 DEF DropReference, CloseReturns, DestroyMembers, TypeOK
  <2> QED
    BY <1>1, <2>1, <2>2, <2>3, <2>4
<1> QED
  BY <1>2, <1>3, <1>4, <1>5, <1>6, <1>7, <1>8 DEF Next, MainProceeds

LEMMA LinkedStep ==
  ASSUME IInv, [Next]_vars
  PROVE  Linked'
<1> USE DEF Linked, BeforeLinkA, BeforeBindA
<1>1. Linked /\ Building /\ TypeOK
  BY DEF IInv
<1>2. ASSUME NEW c \in Clients, SignalThread(c) PROVE Linked'
  BY <1>1, <1>2, SignalEffect
<1>3. CASE MediaPath \/ CaptureThread \/ EncoderRemoved \/ OnFrameReturns \/ UNCHANGED vars
  BY <1>1, <1>3, OthersKeep
<1>4. CASE NewClients \/ NewSource \/ SourceStarted \/ Start
  BY <1>1, <1>4 DEF NewClients, NewSource, SourceStarted, Start, Goto, client
<1>5. CASE Exit \/ StopThread \/ ReleaseTrack \/ SourceDestroyed
  BY <1>1, <1>5 DEF Exit, StopThread, ReleaseTrack, SourceDestroyed, Goto, client
<1>6. ASSUME NEW c \in Clients, BindPeerConnection(c) PROVE Linked'
  <2>1. CASE c = A
    BY <1>1, <1>6, <2>1, TwoEnds DEF BindPeerConnection, Goto, TypeOK
  <2>2. CASE c = B
    BY <1>1, <1>6, <2>2, TwoEnds, TwoClients DEF BindPeerConnection, Goto, TypeOK
  <2> QED
    BY <2>1, <2>2 DEF Clients
<1>7. ASSUME NEW c \in Clients, SetOther(c) PROVE Linked'
  <2>1. CASE c = A
    BY <1>1, <1>7, <2>1, TwoEnds DEF SetOther, Goto, TypeOK
  <2>2. CASE c = B
    BY <1>1, <1>7, <2>2, TwoEnds, TwoClients DEF SetOther, Goto, TypeOK
  <2> QED
    BY <2>1, <2>2 DEF Clients
<1>8. ASSUME NEW c \in Clients, DropReference(c) \/ CloseReturns(c) PROVE Linked'
  <2>1. /\ peer_connection_' = peer_connection_ /\ other_' = other_
        /\ \A d \in Clients : obj[d] = "dead" => obj'[d] = "dead"
    BY <1>1, <1>8 DEF DropReference, CloseReturns, TypeOK
  <2>2. main \notin BeforeLinkA \union {"link_b"}
    BY <1>1, <1>8 DEF DropReference, CloseReturns, Building, BeforeStart
  <2> QED
    BY <1>1, <2>1, <2>2, TwoEnds
<1>9. ASSUME NEW c \in Clients, DestroyMembers(c) PROVE Linked'
  <2>1. /\ other_' = other_ /\ obj'[c] = "dead"
        /\ \A d \in Clients \ {c} : obj'[d] = obj[d] /\ peer_connection_'[d] = peer_connection_[d]
    BY <1>1, <1>9 DEF DestroyMembers, TypeOK
  <2>2. main \notin BeforeLinkA \union {"link_b"}
    BY <1>9 DEF DestroyMembers
  <2> QED
    BY <1>1, <2>1, <2>2, TwoEnds
<1> QED
  BY <1>2, <1>3, <1>4, <1>5, <1>6, <1>7, <1>8, <1>9 DEF Next, MainProceeds

LEMMA DestructionStep ==
  ASSUME IInv, [Next]_vars
  PROVE  Destruction'
<1> USE DEF Destruction
<1>1. Destruction /\ Building /\ TypeOK
  BY DEF IInv
<1>2. ASSUME NEW c \in Clients, SignalThread(c) PROVE Destruction'
  BY <1>1, <1>2, SignalEffect, TwoEnds
<1>3. CASE MediaPath \/ CaptureThread \/ EncoderRemoved \/ OnFrameReturns \/ UNCHANGED vars
  <2>1. UNCHANGED <<obj, receiver_, pc, remoteSinks>>
    BY <1>3, OthersKeep
  <2>2. rendering' => rendering \/ (B \in remoteSinks /\ pc[B].sig # "closed")
    BY <1>3 DEF MediaPath, EncoderAttached, MicrophoneFrame, OnFrame, CaptureThread,
       EncoderRemoved, OnFrameReturns, vars, media
  <2>3. B \in remoteSinks /\ pc[B].sig # "closed" => receiver_[B] = "alive"
    \* A receiver that has been made is only freed with its closed client.
    <3>1. obj[B] \in {"unborn", "alive", "closing", "closed", "dead"}
      BY <1>1, TwoEnds DEF TypeOK
    <3>2. receiver_[B] # "null" => obj[B] # "unborn"
      BY <1>1, TwoEnds DEF Building
    <3> QED
      BY <1>1, <3>1, <3>2, TwoEnds
  <2> QED
    BY <1>1, <2>1, <2>2, <2>3
<1>4. CASE NewClients
  BY <1>1, <1>4, TwoEnds, TwoClients DEF NewClients, Goto, TypeOK, media, Building
<1>5. CASE NewSource \/ SourceStarted \/ Exit \/ StopThread \/ ReleaseTrack \/ SourceDestroyed
  BY <1>1, <1>5 DEF NewSource, SourceStarted, Exit, StopThread, ReleaseTrack, SourceDestroyed,
     client, media
<1>6. CASE Start
  <2>1. CreateOffer(pc[A]).sig = pc[A].sig
    BY <1>1, TwoEnds, PeerClosing DEF TypeOK
  <2>2. \A d \in Clients : pc'[d].sig = pc[d].sig
    BY <1>1, <1>6, <2>1, TwoEnds DEF Start, TypeOK
  <2> QED
    BY <1>1, <1>6, <2>2, TwoEnds DEF Start, client, media
<1>7. ASSUME NEW c \in Clients, BindPeerConnection(c) \/ SetOther(c) PROVE Destruction'
  BY <1>1, <1>7 DEF BindPeerConnection, SetOther, media
<1>8. ASSUME NEW c \in Clients, DropReference(c) PROVE Destruction'
  <2>1. UNCHANGED <<receiver_, pc, remoteSinks, rendering>>
    BY <1>8 DEF DropReference, media
  <2>2. obj' = obj \/ (obj[c] = "alive" /\ obj' = [obj EXCEPT ![c] = "closing"])
    BY <1>8 DEF DropReference
  <2>3. \A d \in Clients : obj'[d] = obj[d] \/ (obj[d] = "alive" /\ obj'[d] = "closing")
    BY <1>1, <2>2 DEF TypeOK
  <2> QED
    BY <1>1, <2>1, <2>3, TwoEnds
<1>9. ASSUME NEW c \in Clients, CloseReturns(c) PROVE Destruction'
  <2>1. UNCHANGED <<receiver_, remoteSinks, rendering>>
    BY <1>9 DEF CloseReturns, media
  <2>2. obj[c] = "closing" /\ obj'[c] = "closed" /\ (c = B => ~rendering)
    BY <1>1, <1>9, TwoClients DEF CloseReturns, TypeOK
  <2>3. \A d \in Clients \ {c} : obj'[d] = obj[d] /\ pc'[d] = pc[d]
    BY <1>1, <1>9 DEF CloseReturns, TypeOK
  <2>4. pc'[c].sig = "closed"
    BY <1>1, <1>9, PeerClosing DEF CloseReturns, TypeOK
  <2> QED
    BY <1>1, <2>1, <2>2, <2>3, <2>4, TwoEnds
<1>10. ASSUME NEW c \in Clients, DestroyMembers(c) PROVE Destruction'
  <2>1. UNCHANGED <<pc, remoteSinks, rendering>> /\ obj[c] = "closed" /\ obj'[c] = "dead"
    BY <1>1, <1>10 DEF DestroyMembers, ClosedFirst, media, TypeOK
  <2>2. \A d \in Clients \ {c} : obj'[d] = obj[d] /\ receiver_'[d] = receiver_[d]
    BY <1>1, <1>10 DEF DestroyMembers, TypeOK
  <2>3. receiver_[B] # "null" => receiver_'[B] # "null"
    BY <1>1, <1>10, TwoEnds DEF DestroyMembers, TypeOK
  <2> QED
    BY <1>1, <2>1, <2>2, <2>3, TwoEnds
<1> QED
  BY <1>2, <1>3, <1>4, <1>5, <1>6, <1>7, <1>8, <1>9, <1>10 DEF Next, MainProceeds

LEMMA EncoderLifeStep ==
  ASSUME IInv, [Next]_vars
  PROVE  EncoderLife'
<1> USE DEF EncoderLife
<1>1. /\ EncoderLife /\ Building /\ TypeOK /\ Source!TypeOK
      /\ obj[A] \in {"unborn", "alive", "closing", "closed", "dead"}
  BY TwoEnds DEF IInv, TypeOK
<1>2. ASSUME NEW c \in Clients, SignalThread(c) PROVE EncoderLife'
  BY <1>1, <1>2, SignalEffect DEF source
<1>3. CASE EncoderAttached
  BY <1>1, <1>3 DEF EncoderAttached, client
<1>4. CASE CaptureThread
  BY <1>1, <1>4 DEF CaptureThread, client, Source!Capture, Source!PromiseKept, Source!LoopTest,
     Source!OnFrame, Source!Deliver, Source!FrameDone
<1>5. CASE MicrophoneFrame \/ OnFrame \/ OnFrameReturns \/ UNCHANGED vars
  BY <1>1, <1>5 DEF MicrophoneFrame, OnFrame, OnFrameReturns, vars, client, source
<1>6. CASE EncoderRemoved
  <2>1. user'["encoder"] = "freed" /\ obj' = obj
    BY <1>1, <1>6 DEF EncoderRemoved, Source!ReturnFromRemoveSink, Source!TypeOK, client
  <2> QED
    BY <1>1, <2>1
<1>7. CASE NewClients
  BY <1>1, <1>7, TwoEnds DEF NewClients
<1>8. CASE NewSource \/ SourceStarted \/ Start \/ Exit \/ StopThread \/ ReleaseTrack \/ SourceDestroyed
  BY <1>1, <1>8 DEF NewSource, SourceStarted, Start, Exit, StopThread, ReleaseTrack,
     SourceDestroyed, client, source, Source!StartCapture, Source!CaptureStarted,
     Source!ReleaseSource, Source!Destruction, Source!StopCapture, Source!JoinCapture,
     Source!DestroyBroadcaster
<1>9. ASSUME NEW c \in Clients, BindPeerConnection(c) \/ SetOther(c) PROVE EncoderLife'
  BY <1>1, <1>9 DEF BindPeerConnection, SetOther, source
<1>10. ASSUME NEW c \in Clients, DropReference(c) PROVE EncoderLife'
  <2>1. CASE c = A
    <3>1. obj[A] = "alive" /\ (obj' = obj \/ obj' = [obj EXCEPT ![A] = "closing"])
      BY <1>10, <2>1 DEF DropReference
    <3>2. obj'[A] # "alive" => user'["encoder"] # "attached"
      \* CallRemoveSink is made for an attached encoder.
      BY <1>1, <1>10, <2>1 DEF DropReference, Source!CallRemoveSink, Source!TypeOK, source
    <3>3. obj'[A] \in {"alive", "closing"}
      BY <1>1, <3>1, TwoEnds DEF TypeOK
    <3> QED
      BY <3>2, <3>3
  <2>2. CASE c # A
    BY <1>1, <1>10, <2>2, TwoEnds DEF DropReference, source, TypeOK
  <2> QED
    BY <2>1, <2>2
<1>11. ASSUME NEW c \in Clients, CloseReturns(c) PROVE EncoderLife'
  <2>1. user' = user /\ (c = A => obj[A] = "closing" /\ user["encoder"] # "removing")
    BY <1>11 DEF CloseReturns, source
  <2>2. c # A => obj'[A] = obj[A]
    BY <1>1, <1>11, TwoEnds DEF CloseReturns, TypeOK
  <2> QED
    BY <1>1, <2>1, <2>2
<1>12. ASSUME NEW c \in Clients, DestroyMembers(c) PROVE EncoderLife'
  <2>1. user' = user /\ obj[c] = "closed"
    BY <1>12 DEF DestroyMembers, ClosedFirst, source
  <2>2. c # A => obj'[A] = obj[A]
    BY <1>1, <1>12, TwoEnds DEF DestroyMembers, TypeOK
  <2> QED
    BY <1>1, <2>1, <2>2
<1> QED
  BY <1>2, <1>3, <1>4, <1>5, <1>6, <1>7, <1>8, <1>9, <1>10, <1>11, <1>12
     DEF Next, MainProceeds, MediaPath

\* The calls on a connection that carry no remote description leave it alone.
LEMMA RemoteKept ==
  ASSUME NEW p \in Peer
  PROVE  /\ CreateOffer(p).remote = p.remote
         /\ CreateAnswer(p).remote = p.remote
         /\ Close(p).remote = p.remote
         /\ [p EXCEPT !.request = "none"].remote = p.remote
         /\ \A type \in SdpType : SetLocalDescription(p, type).remote = p.remote
         /\ \A cand : AddIceCandidate(p, cand).remote = p.remote
         /\ \A k : [p EXCEPT !.toReport = @ \ {k}].remote = p.remote
<1>1. CreateOffer(p).remote = p.remote /\ CreateAnswer(p).remote = p.remote
  BY DEF Peer, CreateOffer, CreateAnswer, Fail
<1>2. Close(p).remote = p.remote /\ [p EXCEPT !.request = "none"].remote = p.remote
  BY DEF Peer, Close
<1>3. ASSUME NEW type \in SdpType PROVE SetLocalDescription(p, type).remote = p.remote
  BY <1>3 DEF Peer, SetLocalDescription, Fail, SdpType
<1>4. ASSUME NEW cand PROVE AddIceCandidate(p, cand).remote = p.remote
  BY DEF Peer, AddIceCandidate
<1>5. ASSUME NEW k PROVE [p EXCEPT !.toReport = @ \ {k}].remote = p.remote
  BY DEF Peer
<1> QED
  BY <1>1, <1>2, <1>3, <1>4, <1>5

\* Only a description from A changes what B has taken, and it brings the sink.
LEMMA SignalSink ==
  ASSUME IInv, NEW c \in Clients, SignalThread(c)
  PROVE  /\ remoteSinks \subseteq remoteSinks'
         /\ pc'[B].remote = pc[B].remote \/ B \in remoteSinks'
<1>1. pc \in [Clients -> Peer] /\ receiver_[B] # "null"
  <2>1. main \notin BeforeStart
    BY CallbackAfterStart DEF SignalThread, OnSuccess, OnIceCandidate
  <2> QED
    BY <2>1 DEF IInv, TypeOK, Building, BeforeStart
<1>2. CASE OnSuccess(c)
  <2> DEFINE type == pc[c].request
             less == [pc[c] EXCEPT !.request = "none"]
             own == SetLocalDescription(less, type)
  <2>1. less \in Peer /\ less.remote = pc[c].remote /\ type \in SdpType
    BY <1>1, <1>2, PeerTyping, RemoteKept DEF OnSuccess, Peer
  <2>2. /\ remoteSinks \subseteq remoteSinks'
        /\ pc' = [pc EXCEPT ![c] = own]
           \/ \E q : /\ pc' = [pc EXCEPT ![c] = own, ![OtherClient(c)] = q]
                     /\ c = A => B \in remoteSinks'
    <3>1. c = A => c \in Sending /\ OtherClient(c) = B /\ OnAddTrack(B) = "receiver"
      BY <1>1, TwoEnds DEF Sending, OnAddTrack
    <3> HIDE DEF own
    <3>2. CASE CallThrough(c) = "none"
      <4>1. pc' = [pc EXCEPT ![c] = own, ![OtherClient(c)] = OnSdp(@, type)]
        BY <1>2, <3>2 DEF OnSuccess, own
      <4>2. PICK q : pc' = [pc EXCEPT ![c] = own, ![OtherClient(c)] = q]
        BY <4>1
      <4>3. remoteSinks' = IF c \in Sending /\ OnAddTrack(OtherClient(c)) = "receiver"
                           THEN remoteSinks \union {OtherClient(c)} ELSE remoteSinks
        BY <1>2, <3>2 DEF OnSuccess
      <4> QED
        BY <3>1, <4>2, <4>3
    <3>3. CASE CallThrough(c) # "none"
      BY <1>2, <3>3 DEF OnSuccess, own
    <3> QED
      BY <3>2, <3>3
  <2>3. own.remote = pc[c].remote
    BY <2>1, RemoteKept
  <2> HIDE DEF own
  <2> QED
    BY <1>1, <2>2, <2>3, TwoEnds DEF Clients
<1>3. CASE OnIceCandidate(c)
  <2>1. PICK k \in pc[c].toReport :
          LET own == AddIceCandidate([pc[c] EXCEPT !.toReport = @ \ {k}], <<c, k>>)
          IN /\ \/ pc' = [pc EXCEPT ![c] = own, ![OtherClient(c)] = AddIceCandidate(@, <<c, k>>)]
                \/ pc' = [pc EXCEPT ![c] = own]
             /\ UNCHANGED remoteSinks
    BY <1>3 DEF OnIceCandidate, ReceivedIceCandidate
  <2> DEFINE less == [pc[c] EXCEPT !.toReport = @ \ {k}]
             own == AddIceCandidate(less, <<c, k>>)
             theirs == AddIceCandidate(pc[OtherClient(c)], <<c, k>>)
  <2>2. less \in Peer /\ less.remote = pc[c].remote
    BY <1>1, PeerTyping, RemoteKept
  <2>3. \/ pc' = [pc EXCEPT ![c] = own, ![OtherClient(c)] = theirs]
        \/ pc' = [pc EXCEPT ![c] = own]
    BY <1>1, <2>1, TwoEnds
  <2> HIDE DEF less
  <2>4. own.remote = pc[c].remote /\ theirs.remote = pc[OtherClient(c)].remote
    BY <1>1, <2>2, RemoteKept, TwoEnds
  <2> HIDE DEF own, theirs
  <2> QED
    BY <1>1, <2>1, <2>3, <2>4, TwoEnds DEF Clients
<1> QED
  BY <1>2, <1>3 DEF SignalThread

LEMMA SinkFirstStep ==
  ASSUME IInv, [Next]_vars
  PROVE  SinkFirst'
<1> USE DEF SinkFirst
<1>1. SinkFirst /\ pc \in [Clients -> Peer] /\ inFlight \in Nat
  BY DEF IInv, TypeOK
<1>2. ASSUME NEW c \in Clients, SignalThread(c) PROVE SinkFirst'
  BY <1>1, <1>2, SignalSink DEF SignalThread
<1>3. CASE CaptureThread \/ MicrophoneFrame
  <2>1. UNCHANGED <<pc, remoteSinks>>
    BY <1>3 DEF CaptureThread, MicrophoneFrame
  <2>2. inFlight' # inFlight => TransportConnected
    BY <1>3 DEF CaptureThread, MicrophoneFrame
  <2>3. TransportConnected => B \in remoteSinks
    BY <1>1, TwoEnds DEF TransportConnected, Negotiated
  <2> QED
    BY <1>1, <2>1, <2>2, <2>3
<1>4. CASE OnFrame
  <2>1. inFlight > 0 /\ UNCHANGED <<pc, remoteSinks>>
    <3>1. PICK n \in 0 .. MaxCount : n < inFlight
      BY <1>4 DEF OnFrame
    <3> QED
      BY <1>1, <1>4, <3>1 DEF OnFrame
  <2> QED
    BY <1>1, <2>1
<1>5. CASE EncoderAttached \/ EncoderRemoved \/ OnFrameReturns \/ UNCHANGED vars
  BY <1>1, <1>5 DEF EncoderAttached, EncoderRemoved, OnFrameReturns, vars, media
<1>6. CASE NewClients \/ NewSource \/ SourceStarted \/ Exit \/ StopThread \/ ReleaseTrack
           \/ SourceDestroyed
  BY <1>1, <1>6 DEF NewClients, NewSource, SourceStarted, Exit, StopThread, ReleaseTrack,
     SourceDestroyed, media
<1>7. CASE Start
  BY <1>1, <1>7, TwoEnds, TwoClients DEF Start, media
<1>8. ASSUME NEW c \in Clients,
             BindPeerConnection(c) \/ SetOther(c) \/ DropReference(c) \/ DestroyMembers(c)
      PROVE  SinkFirst'
  BY <1>1, <1>8 DEF BindPeerConnection, SetOther, DropReference, DestroyMembers, media
<1>9. ASSUME NEW c \in Clients, CloseReturns(c) PROVE SinkFirst'
  <2>1. pc' = [pc EXCEPT ![c] = Close(pc[c])] /\ UNCHANGED <<remoteSinks, inFlight>>
    BY <1>9 DEF CloseReturns, media
  <2>2. Close(pc[c]).remote = pc[c].remote
    BY <1>1, RemoteKept
  <2>3. pc'[B].remote = pc[B].remote
    BY <1>1, <2>1, <2>2, TwoEnds
  <2> QED
    BY <1>1, <2>1, <2>3
<1> QED
  BY <1>2, <1>3, <1>4, <1>5, <1>6, <1>7, <1>8, <1>9 DEF Next, MainProceeds, MediaPath

LEMMA NoNullPointerStep ==
  ASSUME IInv, [Next]_vars
  PROVE  NoNullPointer'
<1> USE DEF NoNullPointer
<1>1. fault # "null"
  BY DEF IInv
<1>2. ASSUME NEW c \in Clients, SignalThread(c) PROVE fault' # "null"
  BY <1>2, SignalEffect
<1>3. CASE MediaPath \/ CaptureThread \/ EncoderRemoved \/ OnFrameReturns \/ UNCHANGED vars
  BY <1>1, <1>3, OthersKeep
<1>4. CASE MainProceeds \/ Exit
  BY <1>1, <1>4 DEF MainProceeds, NewClients, NewSource, SourceStarted, Start, Exit,
     BindPeerConnection, SetOther, DropReference, CloseReturns, DestroyMembers, StopThread,
     ReleaseTrack, SourceDestroyed
<1> QED
  BY <1>2, <1>3, <1>4 DEF Next

LEMMA Invariance == Spec => []IInv
<1>1. IInv /\ [Next]_vars => IInv'
  <2> SUFFICES ASSUME IInv, [Next]_vars PROVE IInv'
    OBVIOUS
  <2>1. SourceLife'
    BY SourceSteps, SourceLifeStep DEF IInv, TypeOK
  <2> QED
    BY <2>1, TypeStep, BuildingStep, LinkedStep, DestructionStep, EncoderLifeStep,
       FrameCountStep, SinkFirstStep, NoNullPointerStep DEF IInv
<1> QED
  BY InitIInv, <1>1, PTL DEF Spec

------------------------------------------------------------------------------
(* The theorems.                                                            *)

\* Every variable keeps its type; in particular no more frames are under way
\* than the capture loop has made.
THEOREM TypeCorrect == Spec => []TypeOK
<1>1. IInv => TypeOK
  BY DEF IInv
<1> QED
  BY <1>1, Invariance, PTL

\* The media samples use their video source as VideoSource says: whatever they
\* do to it, owner, capture thread and encoder take a step of VideoSource
\* (video-channel/main.cpp:55-122, 180-185, 291-293).
THEOREM SourceTheorem == Spec => Source!Spec
<1>1. Init => Source!Init
  BY DEF Init
<1>2. [Next]_vars => [Source!Next]_(Source!vars)
  BY SourceSteps DEF source, Source!vars
<1> QED
  BY <1>1, <1>2, PTL DEF Spec, Source!Spec

\* A decoded frame is only ever inside a receiver that exists
\* (video-channel/main.cpp:180-185, 266-269, audio-channel/main.cpp:80-85, 153-156).
THEOREM ReceiverTheorem == Spec => []NoFrameToDeadReceiver
<1>1. IInv => NoFrameToDeadReceiver
  BY DEF IInv, Destruction, NoFrameToDeadReceiver
<1> QED
  BY <1>1, Invariance, PTL

\* A closed sender gets no frame, and the capture thread never works in a member
\* of the source that is gone (video-channel/main.cpp:84, 96-104, 182).
THEOREM QuietTheorem == Spec => []ClosedSenderIsQuiet
<1>1. ASSUME IInv PROVE ClosedSenderIsQuiet
  <2>1. pc[A].sig = "closed" => obj[A] \in {"closed", "dead"}
    BY <1>1, TwoEnds DEF IInv, Destruction
  <2>2. pc[A].sig = "closed" => user["encoder"] \notin {"attached", "removing"}
    BY <1>1, <2>1 DEF IInv, EncoderLife
  <2>3. pc[A].sig = "closed" => "encoder" \notin sinks \union remaining
    BY <1>1, <2>2 DEF IInv, SourceLife
  <2>4. Source!LoopMeetsLiveMembers
    BY <1>1 DEF IInv, SourceLife, Source!LoopMeetsLiveMembers
  <2> QED
    BY <2>3, <2>4 DEF ClosedSenderIsQuiet
<1> QED
  BY <1>1, Invariance, PTL

\* The receiver's sink is on the remote track before media can reach it
\* (video-channel/main.cpp:215-235, audio-channel/main.cpp:113-129).
THEOREM SinkTheorem == Spec => []SinkBeforeMedia
<1>1. IInv => SinkBeforeMedia
  BY TwoEnds DEF IInv, SinkFirst, SinkBeforeMedia, TransportConnected, Negotiated
<1> QED
  BY <1>1, Invariance, PTL

\* No callback finds a pointer null that main() sets after AddTrack, and no null
\* sink is added (audio-channel/main.cpp:117-120, 178-187).
THEOREM NullTheorem == Spec => []NoNullPointer
<1>1. IInv => NoNullPointer
  BY DEF IInv
<1> QED
  BY <1>1, Invariance, PTL
===============================================================================
