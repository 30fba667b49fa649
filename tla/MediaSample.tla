----------------------------- MODULE MediaSample -----------------------------
(***************************************************************************)
(* The audio and the video sample (src/audio-channel/main.cpp and          *)
(* src/video-channel/main.cpp): a sender and a receiver in one process     *)
(* negotiate one media track.  The two programs are the same but for the   *)
(* source of the track and for OnAddTrack; "sample" says which one runs.   *)
(*                                                                         *)
(* The threads: main(); the signaling thread, which runs the callbacks and *)
(* the destructors of the clients; the capture thread of the video sample, *)
(* which is VideoSource with libwebrtc's encoder as its only sink; and the *)
(* thread on which libwebrtc hands decoded media to the receiver.          *)
(***************************************************************************)
EXTENDS PeerConnection, Naturals

CONSTANTS NoClient,     \* a null SimpleClient*
          Samples,      \* the programs to run
          MaxCount      \* the limit of the capture loop; also bounds inFlight

ASSUME NullIsNoClient == NoClient \notin Clients
ASSUME KnownSamples == Samples \subseteq {"audio", "video"}
ASSUME CountIsNat == MaxCount \in Nat

VARIABLES sample,            \* the program that runs
          main,              \* where main() is
          obj,               \* life of each SimpleClient
          peer_connection_,  \* whether the member is non-null
          other_,            \* the raw pointer to the other client
          receiver_,         \* video_receiver_ or audio_receiver_
          pc,                \* the PeerConnection of each client
          remoteSinks,       \* clients whose receiver_ is a sink of the remote track
          inFlight,          \* frames sent and neither lost nor decoded
          rendering,         \* a decoded frame is inside OnFrame or OnData
          fault              \* why the process stopped working, if it did

\* The variables of VideoSource.
VARIABLES owner, capture, cnt, running_, members, sinks, remaining, user

Source == INSTANCE VideoSource WITH Sinks <- {"encoder"}

source == <<owner, capture, cnt, running_, members, sinks, remaining, user>>
client == <<obj, peer_connection_, other_, receiver_>>
media == <<remoteSinks, inFlight, rendering>>
vars == <<sample, main, client, pc, media, fault, source>>

Init ==
  /\ sample \in Samples
  /\ main = "boot" /\ fault = "none"
  /\ obj = [c \in Clients |-> "unborn"]
  /\ peer_connection_ = [c \in Clients |-> FALSE]
  /\ other_ = [c \in Clients |-> NoClient]
  /\ receiver_ = [c \in Clients |-> "null"]
  /\ pc = [c \in Clients |-> NewPeer]
  /\ remoteSinks = {} /\ inFlight = 0 /\ rendering = FALSE
  /\ Source!Init

------------------------------------------------------------------------------
(* The signaling thread.                                                    *)

Works == fault = "none"

\* While main() waits in Invoke the thread is busy with the destructors.  (First:
\* main() releases the clients itself, beside the signaling thread.)
RunsBeside == Works /\ main \notin {"boot", "stopped", "releasing", "done"}
SignalThreadRuns ==
  Works /\ main \notin {"boot", "drop_a", "drop_b", "stopped", "releasing", "done"}

\* What a call of c through peer_connection_ and other_ meets.
CallThrough(c) ==
  IF ~peer_connection_[c] \/ other_[c] = NoClient THEN "null"
  ELSE IF obj[other_[c]] # "alive" THEN "dead_peer"
  ELSE IF ~peer_connection_[other_[c]] THEN "null" ELSE "none"

\* AddTrack is called on the first connection only.  (First: on both.)
BothSend == Clients
Sending == {A}

\* The sink OnAddTrack adds: the video sample looks at the receiver first.
\* (First: it waits for a track of another kind.)
NobodyReceives(c) == "none"
OnAddTrack(c) ==
  IF receiver_[c] # "null" THEN "receiver"
  ELSE IF sample = "audio" THEN "null" ELSE "none"

OnSdp(p, type) ==
  LET q == SetRemoteDescription(p, type) IN IF type = "offer" THEN CreateAnswer(q) ELSE q

\* The description is set and handed to the other client, whose connection
\* reports the sender's track before it returns.
OnSuccess(c) ==
  /\ pc[c].request # "none"
  /\ LET type == pc[c].request
         own == SetLocalDescription([pc[c] EXCEPT !.request = "none"], type)
         o == OtherClient(c)
     IN IF CallThrough(c) = "none"
        THEN /\ pc' = [pc EXCEPT ![c] = own, ![o] = OnSdp(@, type)]
             /\ remoteSinks' = IF c \in Sending /\ OnAddTrack(o) = "receiver"
                               THEN remoteSinks \cup {o} ELSE remoteSinks
             /\ fault' = IF c \in Sending /\ OnAddTrack(o) = "null" THEN "null" ELSE fault
        ELSE /\ pc' = [pc EXCEPT ![c] = own]
             /\ fault' = CallThrough(c) /\ UNCHANGED remoteSinks

ReceivedIceCandidate(p, cand) == AddIceCandidate(p, cand)

OnIceCandidate(c) ==
  \E k \in pc[c].toReport :
    LET own == AddIceCandidate([pc[c] EXCEPT !.toReport = @ \ {k}], <<c, k>>)
    IN /\ pc' = IF CallThrough(c) = "none"
                THEN [pc EXCEPT ![c] = own,
                                ![OtherClient(c)] = ReceivedIceCandidate(@, <<c, k>>)]
                ELSE [pc EXCEPT ![c] = own]
       /\ fault' = CallThrough(c)
       /\ UNCHANGED remoteSinks

SignalThread(c) ==
  /\ SignalThreadRuns /\ obj[c] = "alive"
  /\ OnSuccess(c) \/ OnIceCandidate(c)
  /\ UNCHANGED <<sample, main, client, inFlight, rendering, source>>

------------------------------------------------------------------------------
(* The media path: libwebrtc between the source and the receiver.           *)

TransportConnected ==
  /\ \A c \in Clients : Negotiated(pc[c])
  /\ \E c \in Clients : pc[c].remoteCandidates \cap CandidatesOf(OtherClient(c)) # {}

\* Once the negotiation is over the encoder becomes a sink of the source.
EncoderAttached ==
  /\ Works /\ sample = "video" /\ obj[A] = "alive" /\ Negotiated(pc[A])
  /\ Source!AddOrUpdateSink("encoder")
  /\ UNCHANGED <<sample, main, client, pc, media, fault>>

\* A frame that reaches the encoder is sent if there is a transport.
CaptureThread ==
  /\ Works /\ Source!Capture
  /\ inFlight' = IF Source!Deliver("encoder") /\ TransportConnected THEN inFlight + 1 ELSE inFlight
  /\ UNCHANGED <<sample, main, client, pc, remoteSinks, rendering, fault>>

\* The audio sample's source is a microphone of libwebrtc.
MicrophoneFrame ==
  /\ Works /\ sample = "audio" /\ obj[A] = "alive" /\ TransportConnected /\ inFlight <= MaxCount
  /\ inFlight' = inFlight + 1
  /\ UNCHANGED <<sample, main, client, pc, remoteSinks, rendering, fault, source>>

\* A frame is decoded; frames before it may have been lost.
OnFrame ==
  /\ Works /\ pc[B].sig # "closed" /\ ~rendering
  /\ inFlight' \in {n \in 0 .. MaxCount : n < inFlight}
  /\ rendering' = (B \in remoteSinks)
  /\ UNCHANGED <<sample, main, client, pc, remoteSinks, fault, source>>

OnFrameReturns ==
  /\ Works /\ rendering /\ rendering' = FALSE
  /\ UNCHANGED <<sample, main, client, pc, remoteSinks, inFlight, fault, source>>

------------------------------------------------------------------------------
(* main() up to the console.                                                *)

Goto(from, to) == Works /\ main = from /\ main' = to

NewClients ==
  /\ Goto("boot", "source")
  /\ obj' = [c \in Clients |-> "alive"]
  /\ receiver_' = [c \in Clients |-> IF c = A THEN "null" ELSE "alive"]
  /\ UNCHANGED <<sample, peer_connection_, other_, pc, media, fault, source>>

\* The video track's constructor starts the capture thread and waits for it.
NewSource ==
  /\ \/ sample = "video" /\ Goto("source", "starting") /\ Source!StartCapture
     \/ sample = "audio" /\ Goto("source", "bind_a") /\ UNCHANGED source
  /\ UNCHANGED <<sample, client, pc, media, fault>>

SourceStarted ==
  /\ Goto("starting", "bind_a") /\ Source!CaptureStarted
  /\ UNCHANGED <<sample, client, pc, media, fault>>

\* Both connections exist by now and the sender's has the track.
BindPeerConnection(c) ==
  /\ IF c = A THEN Goto("bind_a", "bind_b") ELSE Goto("bind_b", "link_a")
  /\ peer_connection_' = [peer_connection_ EXCEPT ![c] = TRUE]
  /\ UNCHANGED <<sample, obj, other_, receiver_, pc, media, fault, source>>

SetOther(c) ==
  /\ IF c = A THEN Goto("link_a", "link_b") ELSE Goto("link_b", "start")
  /\ other_' = [other_ EXCEPT ![c] = OtherClient(c)]
  /\ UNCHANGED <<sample, obj, peer_connection_, receiver_, pc, media, fault, source>>

Start ==
  /\ Goto("start", "console")
  /\ pc' = [pc EXCEPT ![A] = CreateOffer(@)]
  /\ UNCHANGED <<sample, client, media, fault, source>>

\* The user types "exit"; any other word changes nothing.
Exit == /\ Goto("console", "exiting")
        /\ UNCHANGED <<sample, client, pc, media, fault, source>>

------------------------------------------------------------------------------
(* Teardown: sender = nullptr; receiver = nullptr; in one task of the       *)
(* signaling thread, then Stop() and the end of main()'s scope.             *)

\* A create request that has not completed holds a reference to its client.
Released(c) == pc[c].request = "none"
Dropped(c) == IF c = A THEN "drop_b" ELSE "stopping"

\* The last reference goes and ~SimpleClient calls Close(), which takes the
\* encoder off the source; or a pending request keeps the client.
DropReference(c) ==
  /\ Works /\ main = (IF c = A THEN "exiting" ELSE "drop_b") /\ obj[c] = "alive"
  /\ IF Released(c)
     THEN /\ obj' = [obj EXCEPT ![c] = "closing"]
          /\ main' = IF c = A THEN "drop_a" ELSE "drop_b"
          /\ IF c = A /\ user["encoder"] = "attached"
             THEN Source!CallRemoveSink("encoder") ELSE UNCHANGED source
     ELSE main' = Dropped(c) /\ UNCHANGED <<obj, source>>
  /\ UNCHANGED <<sample, peer_connection_, other_, receiver_, pc, media, fault>>

EncoderRemoved == /\ Works /\ Source!ReturnFromRemoveSink("encoder")
                  /\ UNCHANGED <<sample, main, client, pc, media, fault>>

\* Close() returns once the connection uses neither source nor sink.
CloseReturns(c) ==
  /\ Works /\ obj[c] = "closing"
  /\ IF c = A THEN user["encoder"] # "removing" ELSE ~rendering
  /\ obj' = [obj EXCEPT ![c] = "closed"]
  /\ pc' = [pc EXCEPT ![c] = Close(@)]
  /\ UNCHANGED <<sample, main, peer_connection_, other_, receiver_, media, fault, source>>

\* The members go after the body of the destructor, the receiver before the
\* connection.  (First: a destructor that leaves closing to the members.)
ClosedByMember(c) == obj[c] \in {"closing", "closed"}
ClosedFirst(c) == obj[c] = "closed"

DestroyMembers(c) ==
  /\ Works /\ main = (IF c = A THEN "drop_a" ELSE "drop_b") /\ ClosedFirst(c)
  /\ main' = Dropped(c)
  /\ obj' = [obj EXCEPT ![c] = "dead"]
  /\ receiver_' = [receiver_ EXCEPT ![c] = IF @ = "alive" THEN "freed" ELSE @]
  /\ peer_connection_' = [peer_connection_ EXCEPT ![c] = FALSE]
  /\ UNCHANGED <<sample, other_, pc, media, fault, source>>

StopThread == /\ Goto("stopping", "stopped")
              /\ UNCHANGED <<sample, client, pc, media, fault, source>>

\* The locals of main() go.  Without the signaling thread the track may never
\* be deleted; if it is, and no connection holds it, the source joins its thread.
ReleaseTrack ==
  /\ \/ sample = "video" /\ obj[A] = "dead" /\ Goto("stopped", "releasing") /\ Source!ReleaseSource
     \/ Goto("stopped", "done") /\ UNCHANGED source
  /\ UNCHANGED <<sample, client, pc, media, fault>>

SourceDestroyed == /\ Works /\ main = "releasing" /\ Source!Destruction
                   /\ main' = IF owner' = "destroyed" THEN "done" ELSE main
                   /\ UNCHANGED <<sample, client, pc, media, fault>>

------------------------------------------------------------------------------
MainProceeds ==
  \/ NewClients \/ NewSource \/ SourceStarted \/ Start
  \/ \E c \in Clients : BindPeerConnection(c) \/ SetOther(c)
  \/ \E c \in Clients : DropReference(c) \/ CloseReturns(c) \/ DestroyMembers(c)
  \/ StopThread \/ ReleaseTrack \/ SourceDestroyed

MediaPath == EncoderAttached \/ MicrophoneFrame \/ OnFrame

Next == \/ MainProceeds \/ Exit \/ MediaPath
        \/ CaptureThread \/ EncoderRemoved \/ OnFrameReturns
        \/ \E c \in Clients : SignalThread(c)

Spec == Init /\ [][Next]_vars

\* Threads that can run do run and libwebrtc calls back.  Nothing is assumed of
\* the user or of how many frames get through.
Fairness == /\ WF_vars(MainProceeds) /\ WF_vars(CaptureThread)
            /\ WF_vars(EncoderRemoved) /\ WF_vars(OnFrameReturns)
            /\ \A c \in Clients : WF_vars(SignalThread(c))
FairSpec == Spec /\ Fairness

------------------------------------------------------------------------------
(* Properties.                                                              *)

MainPoint == {"boot", "source", "starting", "bind_a", "bind_b", "link_a", "link_b", "start",
              "console", "exiting", "drop_a", "drop_b", "stopping", "stopped", "releasing", "done"}

\* Every variable keeps its type, those of the composed source included.
TypeOK ==
  /\ sample \in Samples /\ main \in MainPoint
  /\ obj \in [Clients -> {"unborn", "alive", "closing", "closed", "dead"}]
  /\ peer_connection_ \in [Clients -> BOOLEAN]
  /\ other_ \in [Clients -> Clients \cup {NoClient}]
  /\ receiver_ \in [Clients -> {"null", "alive", "freed"}]
  /\ pc \in [Clients -> Peer]
  /\ remoteSinks \subseteq Clients /\ inFlight \in 0 .. MaxCount + 1
  /\ rendering \in BOOLEAN
  /\ fault \in {"none", "null", "dead_peer"}
  /\ Source!TypeOK

\* A decoded frame is only ever inside a receiver that exists: no sample takes
\* its sink off the remote track and the receiver is destroyed before the
\* member peer_connection_, so everything rests on the Close() in ~SimpleClient
\* (video-channel/main.cpp:180-185, 266-269, audio-channel/main.cpp:80-85, 153-156).
NoFrameToDeadReceiver == rendering => receiver_[B] = "alive"

\* A connection that has been closed gets no more frames of the source, not even
\* the one the capture thread had under way (video-channel/main.cpp:84, 96-100,
\* 182), and the capture thread never meets a source that is half destroyed,
\* although the track outlives the clients and the signaling thread.
ClosedSenderIsQuiet ==
  /\ pc[A].sig = "closed" => "encoder" \notin sinks \union remaining
  /\ Source!LoopMeetsLiveMembers

\* No callback finds peer_connection_ or other_ null although they are set only
\* after AddTrack, and no null sink is added although the audio sample does not
\* look at its receiver (audio-channel/main.cpp:117-120, 178-187).
NoNullPointer == fault # "null"

\* After "exit" main() ends: neither Close(), which needs the lock that the capture
\* thread takes for every frame, nor the join of that thread can hold it up for
\* ever.  Only an exit before the answer may end the process instead, by a call on
\* a client that is gone (video-channel/main.cpp:84, 96-100, 194, 258, 317-322).
ExitCompletes ==
  main = "exiting" ~> \/ main = "done"
                      \/ fault = "dead_peer" /\ pc[A].remote = "none"

\* The receiver's sink is on the remote track before any media can reach it, in
\* whatever order candidates and descriptions are reported: OnAddTrack adds it in
\* the task that sets the offer.  What came earlier would be lost without a trace
\* (video-channel/main.cpp:215-235, audio-channel/main.cpp:113-129).
SinkBeforeMedia == TransportConnected \/ inFlight > 0 => B \in remoteSinks

\* Unless the user exits the transport connects, and with the sink in place
\* (video-channel/main.cpp:215-259, audio-channel/main.cpp:102-141).
ReceiverReady ==
  <>((TransportConnected /\ B \in remoteSinks) \/ main \notin MainPoint \ {"exiting", "drop_a"})
==============================================================================
