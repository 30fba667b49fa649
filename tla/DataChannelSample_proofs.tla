----------------------- MODULE DataChannelSample_proofs -----------------------
(***************************************************************************)
(* Proofs about DataChannelSample, for any set of candidates and of words. *)
(*                                                                         *)
(* The argument: a negotiation goes through five phases, because a client  *)
(* forwards a description in the task that sets it.  The phase fixes the   *)
(* descriptions of both sides, hence what a candidate can meet, and which  *)
(* client a pending request still keeps alive after the teardown.          *)
(***************************************************************************)
EXTENDS DataChannelSample, PeerConnection_proofs

\* What a client does with a received description is a call sequence on its
\* own connection.
LEMMA ReceivedSdpTyping ==
  ASSUME NEW p \in Peer, NEW type \in SdpType
  PROVE  ReceivedSdp(p, type) \in Peer
<1> DEFINE q == SetRemoteDescription(p, type)
<1>1. q \in Peer
  BY PeerTyping
<1>2. CreateAnswer(q) \in Peer
  BY <1>1, PeerTyping
<1>3. QED
  BY <1>1, <1>2 DEF ReceivedSdp

LEMMA ClientFacts ==
  /\ A \in Clients /\ B \in Clients /\ NoClient \notin Clients
  /\ \A c \in Clients : OtherClient(c) \in Clients /\ OtherClient(c) # c
                        /\ OtherClient(OtherClient(c)) = c
                        /\ Clients = {c, OtherClient(c)}
BY TwoClients, NullIsNoClient DEF Clients, OtherClient

\* A step that updates one client's connection, then the other's.
LEMMA TwoUpdates ==
  ASSUME NEW S, NEW T, NEW f \in [S -> T], NEW x \in S, NEW y \in S, NEW u \in T, NEW v \in T
  PROVE  [f EXCEPT ![x] = u, ![y] = v] \in [S -> T]
OBVIOUS

\* Opening a channel, printing or keeping a message leaves a channel.
LEMMA ChannelTyping ==
  ASSUME NEW ch \in Channel
  PROVE  /\ ch.received \in Seq(Clients)
         /\ \A s \in {"none", "connecting", "open", "closed"} :
              [ch EXCEPT !.state = s] \in Channel
         /\ [ch EXCEPT !.state = "connecting", !.observed = TRUE] \in Channel
         /\ [ch EXCEPT !.state = "open", !.received = << >>] \in Channel
         /\ \A c \in Clients : [ch EXCEPT !.received = Append(@, c)] \in Channel
<1>1. ch.received \in Seq(Clients)
  BY DEF Channel
<1>2. ASSUME NEW s \in {"none", "connecting", "open", "closed"}
      PROVE  [ch EXCEPT !.state = s] \in Channel
  BY DEF Channel
<1>3. [ch EXCEPT !.state = "connecting", !.observed = TRUE] \in Channel
  BY DEF Channel
<1>4. [ch EXCEPT !.state = "open", !.received = << >>] \in Channel
  <2>1. << >> \in Seq(Clients)
    OBVIOUS
  <2>2. QED
    BY <2>1 DEF Channel
<1>5. ASSUME NEW c \in Clients
      PROVE  [ch EXCEPT !.received = Append(@, c)] \in Channel
  <2>1. Append(ch.received, c) \in Seq(Clients)
    BY <1>1
  <2>2. QED
    BY <2>1 DEF Channel
<1>6. QED
  BY <1>1, <1>2, <1>3, <1>4, <1>5

\* The two handlers that reach the other client keep the connections typed.
LEMMA OnSuccessTyping ==
  ASSUME pc \in [Clients -> Peer], NEW c \in Clients, OnSuccess(c)
  PROVE  pc' \in [Clients -> Peer] /\ fault' \in {fault, "dead_peer"}
<1> DEFINE type == pc[c].request
           own == SetLocalDescription([pc[c] EXCEPT !.request = "none"], type)
<1>1. pc[c] \in Peer
  OBVIOUS
<1>2. type \in SdpType
  BY <1>1 DEF OnSuccess, Peer
<1>3. [pc[c] EXCEPT !.request = "none"] \in Peer
  BY <1>1, PeerTyping
<1>4. own \in Peer
  BY <1>2, <1>3, PeerTyping
<1>5. CASE PeerIsAlive(c)
  <2> DEFINE o == other_[c]
             upd == ReceivedSdp(pc[o], type)
  <2>1. pc' = [pc EXCEPT ![c] = own, ![o] = upd] /\ fault' = fault
    BY <1>5 DEF OnSuccess
  <2>2. o \in Clients
    BY <1>5 DEF PeerIsAlive
  <2>3. upd \in Peer
    BY <2>2, <1>2, ReceivedSdpTyping
  <2>4. QED
    <3> HIDE DEF own, upd, o
    <3> QED BY <1>4, <2>1, <2>2, <2>3, TwoUpdates
<1>6. CASE ~PeerIsAlive(c)
  <2>1. pc' = [pc EXCEPT ![c] = own] /\ fault' = "dead_peer"
    BY <1>6 DEF OnSuccess
  <2>2. QED
    <3> HIDE DEF own
    <3> QED BY <2>1, <1>4
<1>7. QED
  BY <1>5, <1>6

LEMMA OnIceCandidateTyping ==
  ASSUME pc \in [Clients -> Peer], NEW c \in Clients, OnIceCandidate(c)
  PROVE  pc' \in [Clients -> Peer] /\ fault' \in {fault, "dead_peer"}
<1>1. PICK k \in pc[c].toReport :
        LET own == AddIceCandidate([pc[c] EXCEPT !.toReport = @ \ {k}], <<c, k>>)
        IN  IF PeerIsAlive(c)
            THEN /\ pc' = [pc EXCEPT ![c] = own,
                                     ![other_[c]] = ReceivedIceCandidate(pc[other_[c]], <<c, k>>)]
                 /\ UNCHANGED fault
            ELSE pc' = [pc EXCEPT ![c] = own] /\ fault' = "dead_peer"
  BY DEF OnIceCandidate
<1> DEFINE cand == <<c, k>>
           own == AddIceCandidate([pc[c] EXCEPT !.toReport = @ \ {k}], cand)
<1>2. pc[c] \in Peer
  OBVIOUS
<1>3. cand \in IceCandidate
  BY <1>2 DEF IceCandidate, Peer
<1>4. own \in Peer
  BY <1>2, <1>3, PeerTyping
<1>5. CASE PeerIsAlive(c)
  <2> DEFINE o == other_[c]
             upd == AddIceCandidate(pc[o], cand)
  <2>1. pc' = [pc EXCEPT ![c] = own, ![o] = upd] /\ fault' = fault
    BY <1>1, <1>5 DEF ReceivedIceCandidate
  <2>2. o \in Clients
    BY <1>5 DEF PeerIsAlive
  <2>3. upd \in Peer
    BY <2>2, <1>3, PeerTyping
  <2>4. QED
    <3> HIDE DEF own, upd, o
    <3> QED BY <1>4, <2>1, <2>2, <2>3, TwoUpdates
<1>6. CASE ~PeerIsAlive(c)
  <2>1. pc' = [pc EXCEPT ![c] = own] /\ fault' = "dead_peer"
    BY <1>1, <1>6
  <2>2. QED
    <3> HIDE DEF own
    <3> QED BY <2>1, <1>4
<1>7. QED
  BY <1>5, <1>6

------------------------------------------------------------------------------
\* The state of every variable stays in its type, for every step of the sample.
THEOREM TypeCorrect == Spec => []TypeOK
<1>1. Init => TypeOK
  <2> SUFFICES ASSUME Init PROVE TypeOK
    OBVIOUS
  <2>1. NewPeer \in Peer
    BY DEF NewPeer, Peer
  <2>2. NoChannel \in Channel
    BY DEF NoChannel, Channel
  <2>3. QED
    BY <2>1, <2>2 DEF Init, TypeOK, MainPoint, Channel
<1>2. TypeOK /\ [Next]_vars => TypeOK'
  <2> SUFFICES ASSUME TypeOK, [Next]_vars PROVE TypeOK'
    OBVIOUS
  <2>1. ASSUME NEW c \in Clients, OnSuccess(c) PROVE TypeOK'
    <3>1. pc' \in [Clients -> Peer] /\ fault' \in {fault, "dead_peer"}
      BY <2>1, OnSuccessTyping DEF TypeOK
    <3>2. QED
      BY <2>1, <3>1 DEF OnSuccess, clientVars, channelVars, TypeOK
  <2>2. ASSUME NEW c \in Clients, OnIceCandidate(c) PROVE TypeOK'
    <3>1. pc' \in [Clients -> Peer] /\ fault' \in {fault, "dead_peer"}
      BY <2>2, OnIceCandidateTyping DEF TypeOK
    <3>2. QED
      BY <2>2, <3>1 DEF OnIceCandidate, clientVars, channelVars, TypeOK
  <2>3. ASSUME NEW c \in Clients, ChannelOpens(c) PROVE TypeOK'
    <3>1. FramesOnOpen(c) \in Seq(Frame)
      <4>1. /\ <<"OPEN">> \in Seq(Frame) /\ <<"OPEN", c>> \in Seq(Frame)
            /\ << >> \in Seq(Frame) /\ <<c>> \in Seq(Frame)
        BY DEF Frame
      <4>2. QED
        BY <4>1 DEF FramesOnOpen
    <3>2. wire' \in [Clients -> Seq(Frame)]
      <4>1. /\ wire \in [Clients -> Seq(Frame)]
            /\ wire' = [wire EXCEPT ![OtherClient(c)] = @ \o FramesOnOpen(c)]
        BY <2>3 DEF TypeOK, ChannelOpens
      <4>2. QED
        BY <4>1, <3>1, ClientFacts
    <3>3. channel[c] \in Channel /\ channel[c].received \in Seq(Clients)
      BY DEF TypeOK, Channel
    <3>4. channel' \in [Clients -> Channel]
      <4>1. /\ [channel[c] EXCEPT !.state = "open"] \in Channel
            /\ [channel[c] EXCEPT !.state = "open", !.received = << >>] \in Channel
        BY <3>3, ChannelTyping
      <4>2. \/ channel' = [channel EXCEPT ![c] = [channel[c] EXCEPT !.state = "open"]]
            \/ channel' = [channel EXCEPT
                             ![c] = [channel[c] EXCEPT !.state = "open", !.received = << >>]]
        BY <2>3 DEF ChannelOpens, TypeOK
      <4>3. QED
        BY <4>1, <4>2 DEF TypeOK
    <3>5. shown' \in [Clients -> Seq(Clients)]
      <4>1. shown \in [Clients -> Seq(Clients)]
        BY DEF TypeOK
      <4>2. shown' = shown \/ shown' = [shown EXCEPT ![c] = @ \o channel[c].received]
        BY <2>3 DEF ChannelOpens
      <4>3. shown[c] \o channel[c].received \in Seq(Clients)
        BY <3>3, <4>1
      <4>4. QED
        BY <4>1, <4>2, <4>3
    <3>6. QED
      BY <2>3, <3>2, <3>4, <3>5 DEF ChannelOpens, OnStateChange, clientVars, TypeOK
  <2>4. ASSUME NEW c \in Clients, OnDataChannel(c) PROVE TypeOK'
    <3>1. channel' \in [Clients -> Channel]
      BY <2>4 DEF OnDataChannel, Channel, TypeOK
    <3>2. QED
      BY <2>4, <3>1 DEF OnDataChannel, TypeOK
  <2>5. ASSUME NEW c \in Clients, OnMessage(c) PROVE TypeOK'
    <3>1. channel' \in [Clients -> Channel]
      <4>1. channel[c] \in Channel /\ Head(wire[c]) \in Clients
        BY <2>5 DEF OnMessage, TypeOK
      <4>2. [channel[c] EXCEPT !.received = Append(@, Head(wire[c]))] \in Channel
        BY <4>1, ChannelTyping
      <4>3. \/ channel' = channel
            \/ channel' = [channel EXCEPT
                 ![c] = [channel[c] EXCEPT !.received = Append(@, Head(wire[c]))]]
        BY <2>5 DEF OnMessage, TypeOK
      <4>4. QED
        BY <4>2, <4>3 DEF TypeOK
    <3>2. shown' \in [Clients -> Seq(Clients)]
      <4>1. shown \in [Clients -> Seq(Clients)] /\ shown[c] \in Seq(Clients)
        BY DEF TypeOK
      <4>2. Head(wire[c]) \in Clients
        BY <2>5 DEF OnMessage
      <4>3. Append(shown[c], Head(wire[c])) \in Seq(Clients)
        BY <4>1, <4>2
      <4>4. shown' = shown \/ shown' = [shown EXCEPT ![c] = Append(shown[c], Head(wire[c]))]
        BY <2>5 DEF OnMessage
      <4>5. QED
        BY <4>1, <4>3, <4>4
    <3>3. UNCHANGED <<main, console, obj, other_, data_channel_, pc, greeted, fault>>
      BY <2>5 DEF OnMessage, clientVars
    <3>4. wire' \in [Clients -> Seq(Frame)]
      <4>1. wire \in [Clients -> Seq(Frame)]
        BY DEF TypeOK
      <4>2. wire[c] \in Seq(Frame) /\ wire[c] # << >>
        BY <2>5, <4>1 DEF OnMessage
      <4>3. Tail(wire[c]) \in Seq(Frame)
        BY <4>2
      <4>4. QED
        BY <2>5, <4>1, <4>3 DEF OnMessage
    <3>5. QED
      BY <3>1, <3>2, <3>3, <3>4 DEF TypeOK
  <2>6. ASSUME MainProceeds PROVE TypeOK'
    <3>1. CASE StartThread
      BY <3>1 DEF StartThread, Goto, MainPoint, clientVars, channelVars, TypeOK
    <3>2. ASSUME NEW c \in Clients, NewClient(c) PROVE TypeOK'
      <4>1. channel' \in [Clients -> Channel]
        <5>1. channel[c] \in Channel
          BY DEF TypeOK
        <5>2. [channel[c] EXCEPT !.state = "connecting", !.observed = TRUE] \in Channel
          BY <5>1, ChannelTyping
        <5>3. \/ channel' = channel
              \/ channel' = [channel EXCEPT
                   ![c] = [channel[c] EXCEPT !.state = "connecting", !.observed = TRUE]]
          BY <3>2 DEF NewClient, TypeOK
        <5>4. QED
          BY <5>2, <5>3 DEF TypeOK
      <4>2. main' \in MainPoint
        BY <3>2, ClientFacts DEF NewClient, Goto, MainPoint, TypeOK
      <4>3. QED
        BY <3>2, <4>1, <4>2, ClientFacts DEF NewClient, TypeOK
    <3>3. ASSUME NEW c \in Clients, SetOther(c) PROVE TypeOK'
      <4>1. main' \in MainPoint
        BY <3>3, ClientFacts DEF SetOther, Goto, MainPoint, TypeOK
      <4>2. QED
        BY <3>3, <4>1, ClientFacts DEF SetOther, channelVars, TypeOK
    <3>4. CASE Start
      <4>1. CreateOffer(pc[A]) \in Peer
        BY PeerTyping, ClientFacts DEF TypeOK
      <4>2. QED
        BY <3>4, <4>1, ClientFacts DEF Start, Goto, MainPoint, clientVars, channelVars, TypeOK
    <3>5. CASE Teardown
      <4>1. pc' \in [Clients -> Peer]
        BY <3>5, PeerTyping DEF Teardown, TypeOK
      <4>2. channel' \in [Clients -> Channel]
        BY <3>5 DEF Teardown, Channel, TypeOK
      <4>3. QED
        BY <3>5, <4>1, <4>2 DEF Teardown, Goto, MainPoint, TypeOK
    <3>6. CASE StopThread
      BY <3>6 DEF StopThread, Goto, MainPoint, clientVars, channelVars, TypeOK
    <3>7. QED
      BY <2>6, <3>1, <3>2, <3>3, <3>4, <3>5, <3>6 DEF MainProceeds
  <2>7. CASE ReadConsole
    BY <2>7 DEF ReadConsole, Goto, MainPoint, clientVars, channelVars, TypeOK
  <2>8. CASE UNCHANGED vars
    BY <2>8 DEF vars, TypeOK
  <2>9. QED
    BY <2>1, <2>2, <2>3, <2>4, <2>5, <2>6, <2>7, <2>8 DEF Next, SignalThread
<1>3. QED
  BY <1>1, <1>2, PTL DEF Spec

------------------------------------------------------------------------------
(* The phases of the negotiation.                                           *)

\* What one side has of the negotiation, whatever became of its connection.
Has(p, local, remote, request) ==
  p.local = local /\ p.remote = remote /\ p.request = request

Fresh(p)     == Has(p, "none", "none", "none")
Offering(p)  == Has(p, "none", "none", "offer")
Offered(p)   == Has(p, "offer", "none", "none")
Answering(p) == Has(p, "none", "offer", "answer")
Answered(p)  == Has(p, "answer", "offer", "none")
Settled(p)   == Has(p, "offer", "answer", "none")

\* The two sides move through the phases together.
Phase ==
  \/ Fresh(pc[A]) /\ Fresh(pc[B])
  \/ Offering(pc[A]) /\ Fresh(pc[B])
  \/ Offered(pc[A]) /\ Answering(pc[B])
  \/ Settled(pc[A]) /\ Answered(pc[B])

\* The signaling state of a connection that is not closed.
SigMatches(p) ==
  p.sig = CASE Offered(p) -> "have-local-offer"
            [] Answering(p) -> "have-remote-offer"
            [] OTHER -> "stable"

NotStarted == main \in {"boot", "new_a", "new_b", "link_a", "link_b", "start"}
Ended == main \in {"stopping", "done"}

\* Where main() is determines which objects exist and how they are linked.
Lifetimes ==
  /\ ~Ended => \A c \in Clients : obj[c] # "dead" /\ pc[c].sig # "closed"
  /\ main \notin {"boot", "new_a"} => obj[A] # "unborn"
  /\ main \notin {"boot", "new_a", "new_b"} => obj[B] # "unborn"
  /\ main \notin {"boot", "new_a", "new_b", "link_a"} => other_[A] = B
  /\ main \notin {"boot", "new_a", "new_b", "link_a", "link_b"} => other_[B] = A
  /\ Ended => \A c \in Clients : obj[c] = "alive" => pc[c].request # "none"

\* As long as no handler has called a client that is not there.
NegotiationInv ==
  /\ Phase
  /\ NotStarted => Fresh(pc[A])
  /\ \A c \in Clients : /\ ~pc[c].failed
                        /\ pc[c].local = "none" => pc[c].toReport = {}
                        /\ pc[c].sig = "closed" => obj[c] = "dead"
                        /\ obj[c] # "dead" => SigMatches(pc[c])

\* A channel that exists is observed by a client that holds it.
ChannelInv ==
  \A c \in Clients : /\ channel[c].observed => data_channel_[c]
                     /\ channel[c].state = "connecting" => channel[c].observed

IInv == /\ fault # "assert"
        /\ fault = "none" => Lifetimes /\ NegotiationInv /\ CandidatesReachPeer
        /\ DeadPeerOnlyAfterEarlyExit
        /\ \A c \in Clients : ~pc[c].failed
        /\ ChannelInv

\* The initiator sets its offer.
LEMMA OfferSet ==
  ASSUME NEW p \in Peer, Offering(p), p.sig = "stable", ~p.failed,
         NEW q, q = SetLocalDescription([p EXCEPT !.request = "none"], "offer")
  PROVE  /\ Offered(q) /\ q.sig = "have-local-offer" /\ ~q.failed
         /\ q.toReport = Candidates /\ q.remoteCandidates = p.remoteCandidates
BY DEF Offering, Offered, Has, SetLocalDescription, Peer

\* The other side receives it and asks for an answer.
LEMMA OfferReceived ==
  ASSUME NEW p \in Peer, Fresh(p), p.sig = "stable", ~p.failed,
         NEW q, q = ReceivedSdp(p, "offer")
  PROVE  /\ Answering(q) /\ q.sig = "have-remote-offer" /\ ~q.failed
         /\ q.toReport = p.toReport /\ q.remoteCandidates = p.remoteCandidates
<1> DEFINE r == SetRemoteDescription(p, "offer")
<1>1. r = [p EXCEPT !.sig = "have-remote-offer", !.remote = "offer"]
  BY DEF SetRemoteDescription
<1>2. /\ r \in Peer /\ Has(r, "none", "offer", "none") /\ r.sig = "have-remote-offer"
      /\ ~r.failed /\ r.toReport = p.toReport /\ r.remoteCandidates = p.remoteCandidates
  BY <1>1 DEF Peer, SdpType, Fresh, Has
<1>3. q = CreateAnswer(r)
  BY DEF ReceivedSdp
<1> HIDE DEF r
<1>4. q = [r EXCEPT !.request = "answer"]
  BY <1>2, <1>3 DEF CreateAnswer, Has
<1>5. QED
  BY <1>2, <1>4 DEF Answering, Has, Peer

\* It sets its answer.
LEMMA AnswerSet ==
  ASSUME NEW p \in Peer, Answering(p), p.sig = "have-remote-offer", ~p.failed,
         NEW q, q = SetLocalDescription([p EXCEPT !.request = "none"], "answer")
  PROVE  /\ Answered(q) /\ q.sig = "stable" /\ ~q.failed
         /\ q.toReport = Candidates /\ q.remoteCandidates = p.remoteCandidates
BY DEF Answering, Answered, Has, SetLocalDescription, Peer

\* The initiator receives the answer.
LEMMA AnswerReceived ==
  ASSUME NEW p \in Peer, Offered(p), p.sig = "have-local-offer", ~p.failed,
         NEW q, q = ReceivedSdp(p, "answer")
  PROVE  /\ Settled(q) /\ q.sig = "stable" /\ ~q.failed
         /\ q.toReport = p.toReport /\ q.remoteCandidates = p.remoteCandidates
<1>1. q = [p EXCEPT !.sig = "stable", !.remote = "answer"]
  BY DEF ReceivedSdp, SetRemoteDescription
<1>2. QED
  BY <1>1 DEF Offered, Settled, Has, Peer

\* A candidate changes nothing but the set of accepted candidates, and it is
\* accepted by an open connection that has a remote description.
LEMMA CandidateAdded ==
  ASSUME NEW p \in Peer, NEW cand, NEW q, q = AddIceCandidate(p, cand)
  PROVE  /\ q.sig = p.sig /\ q.local = p.local /\ q.remote = p.remote
         /\ q.request = p.request /\ q.failed = p.failed /\ q.toReport = p.toReport
         /\ p.remoteCandidates \subseteq q.remoteCandidates
         /\ p.remote # "none" /\ p.sig # "closed" => cand \in q.remoteCandidates
BY DEF AddIceCandidate, Peer

\* The phases exclude each other and leave at most one request outstanding.
LEMMA PhaseFacts ==
  ASSUME TypeOK, Phase, NEW c \in Clients
  PROVE  /\ pc[c].request # "none" =>
              /\ pc[c].local = "none" /\ pc[OtherClient(c)].request = "none"
              /\ \/ c = A /\ Offering(pc[A]) /\ Fresh(pc[B])
                 \/ c = B /\ Answering(pc[B]) /\ Offered(pc[A])
         /\ pc[c].local # "none" => /\ pc[OtherClient(c)].remote # "none"
                                    /\ pc[c].request = "none"
                                    /\ ~Fresh(pc[A])
         /\ pc[c].remote = pc[OtherClient(c)].local
BY TwoClients DEF Phase, Fresh, Offering, Offered, Answering, Answered, Settled, Has,
                  Clients, OtherClient

\* While main() has not torn down, a client with a description or a request
\* can reach the other one.
LEMMA PeerReachable ==
  ASSUME TypeOK, Lifetimes, NegotiationInv, NEW c \in Clients, ~NotStarted
  PROVE  ~Ended => /\ PeerIsAlive(c) /\ other_[c] = OtherClient(c)
                   /\ obj[c] = "alive" /\ obj[OtherClient(c)] = "alive"
<1>1. SUFFICES ASSUME ~Ended
               PROVE  /\ other_[A] = B /\ other_[B] = A
                      /\ obj[A] = "alive" /\ obj[B] = "alive"
  BY <1>1 DEF PeerIsAlive, OtherClient, Clients
<1>2. other_[A] = B /\ other_[B] = A
  BY DEF Lifetimes, NotStarted
<1>3. \A d \in Clients : obj[d] \in {"unborn", "alive", "dead"}
  BY DEF TypeOK
<1>4. QED
  BY <1>1, <1>2, <1>3 DEF Lifetimes, NotStarted, Clients

\* The handler that sets a description takes the negotiation to its next phase.
LEMMA OnSuccessStep ==
  ASSUME TypeOK, IInv, TypeOK', SignalThreadRuns, NEW c \in Clients, OnSuccess(c)
  PROVE  IInv'
<1> DEFINE o == OtherClient(c)
           type == pc[c].request
           own == SetLocalDescription([pc[c] EXCEPT !.request = "none"], type)
<1>1. /\ fault = "none" /\ main # "done" /\ Lifetimes /\ NegotiationInv /\ CandidatesReachPeer
      /\ obj[c] = "alive" /\ pc[c].request # "none"
  BY DEF SignalThreadRuns, IInv, OnSuccess
<1>2. /\ pc \in [Clients -> Peer] /\ pc[c] \in Peer /\ pc[o] \in Peer
      /\ o \in Clients /\ o # c /\ Clients = {c, o}
  BY ClientFacts DEF TypeOK
<1>3. UNCHANGED <<main, obj, other_, channel, data_channel_>>
  BY DEF OnSuccess, clientVars, channelVars
<1>4. /\ pc[c].local = "none" /\ pc[o].request = "none"
      /\ \/ c = A /\ Offering(pc[A]) /\ Fresh(pc[B])
         \/ c = B /\ Answering(pc[B]) /\ Offered(pc[A])
  BY <1>1, PhaseFacts DEF NegotiationInv
<1>5. ~Fresh(pc[A]) /\ ~NotStarted
  BY <1>1, <1>4 DEF NegotiationInv, Fresh, Offering, Offered, Has
<1>6. SigMatches(pc[c]) /\ ~pc[c].failed
  BY <1>1 DEF NegotiationInv
<1>7. CASE Ended
  <2>1. obj[o] # "alive"
    BY <1>1, <1>2, <1>4, <1>7 DEF Lifetimes
  <2>2. ~PeerIsAlive(c)
    BY <1>1, <1>2, <1>5, <2>1, ClientFacts DEF Lifetimes, NotStarted, PeerIsAlive, OtherClient, Clients
  <2>3. pc' = [pc EXCEPT ![c] = own] /\ fault' = "dead_peer"
    BY <2>2 DEF OnSuccess
  <2>4. ~own.failed /\ own.remote = pc[c].remote
    <3>1. CASE c = A
      <4>1. Offering(pc[c]) /\ pc[c].sig = "stable" /\ type = "offer"
        BY <1>4, <1>6, <3>1, TwoClients DEF SigMatches, Offering, Offered, Answering, Has
      <4>2. Offered(own) /\ ~own.failed
        BY <1>2, <1>6, <4>1, OfferSet
      <4>3. QED
        BY <4>1, <4>2 DEF Offering, Offered, Has
    <3>2. CASE c = B
      <4>1. Answering(pc[c]) /\ pc[c].sig = "have-remote-offer" /\ type = "answer"
        BY <1>4, <1>6, <3>2, TwoClients DEF SigMatches, Offered, Answering, Has
      <4>2. Answered(own) /\ ~own.failed
        BY <1>2, <1>6, <4>1, AnswerSet
      <4>3. QED
        BY <4>1, <4>2 DEF Answering, Answered, Has
    <3>3. QED
      BY <3>1, <3>2 DEF Clients
  <2> HIDE DEF own, type
  <2>5. main' = "stopping" /\ pc'[A].remote = "none"
    <3>1. pc[A].remote = "none"
      BY <1>4 DEF Offering, Offered, Has
    <3>2. QED
      BY <1>1, <1>2, <1>3, <1>7, <2>3, <2>4, <3>1, ClientFacts DEF Ended
  <2>6. \A d \in Clients : ~pc'[d].failed
    BY <1>1, <1>2, <2>3, <2>4 DEF NegotiationInv
  <2>7. ChannelInv'
    BY <1>3 DEF IInv, ChannelInv
  <2>8. QED
    BY <2>3, <2>5, <2>6, <2>7 DEF IInv, DeadPeerOnlyAfterEarlyExit
<1>8. CASE ~Ended
  <2>1. PeerIsAlive(c) /\ other_[c] = o /\ obj[o] = "alive"
    BY <1>1, <1>5, <1>8, PeerReachable
  <2> DEFINE theirs == ReceivedSdp(pc[o], type)
  <2>2. pc' = [pc EXCEPT ![c] = own, ![o] = theirs] /\ fault' = fault
    BY <2>1 DEF OnSuccess
  <2>3. SigMatches(pc[o]) /\ ~pc[o].failed
    BY <1>1, <1>2, <2>1 DEF NegotiationInv
  <2>4. /\ ~own.failed /\ SigMatches(own) /\ own.toReport = Candidates /\ own.sig # "closed"
        /\ own.local # "none" /\ own.remoteCandidates = pc[c].remoteCandidates
        /\ ~theirs.failed /\ SigMatches(theirs) /\ theirs.toReport = pc[o].toReport
        /\ theirs.sig # "closed" /\ theirs.local = pc[o].local
        /\ theirs.remoteCandidates = pc[o].remoteCandidates
        /\ \/ c = A /\ Offered(own) /\ Answering(theirs)
           \/ c = B /\ Answered(own) /\ Settled(theirs)
    <3>1. CASE c = A
      <4>1. o = B
        BY <3>1 DEF OtherClient
      <4>2. Offering(pc[c]) /\ pc[c].sig = "stable" /\ type = "offer"
        BY <1>4, <1>6, <3>1, TwoClients DEF SigMatches, Offering, Offered, Answering, Has
      <4>3. Fresh(pc[o]) /\ pc[o].sig = "stable"
        BY <1>4, <2>3, <3>1, <4>1, TwoClients DEF SigMatches, Fresh, Offered, Answering, Has
      <4>4. /\ Offered(own) /\ own.sig = "have-local-offer" /\ ~own.failed
            /\ own.toReport = Candidates /\ own.remoteCandidates = pc[c].remoteCandidates
        BY <1>2, <1>6, <4>2, OfferSet
      <4>5. /\ Answering(theirs) /\ theirs.sig = "have-remote-offer" /\ ~theirs.failed
            /\ theirs.toReport = pc[o].toReport
            /\ theirs.remoteCandidates = pc[o].remoteCandidates
        BY <1>2, <2>3, <4>2, <4>3, OfferReceived
      <4> HIDE DEF own, theirs, type
      <4>6. QED
        BY <3>1, <4>3, <4>4, <4>5 DEF SigMatches, Fresh, Offered, Answering, Has
    <3>2. CASE c = B
      <4>1. o = A
        BY <3>2, TwoClients DEF OtherClient
      <4>2. Answering(pc[c]) /\ pc[c].sig = "have-remote-offer" /\ type = "answer"
        BY <1>4, <1>6, <3>2, TwoClients DEF SigMatches, Offered, Answering, Has
      <4>3. Offered(pc[o]) /\ pc[o].sig = "have-local-offer"
        BY <1>4, <2>3, <3>2, <4>1, TwoClients DEF SigMatches, Offered, Answering, Has
      <4>4. /\ Answered(own) /\ own.sig = "stable" /\ ~own.failed
            /\ own.toReport = Candidates /\ own.remoteCandidates = pc[c].remoteCandidates
        BY <1>2, <1>6, <4>2, AnswerSet
      <4>5. /\ Settled(theirs) /\ theirs.sig = "stable" /\ ~theirs.failed
            /\ theirs.toReport = pc[o].toReport
            /\ theirs.remoteCandidates = pc[o].remoteCandidates
        BY <1>2, <2>3, <4>2, <4>3, AnswerReceived
      <4> HIDE DEF own, theirs, type
      <4>6. QED
        BY <3>2, <4>3, <4>4, <4>5 DEF SigMatches, Offered, Answering, Answered, Settled, Has
    <3>3. QED
      BY <3>1, <3>2 DEF Clients
  <2> HIDE DEF own, theirs, type
  <2>5. pc'[c] = own /\ pc'[o] = theirs /\ \A d \in Clients : d = c \/ d = o
    BY <1>2, <2>2
  <2>6. Phase'
    <3>1. CASE c = A
      <4>1. pc'[A] = own /\ pc'[B] = theirs
        BY <2>5, <3>1 DEF OtherClient
      <4>2. QED
        BY <2>4, <3>1, <4>1, TwoClients DEF Phase
    <3>2. CASE c = B
      <4>1. pc'[B] = own /\ pc'[A] = theirs
        BY <2>5, <3>2, TwoClients DEF OtherClient
      <4>2. QED
        BY <2>4, <3>2, <4>1, TwoClients DEF Phase
    <3>3. QED
      BY <3>1, <3>2 DEF Clients
  <2>7. Lifetimes' /\ ~NotStarted'
    BY <1>1, <1>3, <1>5, <1>8, <2>4, <2>5 DEF Lifetimes, NotStarted, Ended
  <2>8. NegotiationInv'
    <3>1. /\ ~pc'[c].failed /\ pc'[c].local # "none" /\ pc'[c].sig # "closed"
          /\ SigMatches(pc'[c])
      BY <2>4, <2>5
    <3>2. /\ ~pc'[o].failed /\ (pc'[o].local = "none" => pc'[o].toReport = {})
          /\ pc'[o].sig # "closed" /\ SigMatches(pc'[o])
      BY <1>1, <1>2, <2>4, <2>5 DEF NegotiationInv
    <3>3. QED
      BY <2>5, <2>6, <2>7, <3>1, <3>2 DEF NegotiationInv
  <2>9. CandidatesReachPeer'
    <3>1. Candidates \ pc'[c].toReport = {}
      BY <2>4, <2>5
    <3>2. obj'[o] = "alive" /\ pc'[o].local # "none"
            => {o} \X (Candidates \ pc'[o].toReport) \subseteq pc'[c].remoteCandidates
      BY <1>1, <1>2, <1>3, <2>4, <2>5, ClientFacts DEF CandidatesReachPeer
    <3>3. OtherClient(o) = c
      BY ClientFacts
    <3>4. QED
      BY <2>5, <3>1, <3>2, <3>3 DEF CandidatesReachPeer
  <2>10. ChannelInv'
    BY <1>3 DEF IInv, ChannelInv
  <2>11. QED
    BY <1>1, <2>2, <2>7, <2>8, <2>9, <2>10 DEF IInv, DeadPeerOnlyAfterEarlyExit, NegotiationInv
<1>9. QED
  BY <1>7, <1>8

\* Two connections that differ in the accepted candidates only are in the same
\* phase of the negotiation.
SameButCandidates(q, p) ==
  /\ q.sig = p.sig /\ q.local = p.local /\ q.remote = p.remote
  /\ q.request = p.request /\ q.failed = p.failed
  /\ p.remoteCandidates \subseteq q.remoteCandidates

\* A candidate is reported only once the other client can take it.
LEMMA OnIceCandidateStep ==
  ASSUME TypeOK, IInv, SignalThreadRuns, NEW c \in Clients, OnIceCandidate(c)
  PROVE  IInv'
<1> DEFINE o == OtherClient(c)
<1>1. /\ fault = "none" /\ Lifetimes /\ NegotiationInv /\ CandidatesReachPeer
      /\ obj[c] = "alive"
  BY DEF SignalThreadRuns, IInv, OnIceCandidate
<1>2. /\ pc \in [Clients -> Peer] /\ pc[c] \in Peer /\ pc[o] \in Peer
      /\ o \in Clients /\ o # c /\ Clients = {c, o} /\ OtherClient(o) = c
  BY ClientFacts DEF TypeOK
<1>3. UNCHANGED <<main, obj, other_, channel, data_channel_>>
  BY DEF OnIceCandidate, clientVars, channelVars
<1>4. PICK k \in pc[c].toReport :
        LET own == AddIceCandidate([pc[c] EXCEPT !.toReport = @ \ {k}], <<c, k>>)
        IN  IF PeerIsAlive(c)
            THEN /\ pc' = [pc EXCEPT ![c] = own,
                                     ![other_[c]] = ReceivedIceCandidate(pc[other_[c]], <<c, k>>)]
                 /\ UNCHANGED fault
            ELSE pc' = [pc EXCEPT ![c] = own] /\ fault' = "dead_peer"
  BY DEF OnIceCandidate
<1> DEFINE rest == [pc[c] EXCEPT !.toReport = @ \ {k}]
           own == AddIceCandidate(rest, <<c, k>>)
           theirs == AddIceCandidate(pc[o], <<c, k>>)
<1>5. pc[c].local # "none"
  BY <1>1, <1>4 DEF NegotiationInv
<1>6. /\ pc[o].remote # "none" /\ pc[c].request = "none" /\ ~Fresh(pc[A])
  BY <1>1, <1>5, PhaseFacts DEF NegotiationInv
<1>7. ~Ended /\ ~NotStarted
  BY <1>1, <1>6 DEF Lifetimes, NegotiationInv
<1>8. PeerIsAlive(c) /\ other_[c] = o /\ obj[o] = "alive"
  BY <1>1, <1>7, PeerReachable
<1>9. pc' = [pc EXCEPT ![c] = own, ![o] = theirs] /\ fault' = fault
  BY <1>4, <1>8 DEF ReceivedIceCandidate
<1>10. /\ rest \in Peer /\ SameButCandidates(rest, pc[c])
       /\ rest.toReport = pc[c].toReport \ {k} /\ rest.remoteCandidates = pc[c].remoteCandidates
  BY <1>2 DEF Peer, SameButCandidates
<1> HIDE DEF rest
<1>11. SameButCandidates(own, pc[c]) /\ own.toReport = pc[c].toReport \ {k}
  BY <1>10, CandidateAdded DEF SameButCandidates
<1>12. pc[o].sig # "closed"
  BY <1>1, <1>2, <1>8 DEF NegotiationInv
<1>13. /\ SameButCandidates(theirs, pc[o]) /\ theirs.toReport = pc[o].toReport
       /\ <<c, k>> \in theirs.remoteCandidates
  BY <1>2, <1>6, <1>12, CandidateAdded DEF SameButCandidates
<1> HIDE DEF own, theirs
<1>14. pc'[c] = own /\ pc'[o] = theirs
  BY <1>2, <1>9
<1>15. \A d \in Clients : SameButCandidates(pc'[d], pc[d])
  BY <1>2, <1>11, <1>13, <1>14
<1>16. \A d \in Clients : /\ Fresh(pc'[d]) <=> Fresh(pc[d])
                          /\ Offering(pc'[d]) <=> Offering(pc[d])
                          /\ Offered(pc'[d]) <=> Offered(pc[d])
                          /\ Answering(pc'[d]) <=> Answering(pc[d])
                          /\ Answered(pc'[d]) <=> Answered(pc[d])
                          /\ Settled(pc'[d]) <=> Settled(pc[d])
  BY <1>15 DEF SameButCandidates, Fresh, Offering, Offered, Answering, Answered, Settled, Has
<1>17. Phase'
  BY <1>1, <1>16, ClientFacts DEF NegotiationInv, Phase
<1>18. Lifetimes'
  BY <1>1, <1>3, <1>15 DEF Lifetimes, Ended, SameButCandidates
<1>19. NegotiationInv'
  <2>1. NotStarted' => Fresh(pc[A])'
    BY <1>3, <1>7 DEF NotStarted
  <2>2. ASSUME NEW d \in Clients
        PROVE  /\ ~pc'[d].failed
               /\ pc'[d].local = "none" => pc'[d].toReport = {}
               /\ pc'[d].sig = "closed" => obj'[d] = "dead"
               /\ obj'[d] # "dead" => SigMatches(pc[d])'
    <3>1. /\ ~pc[d].failed /\ (pc[d].local = "none" => pc[d].toReport = {})
          /\ pc[d].sig = "closed" => obj[d] = "dead"
          /\ obj[d] # "dead" => SigMatches(pc[d])
      BY <1>1 DEF NegotiationInv
    <3>2. pc'[d].toReport \subseteq pc[d].toReport
      BY <1>2, <1>11, <1>13, <1>14
    <3>3. SigMatches(pc[d]) => SigMatches(pc[d])'
      BY <1>15, <1>16 DEF SigMatches, SameButCandidates
    <3>4. QED
      BY <1>3, <1>15, <3>1, <3>2, <3>3 DEF SameButCandidates
  <2>3. QED
    BY <1>17, <2>1, <2>2 DEF NegotiationInv
<1>20. CandidatesReachPeer'
  <2>1. {c} \X (Candidates \ pc[c].toReport) \subseteq pc[o].remoteCandidates
    BY <1>1, <1>5 DEF CandidatesReachPeer
  <2>2. {c} \X (Candidates \ pc'[c].toReport) \subseteq pc'[o].remoteCandidates
    BY <1>11, <1>13, <1>14, <2>1 DEF SameButCandidates
  <2>3. obj[o] = "alive" /\ pc[o].local # "none"
          => {o} \X (Candidates \ pc[o].toReport) \subseteq pc[c].remoteCandidates
    BY <1>1, <1>2 DEF CandidatesReachPeer
  <2>4. obj'[o] = "alive" /\ pc'[o].local # "none"
          => {o} \X (Candidates \ pc'[o].toReport) \subseteq pc'[c].remoteCandidates
    BY <1>3, <1>11, <1>13, <1>14, <2>3 DEF SameButCandidates
  <2>5. QED
    BY <1>2, <2>2, <2>4 DEF CandidatesReachPeer
<1>21. ChannelInv'
  BY <1>3 DEF IInv, ChannelInv
<1>22. QED
  BY <1>1, <1>9, <1>18, <1>19, <1>20, <1>21 DEF IInv, DeadPeerOnlyAfterEarlyExit, NegotiationInv

\* Steps that leave the connections, the objects and main() alone.
LEMMA ChannelStep ==
  ASSUME TypeOK, IInv, SignalThreadRuns, NEW c \in Clients,
         ChannelOpens(c) \/ OnDataChannel(c) \/ OnMessage(c)
  PROVE  IInv'
<1>1. UNCHANGED <<main, obj, other_, pc>>
  BY DEF ChannelOpens, OnDataChannel, OnMessage, clientVars
<1>2. /\ channel \in [Clients -> Channel] /\ channel[c] \in Channel
      /\ data_channel_ \in [Clients -> BOOLEAN]
  BY DEF TypeOK
<1>3. fault' = fault /\ ChannelInv'
  <2>1. CASE ChannelOpens(c)
    <3>1. channel[c].observed /\ data_channel_[c]
      BY <2>1 DEF ChannelOpens, IInv, ChannelInv
    <3>2. /\ channel' = [channel EXCEPT ![c].state = "open", ![c].received = << >>]
          /\ data_channel_' = data_channel_ /\ fault' = fault
      BY <2>1, <3>1 DEF ChannelOpens, OnStateChange, clientVars
    <3>3. QED
      BY <1>2, <3>1, <3>2 DEF IInv, ChannelInv, Channel
  <2>2. CASE OnDataChannel(c)
    <3>1. /\ data_channel_' = [data_channel_ EXCEPT ![c] = TRUE]
          /\ channel' = [channel EXCEPT ![c].state = "connecting", ![c].observed = TRUE]
          /\ fault' = fault
      BY <2>2 DEF OnDataChannel
    <3>2. QED
      BY <1>2, <3>1 DEF IInv, ChannelInv, Channel
  <2>3. CASE OnMessage(c)
    <3> DEFINE kept == Append(channel[c].received, Head(wire[c]))
    <3>1. data_channel_' = data_channel_ /\ fault' = fault
      BY <2>3 DEF OnMessage, clientVars
    <3>2. channel' = channel \/ channel' = [channel EXCEPT ![c].received = kept]
      BY <2>3 DEF OnMessage
    <3> HIDE DEF kept
    <3>3. ASSUME NEW d \in Clients
          PROVE  /\ channel'[d].state = channel[d].state
                 /\ channel'[d].observed = channel[d].observed
      BY <1>2, <3>2 DEF Channel
    <3>4. QED
      BY <3>1, <3>3 DEF IInv, ChannelInv
  <2>4. QED
    BY <2>1, <2>2, <2>3
<1>4. QED
  BY <1>1, <1>3 DEF IInv, Lifetimes, NotStarted, Ended, NegotiationInv, Phase, SigMatches,
     Fresh, Offering, Offered, Answering, Answered, Settled, Has, CandidatesReachPeer,
     DeadPeerOnlyAfterEarlyExit

\* The steps by which main() builds, links and starts the clients.
LEMMA SetupStep ==
  ASSUME TypeOK, IInv,
         \/ StartThread \/ ReadConsole \/ StopThread \/ Start
         \/ \E c \in Clients : NewClient(c) \/ SetOther(c)
  PROVE  IInv'
<1> USE ClientFacts
<1>1. /\ fault = "none" /\ fault' = fault /\ Lifetimes /\ NegotiationInv /\ CandidatesReachPeer
  BY DEF IInv, StartThread, ReadConsole, StopThread, Start, NewClient, SetOther, Goto
<1>2. CASE StartThread \/ ReadConsole \/ StopThread
  <2>1. /\ UNCHANGED <<obj, other_, data_channel_, pc, channel>>
        /\ \/ main = "boot" /\ main' = "new_a"
           \/ main = "console" /\ main' \in {"console", "exiting"}
           \/ main = "stopping" /\ main' = "done"
    BY <1>2 DEF StartThread, ReadConsole, StopThread, Goto, clientVars, channelVars
  <2>2. Lifetimes' /\ ((NotStarted' \/ Ended) => (NotStarted \/ Ended'))
    BY <1>1, <2>1 DEF Lifetimes, NotStarted, Ended
  <2>3. NegotiationInv'
    BY <1>1, <2>1 DEF NegotiationInv, NotStarted, Phase, SigMatches, Fresh, Offering,
       Offered, Answering, Answered, Settled, Has
  <2>4. CandidatesReachPeer' /\ ChannelInv'
    BY <1>1, <2>1 DEF CandidatesReachPeer, ChannelInv, IInv
  <2>5. QED
    BY <1>1, <2>2, <2>3, <2>4 DEF IInv, DeadPeerOnlyAfterEarlyExit, NegotiationInv
<1>3. ASSUME NEW c \in Clients, NewClient(c) PROVE IInv'
  <2>1. /\ UNCHANGED <<other_, pc>> /\ obj' = [obj EXCEPT ![c] = "alive"]
        /\ \/ c = A /\ main = "new_a" /\ main' = "new_b"
           \/ c = B /\ main = "new_b" /\ main' = "link_a"
    BY <1>3, TwoClients DEF NewClient, Goto, Clients
  <2>2. obj \in [Clients -> {"unborn", "alive", "dead"}] /\ pc \in [Clients -> Peer]
    BY DEF TypeOK
  <2>3. Fresh(pc[A]) /\ Fresh(pc[B])
    BY <1>1, <2>1 DEF NegotiationInv, NotStarted, Phase, Fresh, Offering, Offered,
       Answering, Answered, Settled, Has
  <2>4. Lifetimes'
    BY <1>1, <2>1, <2>2 DEF Lifetimes, Ended
  <2>5. NegotiationInv'
    <3>1. \A d \in Clients : obj[d] # "dead"
      BY <1>1, <2>1 DEF Lifetimes, Ended
    <3>2. QED
      BY <1>1, <2>1, <2>2, <2>3, <3>1 DEF NegotiationInv, NotStarted, Phase, SigMatches,
         Fresh, Offered, Answering, Has
  <2>6. CandidatesReachPeer'
    BY <2>1, <2>3 DEF CandidatesReachPeer, Fresh, Has, Clients
  <2>7. ChannelInv'
    <3>1. /\ channel \in [Clients -> Channel] /\ data_channel_ \in [Clients -> BOOLEAN]
          /\ ChannelInv
      BY DEF TypeOK, IInv
    <3>2. CASE c = A
      <4>1. /\ data_channel_' = [data_channel_ EXCEPT ![A] = TRUE]
            /\ channel' = [channel EXCEPT ![A].state = "connecting", ![A].observed = TRUE]
        BY <1>3, <3>2 DEF NewClient
      <4>2. QED
        BY <3>1, <4>1 DEF ChannelInv, Channel
    <3>3. CASE c = B
      <4>1. data_channel_' = data_channel_ /\ channel' = channel
        BY <1>3, <3>3, TwoClients DEF NewClient
      <4>2. QED
        BY <3>1, <4>1 DEF ChannelInv
    <3>4. QED
      BY <3>2, <3>3 DEF Clients
  <2>8. QED
    BY <1>1, <2>4, <2>5, <2>6, <2>7 DEF IInv, DeadPeerOnlyAfterEarlyExit, NegotiationInv
<1>4. ASSUME NEW c \in Clients, SetOther(c) PROVE IInv'
  <2>1. /\ UNCHANGED <<obj, data_channel_, pc, channel>>
        /\ other_' = [other_ EXCEPT ![c] = OtherClient(c)]
        /\ \/ c = A /\ main = "link_a" /\ main' = "link_b"
           \/ c = B /\ main = "link_b" /\ main' = "start"
    BY <1>4, TwoClients DEF SetOther, Goto, Clients, channelVars
  <2>2. other_ \in [Clients -> Clients \cup {NoClient}]
    BY DEF TypeOK
  <2>3. Lifetimes'
    BY <1>1, <2>1, <2>2, TwoClients DEF Lifetimes, Ended, OtherClient
  <2>4. NegotiationInv'
    BY <1>1, <2>1 DEF NegotiationInv, NotStarted, Phase, SigMatches, Fresh, Offering,
       Offered, Answering, Answered, Settled, Has
  <2>5. CandidatesReachPeer' /\ ChannelInv'
    BY <1>1, <2>1 DEF CandidatesReachPeer, ChannelInv, IInv
  <2>6. QED
    BY <1>1, <2>3, <2>4, <2>5 DEF IInv, DeadPeerOnlyAfterEarlyExit, NegotiationInv
<1>5. CASE Start
  <2>1. /\ UNCHANGED <<obj, other_, data_channel_, channel>>
        /\ pc' = [pc EXCEPT ![A] = CreateOffer(pc[A])]
        /\ main = "start" /\ main' = "console"
    BY <1>5 DEF Start, Goto, clientVars, channelVars
  <2>2. pc \in [Clients -> Peer] /\ pc[A] \in Peer
    BY DEF TypeOK
  <2>3. Fresh(pc[A]) /\ Fresh(pc[B]) /\ pc[A].sig # "closed"
    BY <1>1, <2>1 DEF NegotiationInv, NotStarted, Phase, Fresh, Offering, Offered,
       Answering, Answered, Settled, Has, Lifetimes, Ended
  <2>4. pc' = [pc EXCEPT ![A].request = "offer"]
    BY <2>1, <2>3 DEF CreateOffer, Fresh, Has
  <2>5. Lifetimes'
    BY <1>1, <2>1, <2>2, <2>4 DEF Lifetimes, Ended, Peer
  <2>6. NegotiationInv'
    <3>1. /\ Offering(pc'[A]) /\ pc'[A].sig = pc[A].sig /\ pc'[A].toReport = pc[A].toReport
          /\ pc'[A].failed = pc[A].failed /\ pc'[B] = pc[B]
      BY <2>2, <2>3, <2>4, TwoClients DEF Fresh, Offering, Has, Peer
    <3>2. QED
      BY <1>1, <2>1, <2>3, <3>1, TwoClients DEF NegotiationInv, NotStarted, Phase, SigMatches,
         Fresh, Offering, Offered, Answering, Has, Clients
  <2>7. CandidatesReachPeer'
    BY <2>2, <2>3, <2>4 DEF CandidatesReachPeer, Fresh, Has, Clients, Peer
  <2>8. ChannelInv'
    BY <2>1 DEF ChannelInv, IInv
  <2>9. QED
    BY <1>1, <2>5, <2>6, <2>7, <2>8 DEF IInv, DeadPeerOnlyAfterEarlyExit, NegotiationInv
<1>6. QED
  BY <1>2, <1>3, <1>4, <1>5

\* Releasing both clients leaves alive only one with a request outstanding.
LEMMA TeardownStep ==
  ASSUME TypeOK, IInv, Teardown
  PROVE  IInv'
<1> USE ClientFacts
<1>1. /\ fault = "none" /\ main = "exiting" /\ main' = "stopping" /\ other_' = other_
      /\ data_channel_' = data_channel_
      /\ Lifetimes /\ NegotiationInv /\ CandidatesReachPeer /\ ChannelInv
  BY DEF IInv, Teardown, Goto
<1>2. /\ pc \in [Clients -> Peer] /\ channel \in [Clients -> Channel]
      /\ obj \in [Clients -> {"unborn", "alive", "dead"}]
  BY DEF TypeOK
<1>3. fault' = fault
  BY <1>1 DEF Teardown, ChannelInv
<1>4. \A c \in Clients :
        /\ obj'[c] = IF pc[c].request = "none" THEN "dead" ELSE obj[c]
        /\ pc'[c] = IF pc[c].request = "none" THEN Close(pc[c]) ELSE pc[c]
        /\ channel'[c] = IF pc[c].request = "none" THEN [channel[c] EXCEPT !.state = "closed"]
                                                   ELSE channel[c]
  BY DEF Teardown, Released
<1>5. \A c \in Clients :
        /\ pc'[c].local = pc[c].local /\ pc'[c].remote = pc[c].remote
        /\ pc'[c].request = pc[c].request /\ pc'[c].failed = pc[c].failed
        /\ pc[c].request # "none" => pc'[c] = pc[c]
        /\ pc'[c].toReport \subseteq pc[c].toReport
  <2> SUFFICES ASSUME NEW c \in Clients
               PROVE  /\ pc'[c].local = pc[c].local /\ pc'[c].remote = pc[c].remote
                      /\ pc'[c].request = pc[c].request /\ pc'[c].failed = pc[c].failed
                      /\ pc[c].request # "none" => pc'[c] = pc[c]
                      /\ pc'[c].toReport \subseteq pc[c].toReport
    OBVIOUS
  <2>1. pc[c] \in Peer
    BY <1>2
  <2>2. /\ Close(pc[c]).local = pc[c].local /\ Close(pc[c]).remote = pc[c].remote
        /\ Close(pc[c]).request = pc[c].request /\ Close(pc[c]).failed = pc[c].failed
        /\ Close(pc[c]).toReport = {}
    BY <2>1 DEF Close, Peer
  <2>3. pc'[c] = IF pc[c].request = "none" THEN Close(pc[c]) ELSE pc[c]
    BY <1>4
  <2>4. QED
    BY <2>2, <2>3
<1>6. Phase'
  BY <1>1, <1>5 DEF NegotiationInv, Phase, Fresh, Offering, Offered, Answering, Answered,
     Settled, Has
<1>7. Lifetimes'
  <2>1. \A c \in Clients : obj'[c] = "alive" => pc'[c].request # "none"
    BY <1>4, <1>5
  <2>2. obj'[A] # "unborn" /\ obj'[B] # "unborn"
    BY <1>1, <1>4 DEF Lifetimes
  <2>3. QED
    BY <1>1, <2>1, <2>2 DEF Lifetimes, Ended
<1>8. NegotiationInv'
  <2>1. ASSUME NEW c \in Clients
        PROVE  /\ ~pc'[c].failed
               /\ pc'[c].local = "none" => pc'[c].toReport = {}
               /\ pc'[c].sig = "closed" => obj'[c] = "dead"
               /\ obj'[c] # "dead" => SigMatches(pc[c])'
    <3>1. /\ ~pc[c].failed /\ (pc[c].local = "none" => pc[c].toReport = {})
          /\ pc[c].sig # "closed" /\ SigMatches(pc[c])
      BY <1>1 DEF NegotiationInv, Lifetimes, Ended
    <3>2. CASE pc[c].request = "none"
      BY <1>4, <1>5, <3>1, <3>2
    <3>3. CASE pc[c].request # "none"
      <4>1. pc'[c] = pc[c]
        BY <1>5, <3>3
      <4>2. SigMatches(pc[c])'
        BY <3>1, <4>1 DEF SigMatches, Offered, Answering, Has
      <4>3. QED
        BY <3>1, <4>1, <4>2
    <3>4. QED
      BY <3>2, <3>3
  <2>2. ~NotStarted'
    BY <1>1 DEF NotStarted
  <2>3. QED
    BY <1>6, <2>1, <2>2 DEF NegotiationInv
<1>9. CandidatesReachPeer'
  <2>1. ASSUME NEW c \in Clients PROVE ~(obj'[c] = "alive" /\ pc'[c].local # "none")
    <3>1. pc[c].request = "none" => obj'[c] = "dead"
      BY <1>4
    <3>2. pc[c].request # "none" => pc[c].local = "none"
      BY <1>1, PhaseFacts DEF NegotiationInv
    <3>3. QED
      BY <1>5, <3>1, <3>2
  <2>2. QED
    BY <2>1 DEF CandidatesReachPeer
<1>10. ChannelInv'
  <2>1. ASSUME NEW c \in Clients
        PROVE  /\ channel'[c].observed = channel[c].observed
               /\ channel'[c].state = "connecting" => channel[c].state = "connecting"
    <3>1. channel[c] \in Channel
      BY <1>2
    <3>2. channel'[c] = IF pc[c].request = "none" THEN [channel[c] EXCEPT !.state = "closed"]
                                                  ELSE channel[c]
      BY <1>4
    <3>3. QED
      BY <3>1, <3>2 DEF Channel
  <2>2. QED
    BY <1>1, <2>1 DEF ChannelInv
<1>11. QED
  BY <1>1, <1>3, <1>7, <1>8, <1>9, <1>10 DEF IInv, DeadPeerOnlyAfterEarlyExit, NegotiationInv

\* The inductive invariant.
LEMMA Inductive == Spec => []IInv
<1>1. Init => IInv
  <2> SUFFICES ASSUME Init PROVE IInv
    OBVIOUS
  <2>1. \A c \in Clients : pc[c] = NewPeer /\ obj[c] = "unborn" /\ channel[c] = NoChannel
    BY DEF Init
  <2>2. Phase /\ Fresh(pc[A]) /\ \A c \in Clients : SigMatches(pc[c])
    BY <2>1, ClientFacts DEF NewPeer, Phase, Fresh, SigMatches, Offered, Answering, Has
  <2>3. QED
    BY <2>1, <2>2, ClientFacts DEF Init, IInv, Lifetimes, NegotiationInv, CandidatesReachPeer,
       DeadPeerOnlyAfterEarlyExit, ChannelInv, NewPeer, NoChannel, NotStarted, Ended
<1>2. TypeOK /\ TypeOK' /\ IInv /\ [Next]_vars => IInv'
  <2> SUFFICES ASSUME TypeOK, TypeOK', IInv, [Next]_vars PROVE IInv'
    OBVIOUS
  <2>1. CASE MainProceeds \/ ReadConsole
    BY <2>1, SetupStep, TeardownStep DEF MainProceeds
  <2>2. ASSUME NEW c \in Clients, SignalThread(c) PROVE IInv'
    BY <2>2, OnSuccessStep, OnIceCandidateStep, ChannelStep DEF SignalThread
  <2>3. CASE UNCHANGED vars
    BY <2>3 DEF vars, IInv, Lifetimes, NotStarted, Ended, NegotiationInv, Phase, SigMatches,
       Fresh, Offering, Offered, Answering, Answered, Settled, Has, CandidatesReachPeer,
       DeadPeerOnlyAfterEarlyExit, ChannelInv
  <2>4. QED
    BY <2>1, <2>2, <2>3 DEF Next
<1>3. QED
  BY <1>1, <1>2, TypeCorrect, PTL DEF Spec

------------------------------------------------------------------------------
\* Both clients hold the same descriptions between any two tasks of the
\* signaling thread: OnSuccess forwards the one it sets in the same task.
THEOREM MirrorTheorem == Spec => []DescriptionsMirror
<1>1. TypeOK /\ IInv => DescriptionsMirror
  BY PhaseFacts DEF IInv, NegotiationInv, DescriptionsMirror
<1>2. QED
  BY <1>1, TypeCorrect, Inductive, PTL

\* Every candidate given to OnIceCandidate is accepted by the other client,
\* however the reports of the two sides interleave with the descriptions.
THEOREM CandidateTheorem == Spec => []CandidatesReachPeer
<1>1. IInv => CandidatesReachPeer
  BY DEF IInv, CandidatesReachPeer
<1>2. QED
  BY <1>1, Inductive, PTL

\* Neither assert(data_channel_) in OnStateChange nor the assert(false) of the
\* OnFailure handlers is ever reached with a false argument.
THEOREM AssertTheorem == Spec => []NoHandlerAsserts
<1>1. IInv => NoHandlerAsserts
  BY DEF IInv, NoHandlerAsserts
<1>2. QED
  BY <1>1, Inductive, PTL

\* A released client is called only when "exit" came before the answer.
THEOREM DeadPeerTheorem == Spec => []DeadPeerOnlyAfterEarlyExit
<1>1. IInv => DeadPeerOnlyAfterEarlyExit
  BY DEF IInv
<1>2. QED
  BY <1>1, Inductive, PTL

------------------------------------------------------------------------------
(* The sample implements HelloExchange.                                     *)

\* Where the greeting for c is, if its sender has sent it: behind the
\* announcement of the channel, on the wire, kept by the channel, or printed;
\* or the teardown has dropped it.
Places(c, w, r, s) == wire[c] = w /\ channel[c].received = r /\ shown[c] = s

GreetingFor(c) ==
  LET o == OtherClient(c)
  IN  \/ Places(c, << >>, << >>, << >>)
      \/ /\ c = B /\ o \in greeted /\ c \notin greeted /\ channel[c].state # "connecting"
         /\ Places(c, <<"OPEN", o>>, << >>, << >>)
      \/ o \in greeted /\ Places(c, <<o>>, << >>, << >>)
      \/ o \in greeted /\ Places(c, << >>, <<o>>, << >>)
      \/ o \in greeted /\ Places(c, << >>, << >>, <<o>>)

\* Each client greets once, B only after A, and a greeting is in at most one
\* place.
MessageInv ==
  /\ A \notin greeted => B \notin greeted /\ channel[B].state # "connecting"
  /\ fault = "none" /\ NotStarted => greeted = {}
  /\ \A c \in Clients :
       /\ GreetingFor(c)
       /\ OtherClient(c) \notin greeted => Places(c, << >>, << >>, << >>)
       /\ channel[c].state = "connecting" => c \notin greeted

LEMMA FrameFacts ==
  ASSUME NEW c \in Clients
  PROVE  /\ Head(<<c>>) = c /\ Tail(<<c>>) = << >> /\ <<c>> # << >>
         /\ Head(<<"OPEN", c>>) = "OPEN" /\ Tail(<<"OPEN", c>>) = <<c>> /\ <<"OPEN", c>> # << >>
         /\ << >> \o <<c>> = <<c>> /\ << >> \o <<"OPEN", c>> = <<"OPEN", c>>
         /\ <<c>> \o << >> = <<c>> /\ << >> \o << >> = << >>
         /\ Append(<< >>, c) = <<c>>
         /\ "OPEN" # c
<1>1. "OPEN" # c
  BY OpenIsNoClient
<1>2. Head(<<c>>) = c /\ Tail(<<c>>) = << >> /\ <<c>> # << >>
  OBVIOUS
<1>3. Head(<<"OPEN", c>>) = "OPEN" /\ Tail(<<"OPEN", c>>) = <<c>> /\ <<"OPEN", c>> # << >>
  OBVIOUS
<1>4. << >> \o <<c>> = <<c>> /\ << >> \o <<"OPEN", c>> = <<"OPEN", c>>
  OBVIOUS
<1>5. <<c>> \o << >> = <<c>> /\ << >> \o << >> = << >>
  OBVIOUS
<1>6. Append(<< >>, c) = <<c>>
  OBVIOUS
<1>7. QED
  BY <1>1, <1>2, <1>3, <1>4, <1>5, <1>6

\* A channel that opens sends the greeting and prints the one it kept.
LEMMA ChannelOpensSays ==
  ASSUME TypeOK, IInv, MessageInv, SignalThreadRuns, NEW c \in Clients, ChannelOpens(c)
  PROVE  MessageInv' /\ Hello!Exchange(c)
<1> DEFINE o == OtherClient(c)
<1>1. /\ o \in Clients /\ o # c /\ Clients = {c, o} /\ OtherClient(o) = c /\ "OPEN" # c
      /\ channel \in [Clients -> Channel] /\ channel[c] \in Channel
      /\ wire \in [Clients -> Seq(Frame)] /\ shown \in [Clients -> Seq(Clients)]
  BY ClientFacts, FrameFacts DEF TypeOK
<1>2. channel[c].state = "connecting" /\ channel[c].observed /\ c \notin greeted
  BY DEF ChannelOpens, IInv, ChannelInv, MessageInv
<1>3. /\ greeted' = greeted \cup {c}
      /\ wire' = [wire EXCEPT ![o] = @ \o FramesOnOpen(c)]
      /\ channel' = [channel EXCEPT ![c].state = "open", ![c].received = << >>]
      /\ shown' = [shown EXCEPT ![c] = @ \o channel[c].received]
      /\ main' = main
  BY <1>2 DEF ChannelOpens, OnStateChange
<1>4. Places(o, << >>, << >>, << >>)
  BY <1>1, <1>2 DEF MessageInv
<1>5. FramesOnOpen(c) = IF c = A THEN <<"OPEN", c>> ELSE <<c>>
  BY <1>2, FrameFacts DEF FramesOnOpen
<1>6. /\ wire'[o] = FramesOnOpen(c) /\ channel'[o] = channel[o] /\ shown'[o] = shown[o]
      /\ wire'[c] = wire[c]
      /\ channel'[c].received = << >> /\ channel'[c].state = "open"
      /\ shown'[c] = shown[c] \o channel[c].received
  <2>1. wire[o] = << >>
    BY <1>4 DEF Places
  <2>2. << >> \o FramesOnOpen(c) = FramesOnOpen(c)
    BY <1>5, FrameFacts
  <2>3. QED
    BY <1>1, <1>3, <2>1, <2>2 DEF Channel
<1>7. \/ channel[c].received = << >> /\ shown'[c] = shown[c]
      \/ /\ o \in greeted /\ wire[c] = << >> /\ channel[c].received = <<o>>
         /\ shown[c] = << >> /\ shown'[c] = <<o>>
  <2>1. GreetingFor(c)
    BY DEF MessageInv
  <2>2. shown[c] \o << >> = shown[c] /\ << >> \o <<o>> = <<o>>
    BY <1>1, FrameFacts
  <2>3. QED
    BY <1>6, <2>1, <2>2 DEF GreetingFor, Places
<1>8. GreetingFor(o)'
  <2>1. wire'[o] = FramesOnOpen(c) /\ channel'[o].received = << >> /\ shown'[o] = << >>
    BY <1>4, <1>6 DEF Places
  <2>2. c = A => o = B /\ o \notin greeted' /\ channel'[o].state # "connecting"
    BY <1>1, <1>2, <1>3, <1>6 DEF OtherClient, MessageInv
  <2>3. CASE c = A
    <3>1. Places(o, <<"OPEN", c>>, << >>, << >>)'
      BY <1>5, <2>1, <2>3 DEF Places
    <3>2. QED
      BY <1>1, <1>3, <2>2, <2>3, <3>1 DEF GreetingFor
  <2>4. CASE c # A
    <3>1. Places(o, <<c>>, << >>, << >>)'
      BY <1>5, <2>1, <2>4 DEF Places
    <3>2. QED
      BY <1>1, <1>3, <3>1 DEF GreetingFor
  <2>5. QED
    BY <2>3, <2>4
<1>9. GreetingFor(c)'
  <2>1. wire'[c] = wire[c] /\ channel'[c].received = << >>
    BY <1>6
  <2>2. \/ Places(c, << >>, << >>, << >>)
        \/ o \in greeted /\ Places(c, <<o>>, << >>, << >>)
        \/ o \in greeted /\ Places(c, << >>, <<o>>, << >>)
        \/ o \in greeted /\ Places(c, << >>, << >>, <<o>>)
    BY <1>2 DEF MessageInv, GreetingFor
  <2>3. <<o>> # << >>
    BY <1>1, FrameFacts
  <2>4. QED
    BY <1>3, <1>7, <2>1, <2>2, <2>3 DEF GreetingFor, Places
<1>10. MessageInv'
  <2>1. A \notin greeted' => B \notin greeted' /\ channel'[B].state # "connecting"
    BY <1>1, <1>2, <1>3, <1>6, ClientFacts DEF MessageInv
  <2>2. ~NotStarted
    <3>1. Negotiated(pc[A])
      BY ClientFacts DEF ChannelOpens, TransportCanConnect
    <3>2. QED
      BY <3>1 DEF IInv, SignalThreadRuns, NegotiationInv, Negotiated, Fresh, Has
  <2>3. ~NotStarted'
    BY <1>3, <2>2 DEF NotStarted
  <2>4. /\ o \notin greeted' => Places(c, << >>, << >>, << >>)'
        /\ channel'[c].state = "connecting" => c \notin greeted'
    <3>1. o \notin greeted => Places(c, << >>, << >>, << >>)
      BY DEF MessageInv
    <3>2. <<o>> # << >>
      BY <1>1, FrameFacts
    <3>3. QED
      BY <1>3, <1>6, <1>7, <3>1, <3>2 DEF Places
  <2>5. /\ c \notin greeted' => Places(o, << >>, << >>, << >>)'
        /\ channel'[o].state = "connecting" => o \notin greeted'
    BY <1>1, <1>3, <1>6 DEF MessageInv
  <2>6. QED
    BY <1>1, <1>8, <1>9, <2>1, <2>3, <2>4, <2>5 DEF MessageInv
<1>11. Hello!Exchange(c)
  <2>1. Hello!Say(c)
    BY <1>2, <1>3 DEF Hello!Say
  <2>2. CASE shown'[c] = shown[c]
    <3>1. shown' = shown
      BY <1>1, <1>3, <2>2
    <3>2. QED
      BY <2>1, <3>1 DEF Hello!Exchange
  <2>3. CASE o \in greeted /\ shown[c] = << >> /\ shown'[c] = <<o>>
    <3>1. shown' = [shown EXCEPT ![c] = <<o>>]
      BY <1>1, <1>3, <2>3
    <3>2. Hello!Hear(c)
      BY <1>1, <2>3, <3>1 DEF Hello!Hear
    <3>3. QED
      BY <2>1, <3>2 DEF Hello!Exchange
  <2>4. QED
    BY <1>7, <2>2, <2>3
<1>12. QED
  BY <1>10, <1>11

\* The announcement is taken off the wire.
LEMMA OnDataChannelKeeps ==
  ASSUME TypeOK, IInv, MessageInv, NEW c \in Clients, OnDataChannel(c)
  PROVE  MessageInv' /\ UNCHANGED <<greeted, shown>>
<1> DEFINE o == OtherClient(c)
<1>1. /\ o \in Clients /\ o # c /\ Clients = {c, o} /\ OtherClient(o) = c /\ "OPEN" # o
      /\ channel \in [Clients -> Channel] /\ channel[c] \in Channel
      /\ wire \in [Clients -> Seq(Frame)]
  BY ClientFacts, FrameFacts DEF TypeOK
<1>2. /\ wire[c] # << >> /\ Head(wire[c]) = "OPEN"
      /\ wire' = [wire EXCEPT ![c] = Tail(wire[c])]
      /\ channel' = [channel EXCEPT ![c].state = "connecting", ![c].observed = TRUE]
      /\ UNCHANGED <<main, fault, greeted, shown>>
  BY DEF OnDataChannel
<1>3. /\ c = B /\ o \in greeted /\ c \notin greeted
      /\ Places(c, <<"OPEN", o>>, << >>, << >>)
  <2>1. GreetingFor(c)
    BY DEF MessageInv
  <2>2. Head(<<o>>) = o
    BY <1>1, FrameFacts
  <2>3. QED
    BY <1>1, <1>2, <2>1, <2>2 DEF GreetingFor, Places
<1>4. /\ wire'[c] = <<o>> /\ wire'[o] = wire[o]
      /\ channel'[c].received = channel[c].received /\ channel'[o] = channel[o]
  <2>1. wire[c] = <<"OPEN", o>> /\ Tail(<<"OPEN", o>>) = <<o>>
    BY <1>1, <1>3, FrameFacts DEF Places
  <2>2. QED
    BY <1>1, <1>2, <2>1 DEF Channel
<1>5. GreetingFor(c)' /\ (o \notin greeted' => Places(c, << >>, << >>, << >>)')
  BY <1>1, <1>2, <1>3, <1>4 DEF GreetingFor, Places
<1>6. GreetingFor(o)' /\ (c \notin greeted' => Places(o, << >>, << >>, << >>)')
  BY <1>1, <1>2, <1>4 DEF MessageInv, GreetingFor, Places
<1>7. \A d \in Clients : channel'[d].state = "connecting" => d \notin greeted'
  BY <1>1, <1>2, <1>3, <1>4 DEF MessageInv
<1>8. A \notin greeted' => B \notin greeted' /\ channel'[B].state # "connecting"
  BY <1>1, <1>2, <1>3 DEF MessageInv, OtherClient
<1>9. fault' = "none" /\ NotStarted' => greeted' = {}
  BY <1>2 DEF MessageInv, NotStarted
<1>10. QED
  BY <1>1, <1>2, <1>5, <1>6, <1>7, <1>8, <1>9 DEF MessageInv

\* A greeting that arrives is printed, or kept by the channel.
LEMMA OnMessageHears ==
  ASSUME TypeOK, IInv, MessageInv, NEW c \in Clients, OnMessage(c)
  PROVE  MessageInv' /\ (Hello!Exchange(c) \/ UNCHANGED <<greeted, shown>>)
<1> DEFINE o == OtherClient(c)
<1>1. /\ o \in Clients /\ o # c /\ Clients = {c, o} /\ OtherClient(o) = c /\ "OPEN" \notin Clients
      /\ channel \in [Clients -> Channel] /\ channel[c] \in Channel
      /\ wire \in [Clients -> Seq(Frame)] /\ shown \in [Clients -> Seq(Clients)]
  BY ClientFacts, OpenIsNoClient DEF TypeOK
<1>2. /\ wire[c] # << >> /\ Head(wire[c]) \in Clients
      /\ wire' = [wire EXCEPT ![c] = Tail(wire[c])]
      /\ UNCHANGED <<main, fault, greeted>>
  BY DEF OnMessage
<1>3. o \in greeted /\ Places(c, <<o>>, << >>, << >>)
  <2>1. GreetingFor(c)
    BY DEF MessageInv
  <2>2. Head(<<"OPEN", o>>) = "OPEN"
    BY <1>1, FrameFacts
  <2>3. QED
    BY <1>1, <1>2, <2>1, <2>2 DEF GreetingFor, Places
<1>4. /\ Head(wire[c]) = o /\ Tail(wire[c]) = << >>
      /\ Append(shown[c], o) = <<o>> /\ Append(channel[c].received, o) = <<o>>
  BY <1>1, <1>3, FrameFacts DEF Places
<1>5. wire'[c] = << >> /\ wire'[o] = wire[o]
  BY <1>1, <1>2, <1>4
<1>6. /\ \/ shown' = [shown EXCEPT ![c] = <<o>>] /\ channel' = channel
         \/ shown' = shown /\ channel' = [channel EXCEPT ![c].received = <<o>>]
      /\ \A d \in Clients : channel'[d].state = channel[d].state
  <2>1. CASE channel[c].state = "open" /\ channel[c].observed
    BY <1>4, <2>1 DEF OnMessage
  <2>2. CASE ~(channel[c].state = "open" /\ channel[c].observed)
    <3>1. shown' = shown /\ channel' = [channel EXCEPT ![c].received = <<o>>]
      BY <1>4, <2>2 DEF OnMessage
    <3>2. QED
      BY <1>1, <3>1 DEF Channel
  <2>3. QED
    BY <2>1, <2>2
<1>7. GreetingFor(c)'
  <2>1. \/ Places(c, << >>, << >>, <<o>>)'
        \/ Places(c, << >>, <<o>>, << >>)'
    BY <1>1, <1>3, <1>5, <1>6 DEF Places, Channel
  <2>2. QED
    BY <1>2, <1>3, <2>1 DEF GreetingFor
<1>8. GreetingFor(o)' /\ (c \notin greeted' => Places(o, << >>, << >>, << >>)')
  <2>1. wire'[o] = wire[o] /\ channel'[o] = channel[o] /\ shown'[o] = shown[o]
    BY <1>1, <1>5, <1>6
  <2>2. QED
    BY <1>1, <1>2, <2>1 DEF MessageInv, GreetingFor, Places
<1>9. MessageInv'
  BY <1>1, <1>2, <1>3, <1>6, <1>7, <1>8, ClientFacts DEF MessageInv, NotStarted
<1>10. Hello!Exchange(c) \/ UNCHANGED <<greeted, shown>>
  <2>1. CASE shown' = [shown EXCEPT ![c] = <<o>>]
    <3>1. Hello!Hear(c)
      BY <1>1, <1>3, <2>1 DEF Hello!Hear, Places
    <3>2. QED
      BY <1>2, <3>1 DEF Hello!Exchange
  <2>2. QED
    BY <1>2, <1>6, <2>1
<1>11. QED
  BY <1>9, <1>10

\* The other steps neither say nor print anything.
LEMMA OtherStepsKeep ==
  ASSUME TypeOK, IInv, MessageInv,
         \/ MainProceeds \/ ReadConsole \/ UNCHANGED vars
         \/ SignalThreadRuns /\ \E c \in Clients : OnSuccess(c) \/ OnIceCandidate(c)
  PROVE  MessageInv' /\ UNCHANGED <<greeted, shown>>
<1>1. UNCHANGED <<greeted, shown>>
  BY DEF MainProceeds, StartThread, NewClient, SetOther, Start, Teardown, StopThread,
     ReadConsole, OnSuccess, OnIceCandidate, clientVars, channelVars, vars
<1>2. fault' = "none" /\ NotStarted' => fault = "none" /\ NotStarted
  BY DEF MainProceeds, StartThread, NewClient, SetOther, Start, Teardown, StopThread, Goto,
     ReadConsole, OnSuccess, OnIceCandidate, vars, NotStarted, SignalThreadRuns
<1>3. /\ channel \in [Clients -> Channel] /\ \A c \in Clients : channel[c] \in Channel
  BY DEF TypeOK
<1>4. \A c \in Clients : /\ wire'[c] = wire[c] \/ wire'[c] = << >>
                         /\ channel'[c].received = channel[c].received
  <2>1. CASE \E c \in Clients : NewClient(c)
    <3>1. PICK d \in Clients : NewClient(d)
      BY <2>1
    <3>2. /\ wire' = wire
          /\ \/ channel' = channel
             \/ channel' = [channel EXCEPT ![d].state = "connecting", ![d].observed = TRUE]
      BY <3>1 DEF NewClient
    <3>3. QED
      BY <1>3, <3>2 DEF Channel
  <2>2. CASE Teardown
    BY <1>3, <2>2 DEF Teardown, Channel
  <2>3. CASE channel' = channel /\ wire' = wire
    BY <2>3
  <2>4. QED
    BY <2>1, <2>2, <2>3 DEF MainProceeds, StartThread, SetOther, Start, StopThread,
       ReadConsole, OnSuccess, OnIceCandidate, channelVars, vars
<1>5. \A c \in Clients : channel'[c].state = "connecting" =>
        channel[c].state = "connecting" \/ (c = A /\ greeted = {})
  <2>1. CASE \E c \in Clients : NewClient(c)
    <3>1. fault = "none" /\ NotStarted
      BY <2>1 DEF NewClient, Goto, NotStarted
    <3>2. QED
      BY <1>3, <2>1, <3>1 DEF NewClient, MessageInv, Channel
  <2>2. CASE Teardown
    BY <1>3, <2>2 DEF Teardown, Channel
  <2>3. CASE channel' = channel
    BY <2>3
  <2>4. QED
    BY <2>1, <2>2, <2>3 DEF MainProceeds, StartThread, SetOther, Start, StopThread,
       ReadConsole, OnSuccess, OnIceCandidate, channelVars, vars
<1>6. \A c \in Clients : GreetingFor(c)'
  <2> SUFFICES ASSUME NEW c \in Clients PROVE GreetingFor(c)'
    OBVIOUS
  <2>1. GreetingFor(c)
    BY DEF MessageInv
  <2>2. QED
    BY <1>1, <1>4, <1>5, <2>1, ClientFacts DEF GreetingFor, Places
<1>7. \A c \in Clients : OtherClient(c) \notin greeted' => Places(c, << >>, << >>, << >>)'
  BY <1>1, <1>4 DEF MessageInv, Places
<1>8. QED
  BY <1>1, <1>2, <1>5, <1>6, <1>7, ClientFacts, TwoClients DEF MessageInv

\* The datachannel sample is a HelloExchange, for every set of candidates: each
\* greeting is printed at most once, by the other client, after it was sent.
THEOREM HelloTheorem == Spec => GreetsAtMostOnce
<1>1. Init => MessageInv /\ Hello!Init
  BY ClientFacts DEF Init, MessageInv, GreetingFor, Places, NoChannel, Hello!Init
<1>2. /\ TypeOK /\ IInv /\ MessageInv /\ [Next]_vars
      => MessageInv' /\ [Hello!Next]_(Hello!vars)
  <2> SUFFICES ASSUME TypeOK, IInv, MessageInv, [Next]_vars
               PROVE  MessageInv' /\ [Hello!Next]_(Hello!vars)
    OBVIOUS
  <2>1. ASSUME NEW c \in Clients, SignalThreadRuns,
               ChannelOpens(c) \/ OnDataChannel(c) \/ OnMessage(c)
        PROVE  MessageInv' /\ (Hello!Exchange(c) \/ UNCHANGED <<greeted, shown>>)
    BY <2>1, ChannelOpensSays, OnDataChannelKeeps, OnMessageHears
  <2>2. MessageInv' /\ ((\E c \in Clients : Hello!Exchange(c)) \/ UNCHANGED <<greeted, shown>>)
    BY <2>1, OtherStepsKeep DEF Next, SignalThread
  <2>3. QED
    BY <2>2 DEF Hello!Next, Hello!vars
<1>3. QED
  BY <1>1, <1>2, TypeCorrect, Inductive, PTL DEF Spec, GreetsAtMostOnce, Hello!Spec
===============================================================================
