-------------------------- MODULE DataChannelSample --------------------------
(***************************************************************************)
(* src/datachannel/main.cpp: two SimpleClients of one process negotiate a  *)
(* peer connection by calling each other and greet over a data channel.    *)
(*                                                                         *)
(* Two threads matter.  main() creates and links the clients, starts the   *)
(* negotiation, waits for "exit" and tears down.  The signaling thread     *)
(* runs every callback of libwebrtc; a callback, with the calls it makes   *)
(* on the other client, runs to completion, so it is one step.  A callback *)
(* is posted at a time the network decides, hence any callback that is due *)
(* may be the next one to run.                                             *)
(***************************************************************************)
EXTENDS PeerConnection, Sequences

CONSTANTS NoClient,     \* a null SimpleClient*
          Words         \* what the user may type

ASSUME NullIsNoClient == NoClient \notin Clients
ASSUME ExitIsAWord == "exit" \in Words
ASSUME OpenIsNoClient == "OPEN" \notin Clients

VARIABLES main,           \* where main() is
          console,        \* the last word read
          obj,            \* life of each SimpleClient object
          other_,         \* the raw pointer to the other client
          data_channel_,  \* whether the scoped_refptr is non-null
          pc,             \* peer_connection_ of each client
          channel,        \* the data channel inside each peer connection
          wire,           \* frames on their way to each client
          greeted,        \* clients whose Send has been called
          shown,          \* senders of the messages each client printed
          fault           \* why the process stopped working, if it did

vars == <<main, console, obj, other_, data_channel_, pc, channel, wire,
          greeted, shown, fault>>

clientVars == <<obj, other_, data_channel_>>
channelVars == <<channel, wire, greeted, shown>>

Channel == [state : {"none", "connecting", "open", "closed"},
            observed : BOOLEAN,
            received : Seq(Clients)]

NoChannel == [state |-> "none", observed |-> FALSE, received |-> << >>]

\* In flight: the announcement of A's channel, or a greeting of a client.
Frame == {"OPEN"} \cup Clients

MainPoint == {"boot", "new_a", "new_b", "link_a", "link_b", "start",
              "console", "exiting", "stopping", "done"}

TypeOK ==
  /\ main \in MainPoint
  /\ console \in Words \cup {"none"}
  /\ obj \in [Clients -> {"unborn", "alive", "dead"}]
  /\ other_ \in [Clients -> Clients \cup {NoClient}]
  /\ data_channel_ \in [Clients -> BOOLEAN]
  /\ pc \in [Clients -> Peer]
  /\ channel \in [Clients -> Channel]
  /\ wire \in [Clients -> Seq(Frame)]
  /\ greeted \subseteq Clients
  /\ shown \in [Clients -> Seq(Clients)]
  /\ fault \in {"none", "assert", "dead_peer"}

Init ==
  /\ main = "boot"
  /\ console = "none"
  /\ obj = [c \in Clients |-> "unborn"]
  /\ other_ = [c \in Clients |-> NoClient]
  /\ data_channel_ = [c \in Clients |-> FALSE]
  /\ pc = [c \in Clients |-> NewPeer]
  /\ channel = [c \in Clients |-> NoChannel]
  /\ wire = [c \in Clients |-> << >>]
  /\ greeted = {}
  /\ shown = [c \in Clients |-> << >>]
  /\ fault = "none"

\* The signaling thread delivers tasks from Start() to Stop().
SignalThreadRuns == main \notin {"boot", "done"} /\ fault = "none"

\* A call through other_ lands on an object only while that object exists.
PeerIsAlive(c) == other_[c] \in Clients /\ obj[other_[c]] = "alive"

------------------------------------------------------------------------------
(* Handlers of the signaling thread.                                        *)

\* Variant for the mutation runs: only an offer is handed to webrtc.
OnlyOffersReceived(p, type) ==
  IF type = "offer" THEN CreateAnswer(SetRemoteDescription(p, type)) ELSE p

\* received_sdp: the effect on the receiver's peer connection.
ReceivedSdp(p, type) ==
  LET q == SetRemoteDescription(p, type)
  IN  IF type = "offer" THEN CreateAnswer(q) ELSE q

\* Variant: candidates are ignored until the negotiation is over.
IgnoredUntilStable(p, cand) ==
  IF p.sig = "stable" THEN AddIceCandidate(p, cand) ELSE p

\* Variant: the candidate is passed on without the client that gathered it.
WithoutOwner(p, cand) == AddIceCandidate(p, cand[2])

ReceivedIceCandidate(p, cand) == AddIceCandidate(p, cand)

\* CreateOffer or CreateAnswer has completed: set the description and hand a
\* copy to the other client, in the same task.
OnSuccess(c) ==
  /\ obj[c] = "alive" /\ pc[c].request # "none"
  /\ LET type == pc[c].request
         own == SetLocalDescription([pc[c] EXCEPT !.request = "none"], type)
     IN  IF PeerIsAlive(c)
         THEN /\ pc' = [pc EXCEPT ![c] = own,
                                  ![other_[c]] = ReceivedSdp(pc[other_[c]], type)]
              /\ UNCHANGED fault
         ELSE /\ pc' = [pc EXCEPT ![c] = own]
              /\ fault' = "dead_peer"
  /\ UNCHANGED <<main, console, clientVars, channelVars>>

\* A candidate was gathered: it is added to the client's own connection and
\* given to the other client.
OnIceCandidate(c) ==
  /\ obj[c] = "alive"
  /\ \E k \in pc[c].toReport :
       LET own == AddIceCandidate([pc[c] EXCEPT !.toReport = @ \ {k}], <<c, k>>)
       IN  IF PeerIsAlive(c)
           THEN /\ pc' = [pc EXCEPT ![c] = own,
                                    ![other_[c]] = ReceivedIceCandidate(pc[other_[c]], <<c, k>>)]
                /\ UNCHANGED fault
           ELSE /\ pc' = [pc EXCEPT ![c] = own]
                /\ fault' = "dead_peer"
  /\ UNCHANGED <<main, console, clientVars, channelVars>>

\* The channel of c has opened: the observer, if there is one, sends the
\* greeting.
OnStateChange(c) ==
  /\ fault' = IF channel[c].observed /\ ~data_channel_[c] THEN "assert" ELSE fault
  /\ greeted' = IF channel[c].observed THEN greeted \cup {c} ELSE greeted

\* Variant: the greeting goes out twice.
GreetsTwice(c) == IF c = A THEN <<"OPEN", c, c>> ELSE <<c, c>>

\* What c puts on the wire when its channel opens: only the client that
\* created the channel announces it.
FramesOnOpen(c) ==
  IF channel[c].observed
  THEN IF c = A THEN <<"OPEN", c>> ELSE <<c>>
  ELSE IF c = A THEN <<"OPEN">> ELSE << >>

\* ICE, DTLS and SCTP need both descriptions on both sides and one candidate
\* that reached the other side.
TransportCanConnect ==
  /\ \A c \in Clients : Negotiated(pc[c])
  /\ \E c \in Clients : pc[c].remoteCandidates \cap CandidatesOf(OtherClient(c)) # {}

ChannelOpens(c) ==
  /\ channel[c].state = "connecting"
  /\ TransportCanConnect
  /\ OnStateChange(c)
  /\ wire' = [wire EXCEPT ![OtherClient(c)] = @ \o FramesOnOpen(c)]
  /\ IF channel[c].observed
     THEN /\ channel' = [channel EXCEPT ![c].state = "open", ![c].received = << >>]
          /\ shown' = [shown EXCEPT ![c] = @ \o channel[c].received]
     ELSE /\ channel' = [channel EXCEPT ![c].state = "open"]
          /\ UNCHANGED shown
  /\ UNCHANGED <<main, console, clientVars, pc>>

\* Variants: the announced channel is not observed, or not kept.
AnnouncedNotObserved(c) ==
  /\ wire[c] # << >> /\ Head(wire[c]) = "OPEN"
  /\ wire' = [wire EXCEPT ![c] = Tail(@)]
  /\ data_channel_' = [data_channel_ EXCEPT ![c] = TRUE]
  /\ channel' = [channel EXCEPT ![c].state = "connecting"]
  /\ UNCHANGED <<main, console, obj, other_, pc, greeted, shown, fault>>

AnnouncedNotKept(c) ==
  /\ wire[c] # << >> /\ Head(wire[c]) = "OPEN"
  /\ wire' = [wire EXCEPT ![c] = Tail(@)]
  /\ channel' = [channel EXCEPT ![c].state = "connecting", ![c].observed = TRUE]
  /\ UNCHANGED <<main, console, clientVars, pc, greeted, shown, fault>>

\* The other client's channel is announced: keep it and observe it.  It opens
\* in a later task.
OnDataChannel(c) ==
  /\ wire[c] # << >> /\ Head(wire[c]) = "OPEN"
  /\ wire' = [wire EXCEPT ![c] = Tail(@)]
  /\ data_channel_' = [data_channel_ EXCEPT ![c] = TRUE]
  /\ channel' = [channel EXCEPT ![c].state = "connecting", ![c].observed = TRUE]
  /\ UNCHANGED <<main, console, obj, other_, pc, greeted, shown, fault>>

\* A greeting arrives: it is printed, or kept until the channel is open and
\* observed.
OnMessage(c) ==
  /\ wire[c] # << >> /\ Head(wire[c]) \in Clients
  /\ wire' = [wire EXCEPT ![c] = Tail(@)]
  /\ IF channel[c].state = "open" /\ channel[c].observed
     THEN /\ shown' = [shown EXCEPT ![c] = Append(@, Head(wire[c]))]
          /\ UNCHANGED channel
     ELSE /\ channel' = [channel EXCEPT ![c].received = Append(@, Head(wire[c]))]
          /\ UNCHANGED shown
  /\ UNCHANGED <<main, console, clientVars, pc, greeted, fault>>

SignalThread(c) ==
  /\ SignalThreadRuns
  /\ \/ OnSuccess(c)
     \/ OnIceCandidate(c)
     \/ ChannelOpens(c)
     \/ OnDataChannel(c)
     \/ OnMessage(c)

------------------------------------------------------------------------------
(* main().                                                                  *)

Goto(from, to) == main = from /\ main' = to /\ fault = "none"

StartThread ==
  /\ Goto("boot", "new_a")
  /\ UNCHANGED <<console, clientVars, pc, channelVars, fault>>

\* The constructor of SimpleClient; the initiator creates the channel and
\* observes it at once.
NewClient(c) ==
  /\ IF c = A THEN Goto("new_a", "new_b") ELSE Goto("new_b", "link_a")
  /\ obj' = [obj EXCEPT ![c] = "alive"]
  /\ IF c = A
     THEN /\ data_channel_' = [data_channel_ EXCEPT ![c] = TRUE]
          /\ channel' = [channel EXCEPT ![c].state = "connecting", ![c].observed = TRUE]
     ELSE UNCHANGED <<data_channel_, channel>>
  /\ UNCHANGED <<console, other_, pc, wire, greeted, shown, fault>>

SetOther(c) ==
  /\ IF c = A THEN Goto("link_a", "link_b") ELSE Goto("link_b", "start")
  /\ other_' = [other_ EXCEPT ![c] = OtherClient(c)]
  /\ UNCHANGED <<console, obj, data_channel_, pc, channelVars, fault>>

\* a->start(): a blocking call on the signaling thread.
Start ==
  /\ Goto("start", "console")
  /\ pc' = [pc EXCEPT ![A] = CreateOffer(@)]
  /\ UNCHANGED <<console, clientVars, channelVars, fault>>

ReadConsole ==
  /\ \E w \in Words :
       /\ Goto("console", IF w = "exit" THEN "exiting" ELSE "console")
       /\ console' = w
  /\ UNCHANGED <<clientVars, pc, channelVars, fault>>

\* The reference a create request still holds keeps its client alive.
Released(c) == pc[c].request = "none"

\* Variant: b is not released.
TeardownOfA ==
  /\ Goto("exiting", "stopping")
  /\ obj' = [obj EXCEPT ![A] = IF Released(A) THEN "dead" ELSE @]
  /\ pc' = [pc EXCEPT ![A] = IF Released(A) THEN Close(@) ELSE @]
  /\ UNCHANGED <<console, other_, data_channel_, channelVars, fault>>

\* a = nullptr; b = nullptr in one task of the signaling thread.  The
\* destructor of a released client closes its peer connection, which reports
\* the closed channel to the observer.
Teardown ==
  /\ Goto("exiting", "stopping")
  /\ obj' = [c \in Clients |-> IF Released(c) THEN "dead" ELSE obj[c]]
  /\ pc' = [c \in Clients |-> IF Released(c) THEN Close(pc[c]) ELSE pc[c]]
  /\ channel' = [c \in Clients |->
                   IF Released(c) THEN [channel[c] EXCEPT !.state = "closed"]
                                  ELSE channel[c]]
  /\ wire' = [c \in Clients |-> IF Released(c) THEN << >> ELSE wire[c]]
  /\ fault' = IF \E c \in Clients : Released(c) /\ channel[c].observed /\ ~data_channel_[c]
              THEN "assert" ELSE fault
  /\ UNCHANGED <<console, other_, data_channel_, greeted, shown>>

\* g_signal_thread->Stop() drops what has not been delivered.
StopThread ==
  /\ Goto("stopping", "done")
  /\ UNCHANGED <<console, clientVars, pc, channelVars, fault>>

MainProceeds ==
  \/ StartThread
  \/ \E c \in Clients : NewClient(c) \/ SetOther(c)
  \/ Start
  \/ Teardown
  \/ StopThread

------------------------------------------------------------------------------
Next == MainProceeds \/ ReadConsole \/ \E c \in Clients : SignalThread(c)

\* Threads make progress and libwebrtc calls back; the user types at will.
Fairness == WF_vars(MainProceeds) /\ \A c \in Clients : WF_vars(SignalThread(c))

Spec == Init /\ [][Next]_vars
FairSpec == Spec /\ Fairness
------------------------------------------------------------------------------
(* Properties.                                                              *)

\* Between two tasks both ends hold the same descriptions: what one side set
\* as local is exactly what the other has set as remote, so there is no
\* window in which a late candidate or a second offer meets a half-done
\* exchange (OnSuccess, received_sdp).
DescriptionsMirror ==
  fault = "none" => \A c \in Clients : pc[c].remote = pc[OtherClient(c)].local

\* Every candidate given to OnIceCandidate has been accepted by the other
\* client: none arrives before the remote description it needs, although
\* nothing in received_ice_candidate checks for that or looks at the result.
CandidatesReachPeer ==
  \A c \in Clients :
    (fault = "none" /\ obj[c] = "alive" /\ pc[c].local # "none")
      => {c} \X (Candidates \ pc[c].toReport)
           \subseteq pc[OtherClient(c)].remoteCandidates

\* No assert() of the sample fires: OnStateChange always finds data_channel_
\* set, and no create or set request fails, so OnFailure is never called.
NoHandlerAsserts == fault # "assert" /\ \A c \in Clients : ~pc[c].failed

\* A handler calls through other_ to a client that is not there only when
\* "exit" was typed before the offer was answered: the create request then
\* outlives main's reference to one client and not to the other.  It also says
\* that set_other always comes before the first callback.
DeadPeerOnlyAfterEarlyExit ==
  fault = "dead_peer" => main = "stopping" /\ pc[A].remote = "none"

\* The sample is a HelloExchange: each greeting is printed at most once, by
\* the other client, after it was sent (OnStateChange, OnMessage).
Hello == INSTANCE HelloExchange WITH said <- greeted, heard <- shown
GreetsAtMostOnce == Hello!Spec

\* Unless the user ends the program, both clients print the other's greeting,
\* whatever the order in which candidates, frames and callbacks arrive.
GreetingsShown ==
  <>(\/ console = "exit"
     \/ \A c \in Clients : shown[c] = <<OtherClient(c)>>)

\* book/Chapter1/1-1-datachannel.md: a candidate is given to webrtc when it is
\* the other end's.  OnIceCandidate adds a client's own candidates to its own
\* connection as remote ones.
RemoteCandidatesAreForeign ==
  \A c \in Clients : pc[c].remoteCandidates \subseteq CandidatesOf(OtherClient(c))
==============================================================================
