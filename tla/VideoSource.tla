---------------------------- MODULE VideoSource ----------------------------
(***************************************************************************)
(* The camera stand-in of the video sample: VideoSourceMock with the       *)
(* capture thread of its I420Creator, from the constructor that starts the *)
(* thread to the destructor that joins it.  Two more threads touch it:     *)
(* the owner, which constructs and destroys it, and the users, which       *)
(* register and remove sinks (libwebrtc, for the track that is sent).      *)
(*                                                                         *)
(* rtc::VideoBroadcaster is external: one lock is held while a frame goes  *)
(* round the sinks and while a sink is added or removed.                   *)
(*                                                                         *)
(* I420Creator::running_ is a plain bool which the capture thread reads    *)
(* while the owner writes it, a data race: after the write the reader may  *)
(* see either value.                                                       *)
(***************************************************************************)
EXTENDS Naturals

CONSTANTS Sinks,       \* the rtc::VideoSinkInterfaces that will be used
          MaxCount     \* the capture loop ends after MaxCount + 1 frames (100)

ASSUME CountIsNat == MaxCount \in Nat

VARIABLES owner,       \* the owner: where it is between constructor and destructor
          capture,     \* the capture thread
          cnt,         \* its local counter of frames
          running_,    \* I420Creator::running_
          members,     \* the members of VideoSourceMock not yet destroyed
          sinks,       \* the sinks registered with it
          remaining,   \* sinks the frame under way must still reach
          user         \* per sink: "unused", "attached", "removing", "freed"

vars == <<owner, capture, cnt, running_, members, sinks, remaining, user>>

\* The members the capture thread works in: it runs inside of i420_creator_ and
\* its observer hands the frame to broadcaster_.
Members == {"broadcaster_", "i420_creator_"}

Init == /\ owner = "new" /\ capture = "none" /\ cnt = 0 /\ running_ = FALSE
        /\ members = Members /\ sinks = {} /\ remaining = {}
        /\ user = [s \in Sinks |-> "unused"]

\* The lock of the broadcaster is held only while a frame is handed round.
LockIsFree == capture # "delivering"

-----------------------------------------------------------------------------
(* The owner. *)

\* VideoSourceMock(): run() starts the thread and waits until it runs.
StartCapture == /\ owner = "new" /\ owner' = "starting"
                /\ running_' = TRUE /\ capture' = "spawned"
                /\ UNCHANGED <<cnt, members, sinks, remaining, user>>

CaptureStarted == /\ owner = "starting" /\ capture # "spawned"
                  /\ owner' = "built"
                  /\ UNCHANGED <<capture, cnt, running_, members, sinks, remaining, user>>

\* The last reference to the track is dropped, which it cannot be while a sink
\* is attached.
ReleaseSource == /\ owner = "built" /\ sinks = {}
                 /\ \A s \in Sinks : user[s] \notin {"attached", "removing"}
                 /\ owner' = "destroying"
                 /\ UNCHANGED <<capture, cnt, running_, members, sinks, remaining, user>>

\* Members are destroyed in the reverse of their declaration.  (First: i420_creator_
\* declared before broadcaster_.)
Swapped(m) == IF m = "i420_creator_" THEN {"broadcaster_"} ELSE {}
DeclaredAfter(m) == IF m = "broadcaster_" THEN {"i420_creator_"} ELSE {}
NextToGo(m) == m \in members /\ members \intersect DeclaredAfter(m) = {}

Destroy(m) == /\ members' = members \ {m}
              /\ owner' = IF members' = {} THEN "destroyed" ELSE "destroying"

\* ~I420Creator tells the thread to stop and joins it.
StopCapture == /\ owner = "destroying" /\ NextToGo("i420_creator_")
               /\ owner' = "joining" /\ running_' = FALSE
               /\ UNCHANGED <<capture, cnt, members, sinks, remaining, user>>

JoinCapture == /\ owner = "joining" /\ capture = "done" /\ Destroy("i420_creator_")
               /\ UNCHANGED <<capture, cnt, running_, sinks, remaining, user>>

DestroyBroadcaster == /\ owner = "destroying" /\ NextToGo("broadcaster_") /\ Destroy("broadcaster_")
                      /\ UNCHANGED <<capture, cnt, running_, sinks, remaining, user>>

-----------------------------------------------------------------------------
(* The capture thread. *)

PromiseKept == /\ capture = "spawned" /\ capture' = "looping"
               /\ UNCHANGED <<owner, cnt, running_, members, sinks, remaining, user>>

\* What the read of running_ may return: the race lets it miss the write.
Seen == {running_, TRUE}

\* while (running_ && cnt++ <= 100), then a frame is made.  The test that fails
\* counts as well, unless running_ ended it.  (First: the loop without its limit,
\* and with a limit one frame too far.)
Unlimited(c) == TRUE
OneTooMany(c) == c <= MaxCount + 1
WithinLimit(c) == c <= MaxCount

\* Bound of cnt, beyond what the loop reaches.
CountCap == MaxCount + 3

LoopTest == /\ capture = "looping"
            /\ \E seen \in Seen :
                 /\ capture' = IF seen /\ WithinLimit(cnt) THEN "captured" ELSE "done"
                 /\ cnt' = IF seen /\ cnt < CountCap THEN cnt + 1 ELSE cnt
            /\ UNCHANGED <<owner, running_, members, sinks, remaining, user>>

\* on_frame hands the frame to the broadcaster, which takes its lock.
OnFrame == /\ capture = "captured"
           /\ capture' = "delivering" /\ remaining' = sinks
           /\ UNCHANGED <<owner, cnt, running_, members, sinks, user>>

Deliver(s) == /\ capture = "delivering" /\ s \in remaining
              /\ remaining' = remaining \ {s}
              /\ UNCHANGED <<owner, capture, cnt, running_, members, sinks, user>>

FrameDone == /\ capture = "delivering" /\ remaining = {}
             /\ capture' = "looping"
             /\ UNCHANGED <<owner, cnt, running_, members, sinks, remaining, user>>

-----------------------------------------------------------------------------
(* The users of the source. *)

AddOrUpdateSink(s) == /\ owner = "built" /\ user[s] = "unused" /\ LockIsFree
                      /\ sinks' = sinks \union {s}
                      /\ user' = [user EXCEPT ![s] = "attached"]
                      /\ UNCHANGED <<owner, capture, cnt, running_, members, remaining>>

CallRemoveSink(s) == /\ user[s] = "attached"
                     /\ user' = [user EXCEPT ![s] = "removing"]
                     /\ UNCHANGED <<owner, capture, cnt, running_, members, sinks, remaining>>

\* RemoveSink forwards to the broadcaster, and the caller frees the sink when it
\* returns.  (First: it forwards nothing.)
NotForwarded(s) == LockIsFree /\ UNCHANGED sinks
RemoveSink(s) == LockIsFree /\ sinks' = sinks \ {s}

ReturnFromRemoveSink(s) ==
  /\ user[s] = "removing" /\ RemoveSink(s)
  /\ user' = [user EXCEPT ![s] = "freed"]
  /\ UNCHANGED <<owner, capture, cnt, running_, members, remaining>>

-----------------------------------------------------------------------------
Destruction == StopCapture \/ JoinCapture \/ DestroyBroadcaster
Owner == StartCapture \/ CaptureStarted \/ ReleaseSource \/ Destruction
Capture == PromiseKept \/ LoopTest \/ OnFrame \/ (\E s \in Sinks : Deliver(s)) \/ FrameDone
User(s) == AddOrUpdateSink(s) \/ CallRemoveSink(s) \/ ReturnFromRemoveSink(s)

Next == Owner \/ Capture \/ \E s \in Sinks : User(s)

Spec == Init /\ [][Next]_vars

\* Threads that can run do run.  Nothing obliges the owner to destroy the
\* source or a user to attach or remove a sink.
Fairness == /\ WF_vars(Capture) /\ WF_vars(CaptureStarted) /\ WF_vars(Destruction)
            /\ \A s \in Sinks : WF_vars(ReturnFromRemoveSink(s))

FairSpec == Spec /\ Fairness

-----------------------------------------------------------------------------
(* Properties. *)

\* Every variable keeps its type; the loop never counts past its limit.
TypeOK == /\ owner \in {"new", "starting", "built", "destroying", "joining", "destroyed"}
          /\ capture \in {"none", "spawned", "looping", "captured", "delivering", "done"}
          /\ cnt \in 0 .. MaxCount + 2 /\ (capture # "done" => cnt <= MaxCount + 1)
          /\ running_ \in BOOLEAN
          /\ members \subseteq Members
          /\ sinks \subseteq Sinks /\ remaining \subseteq Sinks
          /\ user \in [Sinks -> {"unused", "attached", "removing", "freed"}]

\* What RemoveSink must guarantee (book/Chapter1/1-2-videostream.md:59-60): a
\* sink whose removal has returned gets no frame, neither the one under way nor
\* a later one (video-channel/main.cpp:84, 96-100).
NoFrameAfterRemoveSink ==
  \A s \in Sinks : user[s] = "freed" => s \notin remaining \union sinks

\* While the capture thread is in its loop, makes a frame or hands it round, it
\* meets the i420_creator_ it runs in and the broadcaster_ its observer calls,
\* whenever the owner lets go and whatever the thread reads from running_: that
\* rests on the order in which two members are declared and on the join
\* (i420_creator.cpp:11-17, 32-41, video-channel/main.cpp:84, 102-104).
LoopMeetsLiveMembers ==
  capture \in {"looping", "captured", "delivering"} => members = Members

\* The destructor returns: although the thread may never see running_ change, the
\* limit of the loop ends it (i420_creator.cpp:11-17, 32).
DestructorReturns == owner \in {"destroying", "joining"} ~> owner = "destroyed"
=============================================================================
