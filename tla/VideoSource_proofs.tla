------------------------- MODULE VideoSource_proofs -------------------------
(***************************************************************************)
(* Proofs about VideoSource for any set of sinks and any number of frames: *)
(* the types, the two promises about frames that come too late, and the    *)
(* bound on what the destructor waits for.  All follow from one inductive  *)
(* invariant, IInv.                                                        *)
(***************************************************************************)
EXTENDS VideoSource, FiniteSets, FiniteSetTheorems, TLAPS

\* The thread exists from the constructor on.  The first member to go takes it
\* along, since it is the one that joins it.
ThreadLife == /\ owner = "new" <=> capture = "none"
              /\ members # Members => capture = "done" /\ owner \in {"destroying", "destroyed"}
              /\ "i420_creator_" \in members => "broadcaster_" \in members

\* Frames only go round under the lock and to registered sinks, and a sink is
\* registered exactly while its user has not had it removed.
SinkLife == /\ remaining \subseteq sinks
            /\ remaining # {} => capture = "delivering"
            /\ \A s \in Sinks : s \in sinks <=> user[s] \in {"attached", "removing"}

IInv == TypeOK /\ ThreadLife /\ SinkLife

LEMMA InitIInv == Init => IInv
<1> SUFFICES ASSUME Init PROVE IInv OBVIOUS
<1>1. cnt \in 0 .. MaxCount + 2 /\ cnt <= MaxCount + 1 BY CountIsNat DEF Init
<1>2. user \in [Sinks -> {"unused", "attached", "removing", "freed"}] BY DEF Init
<1>3. TypeOK
  <2>1. owner = "new" /\ capture = "none" /\ running_ = FALSE /\ members = Members
        /\ sinks = {} /\ remaining = {}
    BY DEF Init
  <2> QED BY <1>1, <1>2, <2>1 DEF TypeOK
<1>4. ThreadLife BY DEF Init, ThreadLife, Members
<1>5. SinkLife BY DEF Init, SinkLife
<1> QED BY <1>3, <1>4, <1>5 DEF IInv

LEMMA TypeStep == IInv /\ [Next]_vars => TypeOK'
<1> SUFFICES ASSUME IInv, [Next]_vars PROVE TypeOK' OBVIOUS
<1> USE DEF IInv, TypeOK
<1>1. CASE Owner
  <2>1. CASE StartCapture
    <3>1. cnt' <= MaxCount + 1 BY <2>1 DEF StartCapture, ThreadLife
    <3> QED BY <2>1, <3>1 DEF StartCapture
  <2>2. CASE CaptureStarted \/ ReleaseSource \/ StopCapture
    BY <2>2 DEF CaptureStarted, ReleaseSource, StopCapture
  <2>3. CASE JoinCapture \/ DestroyBroadcaster
    BY <2>3 DEF JoinCapture, DestroyBroadcaster, Destroy
  <2> QED BY <1>1, <2>1, <2>2, <2>3 DEF Owner, Destruction
<1>2. CASE LoopTest
  <2>1. cnt' \in 0 .. MaxCount + 2 /\ (capture' # "done" => cnt' <= MaxCount + 1)
    BY <1>2, CountIsNat DEF LoopTest, WithinLimit, CountCap, Seen
  <2>2. capture' \in {"captured", "done"} BY <1>2 DEF LoopTest
  <2> QED BY <1>2, <2>1, <2>2 DEF LoopTest
<1>3. CASE PromiseKept \/ OnFrame \/ FrameDone BY <1>3 DEF PromiseKept, OnFrame, FrameDone
<1>4. ASSUME NEW s \in Sinks, Deliver(s) PROVE TypeOK' BY <1>4 DEF Deliver
<1>5. ASSUME NEW s \in Sinks, User(s) PROVE TypeOK'
  BY <1>5 DEF User, AddOrUpdateSink, CallRemoveSink, ReturnFromRemoveSink, RemoveSink
<1>6. CASE UNCHANGED vars BY <1>6 DEF vars
<1> QED BY <1>1, <1>2, <1>3, <1>4, <1>5, <1>6 DEF Next, Capture

LEMMA ThreadLifeStep == IInv /\ [Next]_vars => ThreadLife'
<1> SUFFICES ASSUME IInv, [Next]_vars PROVE ThreadLife' OBVIOUS
<1> USE DEF IInv, ThreadLife
<1>1. CASE Owner
  BY <1>1 DEF Owner, Destruction, StartCapture, CaptureStarted, ReleaseSource, StopCapture,
     JoinCapture, DestroyBroadcaster, Destroy, NextToGo, DeclaredAfter, Members, TypeOK
<1>2. CASE PromiseKept \/ LoopTest \/ OnFrame \/ FrameDone
  BY <1>2 DEF PromiseKept, LoopTest, OnFrame, FrameDone
<1>3. ASSUME NEW s \in Sinks, Deliver(s) PROVE ThreadLife' BY <1>3 DEF Deliver
<1>4. ASSUME NEW s \in Sinks, User(s) PROVE ThreadLife'
  BY <1>4 DEF User, AddOrUpdateSink, CallRemoveSink, ReturnFromRemoveSink
<1>5. CASE UNCHANGED vars BY <1>5 DEF vars
<1> QED BY <1>1, <1>2, <1>3, <1>4, <1>5 DEF Next, Capture

LEMMA SinkLifeStep == IInv /\ [Next]_vars => SinkLife'
<1> SUFFICES ASSUME IInv, [Next]_vars PROVE SinkLife' OBVIOUS
<1> USE DEF IInv, SinkLife
<1>1. CASE Owner
  \* The thread that is started is new: no frame is under way.
  BY <1>1 DEF Owner, Destruction, StartCapture, CaptureStarted, ReleaseSource, StopCapture,
     JoinCapture, DestroyBroadcaster, ThreadLife
<1>2. CASE PromiseKept \/ LoopTest \/ OnFrame \/ FrameDone
  BY <1>2 DEF PromiseKept, LoopTest, OnFrame, FrameDone
<1>3. ASSUME NEW s \in Sinks, Deliver(s) PROVE SinkLife' BY <1>3 DEF Deliver
<1>4. ASSUME NEW s \in Sinks, User(s) PROVE SinkLife'
  <2>1. CASE AddOrUpdateSink(s) BY <1>4, <2>1 DEF AddOrUpdateSink, TypeOK
  <2>2. CASE CallRemoveSink(s) BY <1>4, <2>2 DEF CallRemoveSink, TypeOK
  <2>3. CASE ReturnFromRemoveSink(s)
    <3>1. remaining = {} BY <2>3 DEF ReturnFromRemoveSink, RemoveSink, LockIsFree
    <3> QED BY <1>4, <2>3, <3>1 DEF ReturnFromRemoveSink, RemoveSink, TypeOK
  <2> QED BY <1>4, <2>1, <2>2, <2>3 DEF User
<1>5. CASE UNCHANGED vars BY <1>5 DEF vars
<1> QED BY <1>1, <1>2, <1>3, <1>4, <1>5 DEF Next, Capture

LEMMA Invariance == Spec => []IInv
<1>1. IInv /\ [Next]_vars => IInv' BY TypeStep, ThreadLifeStep, SinkLifeStep DEF IInv
<1> QED BY InitIInv, <1>1, PTL DEF Spec

\* TypeOK is invariant: the capture loop makes at most MaxCount + 1 frames,
\* whatever it reads from running_ (i420_creator.cpp:32).
THEOREM TypeCorrect == Spec => []TypeOK
<1>1. IInv => TypeOK BY DEF IInv
<1> QED BY <1>1, Invariance, PTL

\* A sink whose RemoveSink has returned gets no frame
\* (video-channel/main.cpp:84, 96-100).
THEOREM RemoveSinkTheorem == Spec => []NoFrameAfterRemoveSink
<1>1. IInv => NoFrameAfterRemoveSink BY DEF IInv, SinkLife, NoFrameAfterRemoveSink
<1> QED BY <1>1, Invariance, PTL

\* The capture thread finds both members it works in for as long as it is in its
\* loop (i420_creator.cpp:11-17, 32-41, video-channel/main.cpp:84, 102-104).
THEOREM MembersTheorem == Spec => []LoopMeetsLiveMembers
<1>1. IInv => LoopMeetsLiveMembers BY DEF IInv, ThreadLife, LoopMeetsLiveMembers
<1> QED BY <1>1, Invariance, PTL
-----------------------------------------------------------------------------
(* What the destructor waits for.  DestructorReturns needs fairness, which   *)
(* stays with TLC; that the thread it joins has only so many steps left, and *)
(* that none of the others adds to them, is proved here.                     *)

\* A frame costs at most the test, the capture, a step per sink and the return.
PerFrame == Cardinality(Sinks) + 4

\* Steps within the frame under way, or before the first one.
StepsOfFrame == CASE capture = "spawned" -> 2
                  [] capture = "looping" -> 1
                  [] capture = "captured" -> Cardinality(Sinks) + 3
                  [] capture = "delivering" -> Cardinality(remaining) + 2
                  [] OTHER -> 0

\* At most this many steps separate the capture thread from its end.
StepsLeft == (MaxCount + 2 - cnt) * PerFrame + StepsOfFrame

\* Each step of the thread brings it nearer to its end, and no step of another
\* thread takes it further away.
Approaches ==
  capture # "none" => /\ StepsLeft' <= StepsLeft
                      /\ Capture => StepsLeft' < StepsLeft

LEMMA Sizes ==
  ASSUME IsFiniteSet(Sinks), TypeOK
  PROVE  /\ Cardinality(Sinks) \in Nat
         /\ Cardinality(sinks) \in Nat /\ Cardinality(sinks) <= Cardinality(Sinks)
         /\ Cardinality(remaining) \in Nat
         /\ \A s \in remaining : Cardinality(remaining \ {s}) = Cardinality(remaining) - 1
<1>1. sinks \subseteq Sinks /\ remaining \subseteq Sinks BY DEF TypeOK
<1>2. IsFiniteSet(remaining) BY <1>1, FS_Subset
<1> QED BY <1>1, <1>2, FS_Subset, FS_CardinalityType, FS_RemoveElement

LEMMA StepsLeftType ==
  ASSUME IsFiniteSet(Sinks), TypeOK PROVE StepsLeft \in Nat
<1>1. PerFrame \in Nat /\ StepsOfFrame \in Nat BY Sizes DEF PerFrame, StepsOfFrame
<1>2. MaxCount + 2 - cnt \in Nat BY CountIsNat DEF TypeOK
<1> QED BY <1>1, <1>2 DEF StepsLeft

LEMMA ApproachStep ==
  ASSUME IsFiniteSet(Sinks), IInv, [Next]_vars, capture # "none"
  PROVE  Approaches
<1> DEFINE C == Cardinality(Sinks)
           R == Cardinality(remaining)
           F == MaxCount + 2 - cnt
<1>t. TypeOK /\ ThreadLife BY DEF IInv
<1>1. C \in Nat /\ R \in Nat /\ F \in Int BY <1>t, Sizes, CountIsNat DEF TypeOK
<1>2. PerFrame = C + 4 /\ PerFrame' = C + 4 BY DEF PerFrame
<1>3. F * (C + 4) \in Int /\ (F - 1) * (C + 4) = F * (C + 4) - (C + 4) BY <1>1
<1>4. StepsLeft = F * (C + 4) + StepsOfFrame BY <1>2 DEF StepsLeft
<1>5. ASSUME UNCHANGED cnt PROVE StepsLeft' = F * (C + 4) + StepsOfFrame'
  BY <1>2, <1>5 DEF StepsLeft
<1>6. ASSUME UNCHANGED <<capture, cnt, remaining>> PROVE StepsLeft' = StepsLeft
  BY <1>6 DEF StepsLeft, StepsOfFrame, PerFrame
<1> HIDE DEF C, F
<1>7. CASE PromiseKept
  <2>1. StepsOfFrame = 2 /\ StepsOfFrame' = 1 /\ UNCHANGED cnt
    BY <1>7 DEF PromiseKept, StepsOfFrame
  <2> QED BY <2>1, <1>3, <1>4, <1>5 DEF Approaches
<1>8. CASE LoopTest
  <2>1. StepsOfFrame = 1 BY <1>8 DEF LoopTest, StepsOfFrame
  <2>2. CASE capture' = "done"
    <3>1. StepsOfFrame' = 0 BY <2>2 DEF StepsOfFrame
    <3>2. CASE UNCHANGED cnt BY <2>1, <3>1, <3>2, <1>3, <1>4, <1>5 DEF Approaches
    <3>3. CASE cnt' = cnt + 1
      <4>1. MaxCount + 2 - cnt' = F - 1 BY <3>3, <1>t, CountIsNat DEF F, TypeOK
      <4>2. StepsLeft' = (F - 1) * (C + 4) + StepsOfFrame' BY <4>1, <1>2 DEF StepsLeft
      <4> QED BY <2>1, <3>1, <4>2, <1>1, <1>3, <1>4 DEF Approaches
    <3> QED BY <1>8, <3>2, <3>3 DEF LoopTest
  <2>3. CASE capture' = "captured"
    <3>1. cnt' = cnt + 1
      BY <1>8, <2>3, <1>t, CountIsNat DEF LoopTest, WithinLimit, CountCap, TypeOK
    <3>2. MaxCount + 2 - cnt' = F - 1 BY <3>1, <1>t, CountIsNat DEF F, TypeOK
    <3>3. StepsLeft' = (F - 1) * (C + 4) + StepsOfFrame' BY <3>2, <1>2 DEF StepsLeft
    <3>4. StepsOfFrame' = C + 3 BY <2>3 DEF StepsOfFrame, C
    <3> QED BY <2>1, <3>3, <3>4, <1>1, <1>3, <1>4 DEF Approaches
  <2> QED BY <1>8, <2>2, <2>3 DEF LoopTest
<1>9. CASE OnFrame
  <2>1. StepsOfFrame = C + 3 /\ StepsOfFrame' = Cardinality(sinks) + 2 /\ UNCHANGED cnt
    BY <1>9 DEF OnFrame, StepsOfFrame, C
  <2>2. Cardinality(sinks) \in Nat /\ Cardinality(sinks) <= C BY <1>t, Sizes DEF C
  <2> QED BY <2>1, <2>2, <1>1, <1>3, <1>4, <1>5 DEF Approaches
<1>10. ASSUME NEW s \in Sinks, Deliver(s) PROVE Approaches
  <2>1. StepsOfFrame = R + 2 /\ StepsOfFrame' = Cardinality(remaining \ {s}) + 2 /\ UNCHANGED cnt
    BY <1>10 DEF Deliver, StepsOfFrame
  <2>2. Cardinality(remaining \ {s}) = R - 1 BY <1>10, <1>t, Sizes DEF Deliver
  <2> HIDE DEF R
  <2> QED BY <2>1, <2>2, <1>1, <1>3, <1>4, <1>5 DEF Approaches
<1>11. CASE FrameDone
  <2>1. StepsOfFrame = R + 2 /\ StepsOfFrame' = 1 /\ UNCHANGED cnt
    BY <1>11 DEF FrameDone, StepsOfFrame
  <2> HIDE DEF R
  <2> QED BY <2>1, <1>1, <1>3, <1>4, <1>5 DEF Approaches
<1>12. CASE ~Capture
  <2>1. UNCHANGED <<capture, cnt, remaining>>
    \* The constructor's thread is the only one that changes it, from "none".
    BY <1>12, <1>t DEF Next, Owner, Destruction, StartCapture, CaptureStarted, ReleaseSource,
       StopCapture, JoinCapture, DestroyBroadcaster, User, AddOrUpdateSink, CallRemoveSink, ReturnFromRemoveSink, vars, ThreadLife
  <2>2. StepsLeft \in Int BY <1>t, StepsLeftType
  <2> QED BY <1>12, <2>1, <2>2, <1>6 DEF Approaches
<1> QED BY <1>7, <1>8, <1>9, <1>10, <1>11, <1>12 DEF Capture

\* Whatever it reads from running_ and whatever the others do, the thread the
\* destructor joins has a bounded number of steps left (i420_creator.cpp:11-17,
\* 30-45): that is what makes DestructorReturns a matter of scheduling alone.
THEOREM JoinTheorem ==
  ASSUME IsFiniteSet(Sinks)
  PROVE  Spec => [](StepsLeft \in Nat) /\ [][Approaches]_vars
<1>1. IInv => StepsLeft \in Nat BY StepsLeftType DEF IInv
<1>2. ASSUME IInv, [Next]_vars PROVE [Approaches]_vars
  BY <1>2, ApproachStep DEF Approaches
<1> QED BY <1>1, <1>2, Invariance, PTL DEF Spec
=============================================================================
