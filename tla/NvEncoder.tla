----------------------------- MODULE NvEncoder -----------------------------
(***************************************************************************)
(* The ring of device frames of NvEncoder / NvEncoderCuda, which both      *)
(* nvenc_encode and the file tests of c_encoder_nv_impl.cpp drive: one     *)
(* session from CreateEncoder to DestroyEncoder, with every call into CUDA *)
(* and NVENC allowed to fail.                                              *)
(*                                                                         *)
(* m_iToSend counts the pictures handed to the driver, m_iGot those whose  *)
(* packet was fetched; both index the ring modulo its size.  The ring must *)
(* be large enough that a picture the driver still holds back is neither   *)
(* overwritten nor waited for.                                             *)
(*                                                                         *)
(* NVENC itself is external: it keeps the last few pictures it was given   *)
(* unfinished, finishes the rest, and reads a picture's device frame when  *)
(* it finishes it.  Pictures are finished in the order they were given,    *)
(* which holds without B frames; this code never asks for any.  Motion     *)
(* estimation and output in video memory are never switched on either and  *)
(* are left out, as is Windows.                                            *)
(***************************************************************************)
EXTENDS Integers, Sequences

CONSTANTS LookaheadDepth,    \* pictures rate control looks ahead: the preset's
          ExtraOutputDelay,  \* m_nExtraOutputDelay, 3 unless the caller says
          FlushEachFrame,    \* TRUE: nvenc_encode, which calls EndEncode after
                             \*   each picture; FALSE: the file tests, at the end
          MaxFrames,         \* bound: pictures a session encodes
          MaxFailures        \* bound: driver calls that fail in a session

ASSUME EncoderConfig == LookaheadDepth \in Nat /\ ExtraOutputDelay \in Nat
ASSUME ClientConfig == /\ FlushEachFrame \in BOOLEAN
                       /\ MaxFrames \in Nat
                       /\ MaxFailures \in Nat

\* Every caller asks for no B frames, whatever the preset says.
FrameIntervalP == 1

m_nEncoderBuffer == FrameIntervalP + LookaheadDepth + ExtraOutputDelay
m_nOutputDelay == m_nEncoderBuffer - 1

\* EndEncode clears vPacket, so with nvenc_encode EncodeFrame must not have
\* fetched anything yet: the delay of 3 sees to that.
ASSUME DelayConfig == FlushEachFrame => m_nOutputDelay >= 1

Slots == 0 .. m_nEncoderBuffer - 1
Slot(i) == i % m_nEncoderBuffer

\* Pictures the driver may hold back: the lookahead window.
HeldBack == LookaheadDepth

NoFrame == 0
Frames == 1 .. MaxFrames

VARIABLES
  pc,                     \* where the session stands
  call,                   \* the call of NvEncoder in progress, or the last one
  made,                   \* pictures the caller has produced
  m_iToSend, m_iGot,      \* the two ends of the queue
  m_vInputFrames,         \* how many device frames the encoder knows
  m_vMappedInputBuffers,  \* the slots with a mapping on record
  allocated,              \* device frames that exist
  mappings,               \* CUDA/NVENC: live mappings of a slot's frame
  input, output,          \* the picture in a slot's device frame and bitstream
  encoded,                \* driver: pictures it has finished
  vPacket, taken,         \* packets fetched, and handed to the caller's output
  sent,                   \* history: the pictures the driver accepted
  failures,               \* history: driver calls that have failed
  damage                  \* history: "refused", a picture was refused by
                          \*   DoEncode; "slipped", EncodeFrame failed to fetch;
                          \*   "unreleased", the last calls released not all

ring     == <<m_iToSend, m_iGot, m_vMappedInputBuffers, mappings>>
pictures == <<made, input, output, encoded, sent>>
memory   == <<m_vInputFrames, allocated>>
vars == <<pc, call, ring, pictures, memory, vPacket, taken, failures, damage>>

Init == /\ pc = "new" /\ call = "CreateEncoder"
        /\ made = 0 /\ m_iToSend = 0 /\ m_iGot = 0 /\ encoded = 0
        /\ m_vInputFrames = 0 /\ allocated = 0
        /\ m_vMappedInputBuffers = {}
        /\ mappings = [s \in Slots |-> 0]
        /\ input = [s \in Slots |-> NoFrame]
        /\ output = [s \in Slots |-> NoFrame]
        /\ vPacket = <<>> /\ taken = <<>> /\ sent = <<>>
        /\ failures = 0 /\ damage = {}

-----------------------------------------------------------------------------
(* Errors.  NVENC_API_CALL and CUDA_DRVAPI_CALL throw.  A file test leaves *)
(* its encoder behind; the caller of nvenc_encode may go on with the next  *)
(* picture; FlushEncoder swallows everything.  The vector of packets was   *)
(* a local of the caller and dies with it.                                 *)

AfterThrow(c) == IF c = "FlushEncoder" THEN "flushed"
                 ELSE IF ~FlushEachFrame THEN "abandoned"
                 ELSE IF c = "CreateEncoder" THEN "half_made" ELSE "ready"

Throw(c) == /\ failures < MaxFailures
            /\ failures' = failures + 1
            /\ call' = c
            /\ pc' = AfterThrow(c)
            /\ vPacket' = <<>>

-----------------------------------------------------------------------------
(* CreateEncoder: the session, then all device frames, then their          *)
(* registration.  A frame is on record (m_vInputFrames) once registered.   *)

InitializeEncoder ==
  /\ pc = "new"
  /\ \/ pc' = "allocating" /\ UNCHANGED <<call, vPacket, failures>>
     \/ Throw("CreateEncoder")
  /\ UNCHANGED <<ring, pictures, memory, taken, damage>>

AllocateInputBuffers ==
  /\ pc = "allocating"
  /\ \/ /\ allocated' = allocated + 1
        /\ pc' = IF allocated' = m_nEncoderBuffer THEN "registering" ELSE pc
        /\ UNCHANGED <<call, vPacket, failures>>
     \/ Throw("CreateEncoder") /\ UNCHANGED allocated
  /\ UNCHANGED <<ring, pictures, m_vInputFrames, taken, damage>>

RegisterInputResources ==
  /\ pc = "registering"
  /\ \/ /\ m_vInputFrames' = m_vInputFrames + 1
        /\ pc' = IF m_vInputFrames' = m_nEncoderBuffer THEN "ready" ELSE pc
        /\ UNCHANGED <<call, vPacket, failures>>
     \/ Throw("CreateEncoder") /\ UNCHANGED m_vInputFrames
  /\ UNCHANGED <<ring, pictures, allocated, taken, damage>>

-----------------------------------------------------------------------------
(* EncodeFrame. *)

\* (First: the frame of the oldest picture in the ring.)
OldestInputFrame == Slot(m_iGot)
GetNextInputFrame == Slot(m_iToSend)

\* The caller copies its next picture to the frame GetNextInputFrame names; a
\* copy that fails leaves no picture there.
CopyToDeviceFrame ==
  /\ pc = "ready" /\ made < MaxFrames
  /\ made' = made + 1
  /\ \/ /\ input' = [input EXCEPT ![GetNextInputFrame] = made + 1]
        /\ pc' = "copied" /\ call' = "EncodeFrame" /\ vPacket' = <<>>
        /\ UNCHANGED failures
     \/ Throw("EncodeFrame") /\ input' = [input EXCEPT ![GetNextInputFrame] = NoFrame]
  /\ UNCHANGED <<ring, output, encoded, sent, memory, taken, damage>>

MapResources ==
  /\ pc = "copied"
  /\ \/ /\ mappings' = [mappings EXCEPT ![GetNextInputFrame] = @ + 1]
        /\ m_vMappedInputBuffers' = m_vMappedInputBuffers \union {GetNextInputFrame}
        /\ pc' = "mapped" /\ UNCHANGED <<call, vPacket, failures>>
     \/ Throw("EncodeFrame") /\ UNCHANGED <<mappings, m_vMappedInputBuffers>>
  /\ UNCHANGED <<m_iToSend, m_iGot, pictures, memory, taken, damage>>

\* The driver finishes pictures number encoded .. n-1 (counted from 0).
Finish(n) ==
  /\ encoded' = n
  /\ output' = [s \in Slots |-> IF \E k \in encoded .. n - 1 : Slot(k) = s
                                THEN input[s] ELSE output[s]]

DoEncode ==
  /\ pc = "mapped"
  /\ \/ /\ m_iToSend' = m_iToSend + 1
        /\ sent' = Append(sent, input[GetNextInputFrame])
        /\ \E n \in encoded .. m_iToSend + 1 :
             m_iToSend + 1 - n <= HeldBack /\ Finish(n)
        /\ pc' = "fetching" /\ UNCHANGED <<call, vPacket, failures, damage>>
     \/ /\ Throw("EncodeFrame")
        /\ damage' = damage \union {"refused"}
        /\ UNCHANGED <<m_iToSend, sent, encoded, output>>
  /\ UNCHANGED <<m_iGot, m_vMappedInputBuffers, mappings, made, input, memory, taken>>

-----------------------------------------------------------------------------
(* GetEncodedPacket, the loop EncodeFrame and EndEncode share. *)

\* Where the loop ends.  (First three ways to get it wrong: the delay one
\* picture too long, no delay in EncodeFrame, the delay in EndEncode as well.)
DelayTooLong ==
  IF call = "EncodeFrame" THEN m_iToSend - m_nOutputDelay - 1 ELSE m_iToSend
NoDelay == m_iToSend
AlwaysDelayed == m_iToSend - m_nOutputDelay

FetchEnd == IF call = "EncodeFrame" THEN m_iToSend - m_nOutputDelay ELSE m_iToSend

\* nvEncUnmapInputResource for those of the slots S with a mapping on record.
\* (First: the record cleared without the call.)
RecordOnly(S) == mappings
Unmap(S) == [s \in Slots |-> IF s \in S \intersect m_vMappedInputBuffers
                             THEN mappings[s] - 1 ELSE mappings[s]]

\* m_vMappedInputBuffers[s] = nullptr.  (First: the reset forgotten.)
NotReset(s) == m_vMappedInputBuffers
Reset(s) == m_vMappedInputBuffers \ {s}

FetchPacket ==
  /\ pc = "fetching" /\ m_iGot < FetchEnd
  /\ \/ LET s == Slot(m_iGot) IN
        /\ vPacket' = Append(vPacket, output[s])
        /\ mappings' = Unmap({s})
        /\ m_vMappedInputBuffers' = Reset(s)
        /\ m_iGot' = m_iGot + 1
        /\ UNCHANGED <<pc, call, failures, damage>>
     \/ /\ Throw(call)
        /\ damage' = damage \union (IF call = "EncodeFrame" THEN {"slipped"} ELSE {})
        /\ UNCHANGED <<mappings, m_vMappedInputBuffers, m_iGot>>
  /\ UNCHANGED <<m_iToSend, pictures, memory, taken>>

AllFetched ==
  /\ pc = "fetching" /\ m_iGot >= FetchEnd
  /\ pc' = IF call = "FlushEncoder" THEN "flushed"
           ELSE IF call = "EncodeFrame" /\ FlushEachFrame THEN "submitted"
           ELSE "returned"
  /\ UNCHANGED <<call, ring, pictures, memory, vPacket, taken, failures, damage>>

\* vPacket.clear() and the end-of-stream picture, which makes the driver
\* finish what it held back.
SendEOS(c) ==
  /\ \/ /\ Finish(m_iToSend)
        /\ pc' = "fetching" /\ call' = c /\ vPacket' = <<>>
        /\ UNCHANGED failures
     \/ Throw(c) /\ UNCHANGED <<encoded, output>>
  /\ UNCHANGED <<ring, made, input, sent, memory, taken, damage>>

\* nvenc_encode flushes after each picture, a file test when its file ends.
EndEncode == /\ pc = IF FlushEachFrame THEN "submitted" ELSE "ready"
             /\ SendEOS("EndEncode")

-----------------------------------------------------------------------------
(* The caller's loop over vPacket. *)

TakePacket ==
  /\ pc = "returned" /\ vPacket # <<>>
  /\ taken' = Append(taken, Head(vPacket)) /\ vPacket' = Tail(vPacket)
  /\ UNCHANGED <<pc, call, ring, pictures, memory, failures, damage>>

AllTaken ==
  /\ pc = "returned" /\ vPacket = <<>>
  /\ pc' = IF call = "EndEncode" /\ ~FlushEachFrame THEN "ended" ELSE "ready"
  /\ UNCHANGED <<call, ring, pictures, memory, vPacket, taken, failures, damage>>

-----------------------------------------------------------------------------
(* DestroyEncoder: FlushEncoder, then everything on record is unmapped,    *)
(* unregistered and freed.  (FlushEncoder on a session that was never      *)
(* initialised throws at once, which changes nothing either.)              *)

DestroyEncoder ==
  /\ pc \in {"half_made", "ended"} \/ (pc = "ready" /\ FlushEachFrame)
  /\ SendEOS("FlushEncoder")

\* The results of these calls are not looked at: what the driver keeps is lost.
ReleaseInputBuffers ==
  /\ pc = "flushed" /\ pc' = "destroyed"
  /\ \E kept \in SUBSET m_vMappedInputBuffers, lost \in 0 .. m_vInputFrames :
       /\ mappings' = Unmap(Slots \ kept)
       /\ allocated' = allocated - m_vInputFrames + lost
       /\ IF kept = {} /\ lost = 0 THEN UNCHANGED <<failures, damage>>
          ELSE /\ failures < MaxFailures /\ failures' = failures + 1
               /\ damage' = damage \union {"unreleased"}
  /\ m_vMappedInputBuffers' = {} /\ m_vInputFrames' = 0
  /\ UNCHANGED <<call, m_iToSend, m_iGot, pictures, vPacket, taken>>

-----------------------------------------------------------------------------
Next == \/ InitializeEncoder \/ AllocateInputBuffers \/ RegisterInputResources
        \/ CopyToDeviceFrame \/ MapResources \/ DoEncode
        \/ FetchPacket \/ AllFetched \/ EndEncode
        \/ TakePacket \/ AllTaken
        \/ DestroyEncoder \/ ReleaseInputBuffers

Spec == Init /\ [][Next]_vars

-----------------------------------------------------------------------------
(* Properties. *)

PCs == {"new", "allocating", "registering", "half_made", "ready", "copied",
        "mapped", "fetching", "submitted", "returned", "ended", "abandoned",
        "flushed", "destroyed"}
Calls == {"CreateEncoder", "EncodeFrame", "EndEncode", "FlushEncoder"}

\* Every variable keeps its type; m_iGot never overtakes m_iToSend and no
\* mapping is given back twice.
TypeOK ==
  /\ pc \in PCs /\ call \in Calls
  /\ made \in 0 .. MaxFrames /\ failures \in 0 .. MaxFailures
  /\ m_iToSend \in 0 .. MaxFrames /\ m_iGot \in 0 .. m_iToSend
  /\ encoded \in 0 .. m_iToSend
  /\ m_vInputFrames \in 0 .. m_nEncoderBuffer
  /\ allocated \in 0 .. m_nEncoderBuffer
  /\ m_vMappedInputBuffers \subseteq Slots
  /\ mappings \in [Slots -> Nat]
  /\ input \in [Slots -> Frames \union {NoFrame}]
  /\ output \in [Slots -> Frames \union {NoFrame}]
  /\ vPacket \in Seq(Frames \union {NoFrame})
  /\ taken \in Seq(Frames \union {NoFrame})
  /\ sent \in Seq(Frames \union {NoFrame})
  /\ damage \subseteq {"refused", "slipped", "unreleased"}

\* Between two calls at most m_nOutputDelay pictures are in the ring, so that
\* the frame GetNextInputFrame returns belongs to none of them
\* (NvEncoder.cpp:332,472); a fetch that failed inside EncodeFrame is the only
\* thing that can break it.
RoomForNextFrame ==
  pc \in {"ready", "copied", "mapped"} /\ "slipped" \notin damage =>
    m_iToSend - m_iGot <= m_nOutputDelay

\* No picture in the ring is overwritten before it is fetched: the bitstream
\* of a finished one and the device frame of an unfinished one still hold what
\* the caller submitted (NvEncoder.cpp:328-379, 469-504).
QueuedFramesIntact ==
  "slipped" \notin damage =>
    /\ \A k \in m_iGot .. encoded - 1 : output[Slot(k)] = sent[k + 1]
    /\ \A k \in encoded .. m_iToSend - 1 : input[Slot(k)] = sent[k + 1]

\* nvEncLockBitstream (doNotWait = false) is only called for a picture the
\* driver has finished: otherwise it would wait for pictures that only the
\* waiting thread can submit (NvEncoder.cpp:475-479).
NeverWaitsForUnfinished ==
  pc = "fetching" /\ m_iGot < FetchEnd => m_iGot < encoded

\* As long as no call failed, every picture comes back, once and in order: with
\* nvenc_encode by the end of the very call that submitted it
\* (c_encoder_nv_impl.cpp:274-287), in a file test by the end of its EndEncode.
EveryFrameReturned ==
  failures = 0 /\ pc = (IF FlushEachFrame THEN "ready" ELSE "ended") =>
    taken = [i \in 1 .. made |-> i]

\* DestroyEncoder unmaps every input frame before it frees it, also after
\* failed calls (the comment at NvEncoder.cpp:580-581), except when DoEncode
\* refused a picture or EncodeFrame failed to fetch one: then a slot can be
\* mapped twice while one mapping is on record.  (The driver may also refuse the
\* unmapping itself, whose result nothing looks at.)
MappingsReleased ==
  pc = "destroyed" /\ damage = {} => \A s \in Slots : mappings[s] = 0

\* NvEncoder implements the queue of pictures its callers expect.
Queue == INSTANCE EncoderQueue
           WITH accepted <- sent, delivered <- taken, lossy <- failures > 0
ExactlyOnceInOrder == Queue!Spec

\* nvEncodeAPI.h:3136, "The client should not access any input buffer while
\* they are mapped by the encoder.": the frame the caller has just copied its
\* picture to is not mapped.
CopiesToUnmapped == pc = "copied" => mappings[GetNextInputFrame] = 0

\* NvEncoder.h:97-98, DestroyEncoder is called "to destroy the encoder session
\* and clean up any allocated resources": no device frame outlives it that the
\* driver would free.
DestroyFreesFrames == pc = "destroyed" /\ "unreleased" \notin damage => allocated = 0
=============================================================================
