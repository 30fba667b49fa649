# webrtc-native-samples in TLA+

The repository is a set of small native programs around libwebrtc: a data channel sample, an audio
sample, a video sample, and a "private codec", an NVENC encoder behind a table of C functions, with
a book that explains them. This directory holds TLA+ models of the programs, TLC configurations that
check them on small instances, and TLAPS proofs for every value of the constants.

Paths below are relative to the repository; `NvCodec/` stands for
`third_party/Video_Codec_SDK_9.1.23/Samples/NvCodec/NvEncoder/`.

## 1. Inventory

| component | code | state | operations | talks to |
|---|---|---|---|---|
| datachannel sample | `src/datachannel/main.cpp` | per `SimpleClient`: `initiative_`, `data_channel_`, `peer_connection_`, raw pointer `other_`; in `main()`: two references and the last word typed | `start`, `received_sdp`, `received_ice_candidate`, `OnSuccess`, `OnIceCandidate`, `OnDataChannel`, `OnStateChange`, `OnMessage`; create, link, start, read, tear down | libwebrtc, which calls back on the signaling thread; the other client, by direct call |
| audio sample | `src/audio-channel/main.cpp` | the same without channel, with an `audio_receiver_` | the same, binding the connections after `AddTrack`, `OnAddTrack` | libwebrtc |
| video sample | `src/video-channel/main.cpp` | the same with a `VideoStreamReceiver` and a track | the same, `OnAddTrack`, `OnFrame` | libwebrtc, the video source |
| video capture source | `src/video-channel/i420_creator.*`, `VideoSourceMock` in `main.cpp` | `running_`, `thread_`, the loop counter, the broadcaster and its sinks | constructor (`run`), destructor (join), the loop, `on_frame`, `AddOrUpdateSink`, `RemoveSink` | its own thread, the owner, the users of the track |
| NvEncoder | `NvCodec/NvEncoder.*`, `NvEncoderCuda.*` | ring of device frames and bitstreams, `m_iToSend`, `m_iGot`, `m_vMappedInputBuffers`, `m_vInputFrames` | `CreateEncoder`, `GetNextInputFrame`, `EncodeFrame`, `EndEncode`, `DestroyEncoder`, `Reconfigure`, `GetSequenceParams` | the NVENC and CUDA drivers |
| C table of the codec | `src/private_codec/c_encoder_nv_impl.cpp` | `nvenc_data`: a mutex, the encoder, the last configuration | create, init, destroy, encode, bitrate, frame rate, IDR, frame size, sequence parameters, file tests | NvEncoder; callers on any thread |
| pictures of the video sample | `i420_creator.cpp`, `on_frame`, `SaveVideoFrameToFile` | the planes of one picture | convert, scale, copy, save | libyuv, libwebrtc |
| test program | `src/private_codec/test_nv_encoder.cpp`, the `nvenc_test*` functions of the C table | CUDA's stack of contexts, what is allocated, the output files | the self test of the table, then `test_nvenc` | the C table, NvEncoder, CUDA |
| virtual network | `src/common/virtual_network.h` | none | none | nobody |
| book | `book/` | prose | - | - |
| rest of the Video Codec SDK | `third_party/` | - | - | not compiled by any program here |

### What is hard, and what correct means

* **Datachannel sample.** The two clients live in one process and call each other from callbacks.
  Nothing checks the result of `AddIceCandidate`, no state is checked before a description is set,
  every failure is an `assert(false)`, `other_` is never reset, and the user may type `exit` in any
  state. Correct: descriptions on both sides always mirror; each candidate is accepted by the other
  client; no assert fires; no call lands on a released client; each greeting is printed once.
* **NvEncoder.** Two counters index one ring modulo its size, the driver keeps pictures back for
  lookahead, every driver call may throw in the middle, and two callers drive it in
  different ways (`nvenc_encode` ends the stream after each picture, the file tests at the end of the
  file). Correct: no frame still in use is overwritten; the encoder never waits for a packet only it
  could bring about; packets come back once and in order; what is mapped or allocated is released.
* **Capture source.** Three threads: the owner, the capture thread, and users of the track. The flag
  that stops the loop is a plain `bool` written by one thread and read by another. Correct: no frame
  reaches a removed sink; the thread never works in a source that is half destroyed; the destructor
  returns.
* **C table.** One mutex, but destruction deletes it, `get_framesize` does not take it, and `init` can
  leave half an encoder behind. Correct: no call that takes the mutex meets a deleted encoder, nothing
  crashes between a successful `init` and `destroy`, the parameters a caller set are the ones in force.
* **Media samples.** The hazards of the datachannel sample, and more threads: the capture thread, which
  outlives the signaling thread, and the one that hands decoded frames to a receiver no sample ever
  takes off the remote track. The clients get their connection only after `AddTrack`. Correct: no frame
  inside a receiver that is gone, none of the source to a closed connection; no null pointer; the
  receiver's sink is in place when media can flow; `main()` returns after `exit`.
* **Pictures.** Offsets and strides of planes are computed in four places, for two sizes. Correct: no
  plane runs into another or out of its memory, and what is written is the picture received.
* **Test program.** Two tests share one process: each pushes CUDA contexts and may break off in the
  middle without releasing anything; both write the same file. Correct: a test that completes leaves
  nothing behind whatever the other left on the stack; the output is the input, whole and in order;
  pictures are encoded at the bitrate in force for them.

`PROJECT.json` lists each hazard at its line with the properties that would catch it.

## 2. Modules

| module | what it is |
|---|---|
| `PeerConnection` | external: what one call of `PeerConnectionInterface` does to one peer connection |
| `PeerConnection_proofs` | lemmas: what these calls keep, for both samples |
| `DataChannelSample` | both clients, `main()` and the signaling thread |
| `HelloExchange` | abstract: two parties greet at most once each |
| `DataChannelSample_proofs` | its theorems |
| `VideoSource` | capture thread, owner and users of the video source |
| `VideoSource_proofs` | its theorems |
| `MediaSample` | the audio and the video sample, composed of `PeerConnection` and `VideoSource` |
| `MediaSample_proofs` | its theorems |
| `FrameCopy` | one picture of the video sample, plane by plane, from the bitmap to the saved file |
| `FrameCopy_proofs` | its theorems |
| `NvEncoder` | the ring of device frames, one session from `CreateEncoder` to `DestroyEncoder` |
| `EncoderQueue` | abstract: a queue of pictures, exact while nothing failed, lossy after |
| `NvEncoder_proofs` | the invariants of the ring, that it implements the queue, and when pictures come back |
| `CEncoder` | the C table around `NvEncoder`: one `nvenc_data` and the threads that share it |
| `RateSettings` | abstract: each adjustment changes one setting at one instant |
| `CEncoder_proofs` | its theorems |
| `TestProgram` | the two tests of the test program in one process |
| `TestProgram_proofs` | its theorems |
| `MC...` | instances for TLC |

### DataChannelSample

`EXTENDS PeerConnection`; a peer connection is a record, a call on it a function on the record, so a
handler that touches both clients' connections stays one step. Each callback is an action
(`OnSuccess`, `OnIceCandidate`, `OnDataChannel`, `OnMessage`; `OnStateChange` runs inside
`ChannelOpens` and `Teardown`, which cause it). `main()` is a program counter (`main`) with one action
per statement that matters. `fault` records what ends the process: an assert, or a call through
`other_` to an object that is not there.

Assumptions about libwebrtc, which is not in the repository:

* callbacks run on the signaling thread, one at a time and to completion, with the calls on the other
  client nested inside; any callback that is due may be the next one;
* `CreateOffer`/`CreateAnswer` complete later and hold a reference to their observer until then;
* candidates are gathered once a local description is set; `AddIceCandidate` is refused without a
  remote description, and the samples do not look at the result;
* the channel of the other side is announced before it opens, and its messages wait until it is open
  and observed; frames between two ends are ordered and not lost (`ordered = true`, reliable);
* `Close` ends a connection's callbacks and reports the closed channel; `Stop` drops what is pending;
* callbacks with an empty body are left out.

### MediaSample

`EXTENDS PeerConnection`, and has `VideoSource` with libwebrtc's encoder as its only sink as
`Source == INSTANCE VideoSource`: the actions of the two modules are conjoined where one causes the
other (`NewSource`, `EncoderAttached`, `CaptureThread`, `DropReference`, `ReleaseTrack`). The two
programs differ in the source of the track and in `OnAddTrack`, so one module models both and the
variable `sample` says which one runs. `OnSuccess`, `OnIceCandidate` and `main()` are as in the
datachannel sample; `drop_a` and `drop_b` are the two destructors, split where another thread can come
in: `~SimpleClient` calls `Close`, `Close` takes the encoder off the source and returns, the members go
in reverse order. `rendering` is a decoded frame inside `OnFrame` or `OnData`.

Besides the assumptions about libwebrtc made for `DataChannelSample`: the encoder becomes a sink of the
source once the negotiation is over; `OnAddTrack` runs in the task that sets the offer; frames may be
lost on the way; `Close` returns when neither an encoder is a sink nor a frame is under way in a
receiver; `Stop` drops what is pending. The track's proxy deletes the track on the signaling thread,
which has stopped by then: `ReleaseTrack` lets that happen or not. Encoder, network and decoder are
one counter, `inFlight`, the frames sent and neither lost nor decoded.

### FrameCopy

A byte is not a colour but the sample of the picture it stands for, `<<plane, row, column>>`, so that
one look at memory tells whether a plane is where its reader expects it. `Packed` and `CopyLayout` are
the offsets and strides the code computes, `Store` writes a picture through a layout, `Read` reads
through one. The module has the sizes the code uses in general form: pictures with even sides, at least
as wide as high (640 x 360), and bitmaps of odd width (1257 x 688). An `I420Buffer` is taken to have no
padding, as `I420Buffer::Create` makes it; a decoder with buffers of its own may choose otherwise. `process()` of
`I420Creator` is not called and not modelled.

### NvEncoder

`m_iToSend`, `m_iGot`, `m_vMappedInputBuffers` and `m_vInputFrames` are the members of the same name;
`input` and `output` are what a slot's device frame and bitstream contain (the number of a picture),
`mappings` counts the driver's live mappings of a slot. The two callers are one constant,
`FlushEachFrame`. `CreateEncoder` is three actions (session, allocation, registration), `EncodeFrame`
is `MapResources`, `DoEncode` and the loop `FetchPacket`/`AllFetched` that it shares with `EndEncode`
and `FlushEncoder`. Each of them has a failing disjunct that throws to where the code catches:
`nvenc_encode`'s caller may go on with the next picture, a file test abandons its encoder,
`FlushEncoder` swallows everything. A lost packet is modelled as in the code: `vPacket` belongs to the
frame that throws. `damage` remembers the failures the code does not recover from: a picture the
driver refused, a fetch that failed inside `EncodeFrame`, and a mapping or frame the driver did not let
go of when the session was destroyed, where the code does not look at the results.

`FrameIntervalP` is 1, since that is what every caller asks for, whatever the preset says
(`CreateDefaultEncoderParams`, `nvenc_init`, `nvenc_test1`): no B frames. With B frames the driver would
fill the bitstreams in encoding order (`nvEncodeAPI.h:2760-2770`, `2826-2838`), and packets would come
back in that order; `Finish` does not model it.

Assumptions about NVENC: it finishes pictures in the order it gets them, and every one but the last
`HeldBack` (the lookahead window) at the latest when it gets the next picture; it reads a
picture's device frame when it finishes it; the end-of-stream picture makes it finish all; a second
mapping of a frame counts separately; any call may fail, and a failed one has no other effect.

### VideoSource

One action per step of the three threads. `capture` is the thread's position, `remaining` the sinks
the frame under way must still reach, `user` what the user of each sink is doing; a sink is freed when
`RemoveSink` returns. `members` are the two members of `VideoSourceMock` the thread works in, which the
destructor takes away one by one in the reverse of their declaration: with `i420_creator_` it stops and
joins the thread. The race on `running_` is a choice: a read returns the value written or the old
`TRUE` (`Seen`). `rtc::VideoBroadcaster` is external: one lock held while a frame is handed round and
while a sink is added or removed. The track is only destroyed once no sink is attached, which
libwebrtc's references guarantee.

### CEncoder

`handle` is the owner's `void*`, which `destroy` sets to null (all other functions take it by value, and
the other threads keep copies), `object` the `nvenc_data` it points to, `mutex` its holder,
`nvenc` the member of that name with what it points to: nothing, a session without an encoder
(`"opened"`), one whose `CreateEncoder` broke off after the driver had taken the parameters
(`"half"`), a complete one, or what has just been deleted. `config` stands for `m_initializeParams` and
`m_encodeConfig`, reduced to the two settings the table changes, `driver` for what NVENC encodes with.
`call[t]` is the call thread `t` is in. A call is split where another thread can come in between, or
where it can throw: locking, reading the parameters, `Reconfigure`, and in `nvenc_destroy` between
deleting the encoder, setting it to null, unlocking, deleting the object and setting the handle to
null. An exception goes to `"leaving"`, where the `lock_guard` gives the mutex back.

One thread is the owner; it follows the test programs, which ignore the result of `init`. The others
adjust and use the encoder at any time, also before `init`, during `destroy` and after it.
`UsableFromInitToDestroy` names the window in which nothing crashes, and `UsesLiveEncoder` says what
holds up to the deletion of `nvenc_data`: a call that takes the mutex has an encoder that exists, or finds a
null pointer. Outside of that the model does show the code crashing: a call that waits for the mutex
when `nvenc_data` is deleted or comes later, `get_framesize` before `init`, after one that failed or
during `destroy`, `encode` after a failed `init` (a ring of size zero), `set_bitrate` after an accepted
frame rate of zero. Nothing in the repository promises otherwise, so no property forbids them.

Assumptions about NVENC: any call may be refused, and without an initialised encoder a reconfiguration
is. What `encode` does with the ring is `NvEncoder`'s subject. No thread passes null to `destroy` or
`get_framesize`, which would crash at once.

### TestProgram

`main()` runs the table's self test, which is one of three functions (`entry`), and then `test_nvenc`.
Each is the same sequence of actions: `CreateContext`, `OpenSession`, `CreateEncoder`, `AllocateBgra`,
`OpenFiles`, a loop of `ReadPicture`, `Adjust` and `Encode`, `EndOfFile`, `Release`; they differ in the
order (`UsesTable`), in what they adjust and in who flushes. What throws goes to the `catch` that ends
the test and releases nothing (`EndsEarly`); a CUDA call outside of `NvEncoder` that fails is logged
and passed over. `stack` is CUDA's stack of contexts, each named after the test that created it;
`bgra[t]` is the context test `t`'s picture was allocated in. `NvEncoder` appears here by what its
callers see: packets come back at once when `EndEncode` follows each picture, and `OutputDelay` late
when it does not.

## 3. What TLC checks

| run | instance | states | shows |
|---|---|---|---|
| `datachannel` | 3 candidates a side, two words | 8665 | type invariant; `DescriptionsMirror`, `CandidatesReachPeer`, `NoHandlerAsserts`, `DeadPeerOnlyAfterEarlyExit`; implements `HelloExchange` (`GreetsAtMostOnce`); `GreetingsShown` |
| `datachannel_own_candidates` | 2 candidates | violated | `RemoteCandidatesAreForeign`: a client adds its own candidates as remote ones |
| `media` | both programs, 2 candidates a side, 3 frames | 26842 | type invariant; `NoFrameToDeadReceiver`, `ClosedSenderIsQuiet`, `NoNullPointer`, `SinkBeforeMedia`; `ExitCompletes`, `ReceiverReady` |
| `videosource` | 3 sinks, 4 frames | 1880 | type invariant; `NoFrameAfterRemoveSink`, `LoopMeetsLiveMembers`; `DestructorReturns` |
| `frames` | even sizes up to 10 x 10, four bitmaps | 300 | `PlanesApart`, `LumaIntact`, `FileIsReceived` |
| `frames_chroma` | the same | violated | `BufferIsFrame`: chroma is copied with strides made from the height |
| `nvenc_wrapper` | ring of 4, 7 pictures, 6 failures | 254259 | type invariant; `EveryFrameReturned`, `MappingsReleased`, `RoomForNextFrame`, `QueuedFramesIntact`; implements `EncoderQueue` (`ExactlyOnceInOrder`) |
| `nvenc_filetests` | lookahead of 2, ring of 5, 12 pictures, 1 failure | 683 | `EveryFrameReturned`, `NeverWaitsForUnfinished`, `ExactlyOnceInOrder` for the file tests |
| `nvenc_refused_picture` | ring of 2 | violated | `CopiesToUnmapped`: after a refused picture the next one is copied into a mapped frame |
| `nvenc_half_created` | ring of 3 | violated | `DestroyFreesFrames`: device frames allocated and not registered are never freed |
| `cencoder` | owner and 2 threads, 2 bitrates, frame rates 0 and 15 | 137205 | type invariant; `OneEncoder`, `UsableFromInitToDestroy`, `UsesLiveEncoder`; implements `RateSettings` (`OneSettingAtATime`); `MutexReleased` |
| `testprogram` | 3 self tests; files of 0, 5 and 125 pictures, or none | 539946 | type invariant; `OutputIsInput`, `CompletedTestLeavesNothing`, `RateFollowsPictures` |

**Bounds.** Three candidates are enough for one to be early, one late and one to establish the
transport; in the media samples, where the same handlers run beside a capture thread, two are. The
words are `exit` and one other, since the loop tells no more apart. The rings are wrapped at least once
(12 pictures through 5 slots, 7 through 4), with a driver that may hold back
nothing, or as much as the configuration lets it. In the ring of 4 it takes three failed fetches inside
`EndEncode` for `EncodeFrame` to have something to fetch at all, and one more for that fetch to fail;
six failures let it happen twice. Four captured frames outnumber the sinks. Two threads besides the
owner are enough for one to hold the mutex, one to wait for it and the owner to destroy it; two
bitrates and one new frame rate tell a lost update from a kept one, and a frame rate of zero is the
one that divides. A file of 125 pictures, the five seconds of `test_h264_5s_nv12.yuv`, adjusts the
bitrate seven times, one of 5 once, and an empty one ends in its first read. The sizes of `frames`
include squares, where the chroma is intact, and every shape up to five times as wide as high.
`CEncoder` and `TestProgram` have no bound of their own. `MaxFrames`, `MaxFailures` and `MaxCount` are
the bounds on counters, and `CountCap`, one above what the loop can reach, only keeps the state space
finite if the loop had no limit.

**Fairness.** `DataChannelSample` assumes weak fairness of `main()` and of the signaling thread for
each client: threads run, and libwebrtc calls back in the end. Typing is not fair, so
`GreetingsShown` excuses a user who exits. `VideoSource` assumes weak fairness of the capture thread,
of the destructor once it has begun and of a sink's `RemoveSink`, and nothing of the owner or the users.
The join needs the loop to end: fairness only makes the thread go on, and its reads of `running_` may
all return `TRUE`. `MediaSample` assumes weak fairness of `main()` with
the destructors it causes, of the signaling thread, the capture thread, `RemoveSink` and the return
from a receiver; nothing of the user, of the moment the encoder is attached, or of how many frames get
through. `CEncoder` assumes weak fairness of each thread that is inside a call, and nothing of who gets
a free mutex, of threads that make calls, or of the owner. The other modules state safety only.

**Violated runs.** Each is a disagreement between the code and a text of the repository, listed under
`findings` with both lines.

Every property of a passing run has a mutant in `PROJECT.json`: a definition of the model, changed the
way a plausible bug would change the code, which breaks that property. Their definitions stand next
to the ones they vary ("Variant", "First: ...").

## 4. What is proved

All theorems hold for every value of the constants that satisfies the named `ASSUME`s.

**DataChannelSample** (`TwoClients`, `SomeCandidate`, `NullIsNoClient`, `ExitIsAWord`,
`OpenIsNoClient`): `TypeCorrect`, `MirrorTheorem`, `CandidateTheorem`, `AssertTheorem`,
`DeadPeerTheorem`, and `HelloTheorem`, that the sample implements `HelloExchange`. The properties are
not inductive. The strengthening says where the negotiation stands: which of the few combinations of
signaling state, descriptions and pending request of the two connections are reachable at each point
of `main()`; which client objects and links exist there; that only the end whose channel was announced
has `data_channel_` unset; and, for the refinement, that the frames on the wire, kept in a channel and
printed add up to at most one greeting per client.

**NvEncoder** (`EncoderConfig`, `ClientConfig`, `DelayConfig`): `TypeCorrect`, `RoomTheorem`,
`IntactTheorem`, `NoWaitTheorem`, `ReleaseTheorem`; `ReturnTheorem`, that every picture comes back while
no call fails; `QueueTheorem`, that the ring implements `EncoderQueue`; and `DelayTheorem`; for any lookahead, extra delay, and with them ring size, any number of failures, and
both callers. `DelayConfig` says that a caller which flushes each picture keeps a delay of at least
one: `EndEncode` clears the vector of packets that `EncodeFrame` has filled, so with a ring of one slot
`nvenc_encode` would lose every packet. The code's delay is 3. The invariant `IInv` joins to the
properties: how much is allocated at each point (`Allocation`); how `made`, `sent` and the two counters
are related (`Counters`); which calls are open where (`OpenCall`); that the driver holds back at most
`HeldBack` pictures while a fetch of `EncodeFrame` is under way (`Driver`); how full the ring may be
(`Room`); and that a mapping is on record exactly where one is live, outside of a picture just refused
(`Recorded`, `Mapped`). The argument is about residues: two pictures whose numbers differ by less than
the ring size are in different slots, so a write to the slot of `m_iToSend` leaves what is queued alone.

For the refinement that is not enough. `QueuedFramesIntact` gives up once a fetch inside `EncodeFrame`
has failed, for then the ring may overflow, and `EncoderQueue` still promises order without duplicates.
`QInv` adds that the last `m_nEncoderBuffer` pictures sent are intact whatever failed (`Recent`), and
that packets which reach the caller are fetched only from those (`Session`, `Fetched`); so what is
delivered is newer than all before (`Numbered`). `Complete` and `Settled` say the same of a run without
failure with equalities, which is `EveryFrameReturned`.

`DelayTheorem` says when: between two calls a file test has all its pictures back but the last
`m_nOutputDelay`, and the caller of `nvenc_encode` all of them (`OnTime`: `EncodeFrame` fetches no more
than that, and all of it). `TestProgram` takes this for granted, in one step per picture. Two theorems
say how far the findings about failed calls reach: without damage the caller only copies to unmapped
frames (`UnmappedTheorem`), and a session that has come to encode a picture leaves no device frame
behind, whatever failed in between (`FreedTheorem`).

**VideoSource** (`CountIsNat`): `TypeCorrect`, `RemoveSinkTheorem`, `MembersTheorem`, for any set
of sinks and any limit. The strengthening is that `remaining` is empty unless the thread holds the
lock, that a sink is registered exactly while its user has not had it removed, and that a member is gone
only if the thread is, with `i420_creator_`, which joins it, the first to go. `JoinTheorem`, for finitely many sinks,
is the part of `DestructorReturns` that needs no fairness: the thread the destructor joins has a bounded
number of steps left, each of its steps lowers that number and nobody's raises it (`StepsLeft`,
`Approaches`), whatever is read from `running_`.

**MediaSample** (the assumptions of `PeerConnection`, `NullIsNoClient`, `KnownSamples`, `CountIsNat`):
`TypeCorrect`; `SourceTheorem`, that the composed system implements `VideoSource`, so the media samples
use the source only as its contract allows; `ReceiverTheorem`, `QuietTheorem`, `SinkTheorem` and
`NullTheorem`. The
invariant says what exists at each point of `main()` (`Building`, `Linked`), how far the destruction of
each client is and what that leaves of its receiver and connection (`Destruction`), that the encoder is
on the source only while the sender is open (`EncoderLife`), and how many frames can be under way
(`FrameCount`); and that the receiver's sink is on the track once the receiver has the offer
(`SinkFirst`). `SourceLife` repeats the invariant of `VideoSource_proofs`, since the prover cannot use
theorems of an instantiated module.

**TestProgram** (`KnownEntries`, `LengthsAreNat`, `DelayIsNat`): `TypeCorrect`, `LeavesNothingTheorem` and
`OutputTheorem`, for files of any length, any delay and any adjustment interval. The first rests on
`OwnContext`: while a test holds a session its own context is on top of the stack, whatever an earlier
test left below; the second on `Counting`, `Written` and `OnlyFirstPictures`, which say how many pictures
have been returned at each point and that a file holds just these.

`RateTheorem` has a hypothesis, `FilesAreShort`: no file is longer than twelve adjustment intervals, which
is 240 pictures with the code's interval of 20, and almost twice what the file the code names, five
seconds, has. It is needed: the table's self test halves the bitrate from 200000 every 20 pictures and sizes the VBV buffer as the bitrate divided by 30, and picture
241 is the first for which that is 0 (TLC finds it with a file of 241 pictures). The invariant
`RateSoFar` says that average and VBV buffer are what the adjustments so far have made of them;
`FewHalvings` goes through the twelve halvings one by one, since repeated halving as such is induction.

**CEncoder** (`ThreadsDiffer`, `RatesAreNat`): `TypeCorrect`, `OneEncoderTheorem`, `UsableTheorem`,
`LiveEncoderTheorem`, and `SettingsTheorem`, that the table implements `RateSettings`, for any number of
threads and any rates. The invariant `IInv` says who may be where (`Roles`); that a call past its lock
holds the mutex (`Exclusion`); how the owner's position and the object's state determine each other
(`Lifetime`); that there is no encoder once `destroy` gives up the mutex, and one in every call that is
adjusting it (`Guarded`); that the encoder believes what the driver
uses (`Mirror`); and that the copy an adjusting call is about to send is the present one with one
setting changed (`Fresh`). `Fresh` is what makes a lost update impossible, and it rests on `Exclusion`:
while one call has a copy, no other can change the parameters. `MutexTheorem` is the part of
`MutexReleased` that needs no fairness: the holder of the mutex is inside a call that locks it, so no way
out of a call keeps it (`HeldInside`), and it is at most four steps from giving it back, which are its own
(`GivenBack`).

**FrameCopy** (`BitmapSizes`, `PictureSizes`): `PlanesTheorem`, `LumaTheorem` and `FileTheorem`, for
bitmaps and pictures of every size the assumptions allow, and `ShearTheorem`: which sample of the picture
each chroma sample of the copied frame is, so that only a square picture, or one of two rows, is copied
whole. The invariant says what every memory holds once it is written (`Converted`, `Scaled`, `Sent`, with
`FileIsReceived`). The argument numbers the samples of a layout: two of them never share an address,
and every address of a plane is that of one of its samples. With halves `a` and `b` of width and height
the planes start at 0, 4`ab` and 5`ab` and end at 6`ab`; the short chroma strides of `on_frame` stay inside
a plane because no picture is higher than wide. Products of two variables are kept apart from the
rest: each is named, bounded in a lemma of its own, and hidden.

**Only model-checked.** Liveness (`GreetingsShown`, `ExitCompletes`, `ReceiverReady`,
`DestructorReturns`, `MutexReleased`), which needs fairness and `ENABLED`; `JoinTheorem` and
`MutexTheorem` prove what two of them rest on. Every other property of a passing run is a theorem, with
the hypothesis named above for `RateFollowsPictures`. No module uses a `RECURSIVE` operator, and
nothing is proved by induction over data: neither is within the prover's reach.

## 5. Not modelled, and why

* The copy of packets into the caller's buffer and the sizes that go with it (one strict comparison in
  `nvenc_encode`, listed as a hazard), and the frame rate of `CEncoderConfig` (which `nvenc_init` stores
  and never uses). `GetSequenceParams` changes no state; `CEncoder` has it as a call that holds the mutex.
* Motion estimation, output in video memory and the Windows completion events are never switched on.
* Colours: what the conversion to I420 computes, the scaling filter, and the copy of planes to the
  device (`GetChromaSubPlaneOffsets` and its companions), whose layout only the driver reads.
  `I420Creator::process` and the helpers only it calls are not used by any program.
* `std::cin` at end of file (the loop would spin), and `m_iToSend` past 2^31.
* The frame counter that is incremented inside a log statement, and the sample's file numbering.
* The vendored decoder, the D3D, GL and video-memory encoders, the SDK's sample applications, headers
  and kernels: no program of the repository compiles them. `Logger.h` and `NvEncoderCLIOptions.h` log
  and parse. `virtual_network.h` declares an empty class. The book is prose.
* libwebrtc, libyuv, NVENC and CUDA themselves, beyond the assumptions of section 2.

## 6. Plan

Done, in this order: 1. `PeerConnection`, `DataChannelSample`, `HelloExchange`; 2. `NvEncoder`,
`EncoderQueue`; 3. `VideoSource`; 4. `CEncoder`, `RateSettings`; 5. `MediaSample`; 6. `FrameCopy`;
7. `TestProgram`; each with its proofs, those of `FrameCopy` last. What could follow:

8. What `ExitCompletes` of the media samples rests on, as `JoinTheorem` does it for the source: a bound on
   the steps between `exit` and the end of `main()`.
9. The plane tables of `NvEncoder` (`GetChromaSubPlaneOffsets`, `GetChromaPitch`) and
   `CopyToDeviceFrame` against the layouts of `FrameCopy`.
10. The sizes of `nvenc_encode`: packets against the caller's buffer, with what is dropped.
