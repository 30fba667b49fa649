-------------------------- MODULE NvEncoder_proofs --------------------------
(***************************************************************************)
(* Proofs about NvEncoder for a ring of any size, any number of pictures   *)
(* and any number of failed driver calls: the types, and with them that    *)
(* no mapping is given back twice; that there is room for the next         *)
(* picture; that nothing in the ring is overwritten; that the encoder      *)
(* never waits for an unfinished picture; and that DestroyEncoder unmaps   *)
(* everything.  All follow from one inductive invariant, IInv.  Then that  *)
(* the ring implements the queue of pictures its callers expect, which     *)
(* takes a second one, QInv, and when each picture comes back.             *)
(***************************************************************************)
EXTENDS NvEncoder, TLAPS

-----------------------------------------------------------------------------
(* The ring. *)

\* The ring has a slot, and it is as long as the driver's memory plus one.
LEMMA Sizes ==
  /\ m_nEncoderBuffer \in Nat \ {0}
  /\ m_nOutputDelay \in Nat /\ m_nEncoderBuffer = m_nOutputDelay + 1
  /\ HeldBack \in Nat /\ HeldBack <= m_nOutputDelay
  BY EncoderConfig DEF m_nEncoderBuffer, m_nOutputDelay, HeldBack, FrameIntervalP

LEMMA SlotType == ASSUME NEW i \in Nat PROVE Slot(i) \in Slots
<1> HIDE DEF m_nEncoderBuffer
<1> QED BY Sizes DEF Slot, Slots

\* Two pictures less than a ring apart have different slots.
LEMMA SlotsDiffer ==
  ASSUME NEW i \in Nat, NEW j \in Nat, i < j, j < i + m_nEncoderBuffer
  PROVE  Slot(i) # Slot(j)
<1> DEFINE N == m_nEncoderBuffer
<1> DEFINE p == i \div N
<1> DEFINE q == j \div N
<1>n. N \in Nat \ {0} BY Sizes
<1>a. i < j /\ j < i + N OBVIOUS
<1> HIDE DEF N
<1>1. i = N * p + (i % N) /\ p \in Int BY <1>n
<1>2. j = N * q + (j % N) /\ q \in Int BY <1>n
<1>3. i % N \in Int /\ j % N \in Int BY <1>n
<1> SUFFICES ASSUME i % N = j % N PROVE FALSE BY DEF Slot, N
<1>4. j - i = N * q - N * p BY <1>1, <1>2, <1>3, <1>n
<1> HIDE DEF p, q
<1>5. N * q - N * p = N * (q - p) BY <1>1, <1>2, <1>n
<1>6. CASE q - p <= 0 BY <1>4, <1>5, <1>6, <1>1, <1>2, <1>n, <1>a
<1>7. CASE q - p >= 1 BY <1>4, <1>5, <1>7, <1>1, <1>2, <1>n, <1>a
<1> QED BY <1>6, <1>7, <1>1, <1>2

-----------------------------------------------------------------------------
(* The inductive invariant. *)

\* Device frames are allocated first and put on record afterwards.
Allocation ==
  /\ m_vInputFrames <= allocated
  /\ pc \in {"new", "allocating"} => m_vInputFrames = 0 /\ allocated < m_nEncoderBuffer
  /\ pc = "registering" => allocated = m_nEncoderBuffer /\ m_vInputFrames < m_nEncoderBuffer

\* The counters: only finished pictures have been fetched, and a picture the
\* caller has copied is still to be sent.
Counters ==
  /\ Len(sent) = m_iToSend /\ m_iToSend <= made
  /\ pc \in {"copied", "mapped"} => m_iToSend < made
  /\ m_iGot <= encoded

\* The open call, and what the driver may still hold back while packets are being fetched.
OpenCall == pc \in {"copied", "mapped"} => call = "EncodeFrame"
Driver ==
  pc = "fetching" => IF call = "EncodeFrame" THEN m_iToSend - encoded <= HeldBack
                                            ELSE encoded = m_iToSend

\* At most the output delay is in the ring, one more while EncodeFrame fetches.
Room ==
  "slipped" \notin damage =>
    m_iToSend - m_iGot <= m_nOutputDelay
                          + (IF pc = "fetching" /\ call = "EncodeFrame" THEN 1 ELSE 0)

\* A mapping on record is a live one; without damage the live ones are those on
\* record, and those belong to pictures in the ring or to the one being sent.
Recorded == \A s \in m_vMappedInputBuffers : mappings[s] >= 1
InRing == {Slot(k) : k \in m_iGot .. m_iToSend - 1}
Mapped ==
  damage = {} =>
    /\ \A s \in Slots \ m_vMappedInputBuffers : mappings[s] = 0
    /\ \A s \in m_vMappedInputBuffers : mappings[s] = 1
    /\ pc # "mapped" => m_vMappedInputBuffers \subseteq InRing
    /\ pc = "mapped" => m_vMappedInputBuffers \subseteq InRing \union {GetNextInputFrame}
    /\ pc = "destroyed" => m_vMappedInputBuffers = {}

IInv == TypeOK /\ Allocation /\ Counters /\ OpenCall /\ Driver /\ Room /\ Recorded /\ Mapped
        /\ QueuedFramesIntact

-----------------------------------------------------------------------------
LEMMA InitIInv == Init => IInv
<1> SUFFICES ASSUME Init PROVE IInv OBVIOUS
<1> USE Sizes DEF Init
<1> HIDE DEF m_nEncoderBuffer, m_nOutputDelay, HeldBack
<1>1. TypeOK BY ClientConfig DEF TypeOK, PCs, Calls, Frames, NoFrame
<1>2. Allocation BY DEF Allocation
<1>3. Counters BY DEF Counters
<1>4. OpenCall /\ Driver /\ Room BY DEF OpenCall, Driver, Room
<1>5. Recorded /\ Mapped BY DEF Recorded, Mapped
<1>6. QueuedFramesIntact BY DEF QueuedFramesIntact
<1> QED BY <1>1, <1>2, <1>3, <1>4, <1>5, <1>6 DEF IInv

-----------------------------------------------------------------------------
(* How the operators of a step change the driver's and the encoder's       *)
(* records.                                                                *)

\* A call that throws leaves every type alone.
LEMMA ThrowType ==
  ASSUME TypeOK, NEW c \in Calls, Throw(c)
  PROVE  /\ pc' \in PCs /\ call' \in Calls
         /\ failures' \in 0 .. MaxFailures
         /\ vPacket' \in Seq(Frames \union {NoFrame})
         /\ pc' \in {"flushed", "abandoned", "half_made", "ready"}
         /\ vPacket' = <<>> /\ call' = c
<1>1. pc' = AfterThrow(c) /\ call' = c /\ vPacket' = <<>> BY DEF Throw
<1>2. AfterThrow(c) \in {"flushed", "abandoned", "half_made", "ready"} BY DEF AfterThrow
<1>3. failures' \in 0 .. MaxFailures
  <2>1. failures' = failures + 1 /\ failures < MaxFailures BY DEF Throw
  <2>2. failures \in 0 .. MaxFailures BY DEF TypeOK
  <2> QED BY <2>1, <2>2, ClientConfig
<1> QED BY <1>1, <1>2, <1>3 DEF PCs

LEMMA FinishType ==
  ASSUME TypeOK, NEW n \in Nat, Finish(n)
  PROVE  output' \in [Slots -> Frames \union {NoFrame}] /\ encoded' = n
<1>1. input \in [Slots -> Frames \union {NoFrame}] /\ output \in [Slots -> Frames \union {NoFrame}]
  BY DEF TypeOK
<1> QED BY <1>1 DEF Finish

\* What was finished before stays, and what is finished now comes from the
\* device frame, as long as all of it lies within one ring.
LEMMA FinishSlot ==
  ASSUME TypeOK, NEW n \in Nat, Finish(n)
  PROVE  /\ \A k \in encoded .. n - 1 : output'[Slot(k)] = input[Slot(k)]
         /\ \A k \in 0 .. encoded - 1 :
              n <= k + m_nEncoderBuffer => output'[Slot(k)] = output[Slot(k)]
<1>t. encoded \in Nat BY DEF TypeOK
<1>1. ASSUME NEW k \in encoded .. n - 1 PROVE output'[Slot(k)] = input[Slot(k)]
  <2>1. k \in Nat BY <1>t
  <2>2. Slot(k) \in Slots BY <2>1, SlotType
  <2> QED BY <2>2 DEF Finish
<1>2. ASSUME NEW k \in 0 .. encoded - 1, n <= k + m_nEncoderBuffer
      PROVE  output'[Slot(k)] = output[Slot(k)]
  <2>1. k \in Nat BY <1>t
  <2>2. Slot(k) \in Slots BY <2>1, SlotType
  <2>3. ASSUME NEW j \in encoded .. n - 1 PROVE Slot(j) # Slot(k)
    <3>1. j \in Nat /\ k < j BY <1>t, <2>1
    <3>2. j < k + m_nEncoderBuffer
      <4> HIDE DEF m_nEncoderBuffer
      <4> QED BY <1>2, <1>t, <2>1, Sizes
    <3> QED BY <3>1, <3>2, <2>1, SlotsDiffer
  <2> QED BY <2>2, <2>3 DEF Finish
<1> QED BY <1>1, <1>2

LEMMA UnmapType ==
  ASSUME TypeOK, Recorded, NEW S
  PROVE  /\ Unmap(S) \in [Slots -> Nat]
         /\ \A s \in Slots : Unmap(S)[s] = IF s \in S /\ s \in m_vMappedInputBuffers
                                           THEN mappings[s] - 1 ELSE mappings[s]
<1>1. mappings \in [Slots -> Nat] BY DEF TypeOK
<1>2. \A s \in m_vMappedInputBuffers : mappings[s] >= 1 BY DEF Recorded
<1> QED BY <1>1, <1>2 DEF Unmap

-----------------------------------------------------------------------------
(* Every step keeps the types. *)

LEMMA CreateType ==
  ASSUME IInv, InitializeEncoder \/ AllocateInputBuffers \/ RegisterInputResources
  PROVE  TypeOK'
<1> USE Sizes DEF IInv
<1> HIDE DEF m_nEncoderBuffer, m_nOutputDelay, HeldBack
<1>c. "CreateEncoder" \in Calls BY DEF Calls
<1>1. CASE InitializeEncoder
  <2>1. CASE Throw("CreateEncoder")
    BY <1>1, <2>1, <1>c, ThrowType DEF InitializeEncoder, TypeOK, ring, pictures, memory
  <2>2. CASE pc' = "allocating" /\ UNCHANGED <<call, vPacket, failures>>
    BY <1>1, <2>2 DEF InitializeEncoder, TypeOK, ring, pictures, memory, PCs
  <2> QED BY <1>1, <2>1, <2>2 DEF InitializeEncoder
<1>2. CASE AllocateInputBuffers
  <2>1. CASE Throw("CreateEncoder") /\ UNCHANGED allocated
    BY <1>2, <2>1, <1>c, ThrowType DEF AllocateInputBuffers, TypeOK, ring, pictures, memory
  <2>2. CASE /\ allocated' = allocated + 1
             /\ pc' = IF allocated' = m_nEncoderBuffer THEN "registering" ELSE pc
             /\ UNCHANGED <<call, vPacket, failures>>
    <3>1. allocated' \in 0 .. m_nEncoderBuffer
      BY <1>2, <2>2 DEF AllocateInputBuffers, TypeOK, Allocation
    <3> QED BY <1>2, <2>2, <3>1 DEF AllocateInputBuffers, TypeOK, ring, pictures, PCs
  <2> QED BY <1>2, <2>1, <2>2 DEF AllocateInputBuffers
<1>3. CASE RegisterInputResources
  <2>1. CASE Throw("CreateEncoder") /\ UNCHANGED m_vInputFrames
    BY <1>3, <2>1, <1>c, ThrowType DEF RegisterInputResources, TypeOK, ring, pictures, memory
  <2>2. CASE /\ m_vInputFrames' = m_vInputFrames + 1
             /\ pc' = IF m_vInputFrames' = m_nEncoderBuffer THEN "ready" ELSE pc
             /\ UNCHANGED <<call, vPacket, failures>>
    <3>1. m_vInputFrames' \in 0 .. m_nEncoderBuffer
      BY <1>3, <2>2 DEF RegisterInputResources, TypeOK, Allocation
    <3> QED BY <1>3, <2>2, <3>1 DEF RegisterInputResources, TypeOK, ring, pictures, PCs
  <2> QED BY <1>3, <2>1, <2>2 DEF RegisterInputResources
<1> QED BY <1>1, <1>2, <1>3

LEMMA EncodeType ==
  ASSUME IInv, CopyToDeviceFrame \/ MapResources \/ DoEncode
  PROVE  TypeOK'
<1> USE Sizes DEF IInv
<1> HIDE DEF m_nEncoderBuffer, m_nOutputDelay, HeldBack
<1>c. "EncodeFrame" \in Calls BY DEF Calls
<1>s. GetNextInputFrame \in Slots /\ m_iToSend \in Nat BY SlotType DEF GetNextInputFrame, TypeOK
<1>1. CASE CopyToDeviceFrame
  <2>1. made' \in 0 .. MaxFrames /\ made + 1 \in Frames
    BY <1>1, ClientConfig DEF CopyToDeviceFrame, TypeOK, Frames
  <2>2. input' \in [Slots -> Frames \union {NoFrame}]
    BY <1>1, <2>1, <1>s DEF CopyToDeviceFrame, TypeOK
  <2>3. CASE Throw("EncodeFrame")
    BY <1>1, <2>1, <2>2, <2>3, <1>c, ThrowType DEF CopyToDeviceFrame, TypeOK, ring, memory
  <2>4. CASE pc' = "copied" /\ call' = "EncodeFrame" /\ vPacket' = <<>> /\ UNCHANGED failures
    <3>1. vPacket' \in Seq(Frames \union {NoFrame}) BY <2>4
    <3> QED BY <1>1, <2>1, <2>2, <2>4, <3>1, <1>c DEF CopyToDeviceFrame, TypeOK, ring, memory, PCs
  <2> QED BY <1>1, <2>3, <2>4 DEF CopyToDeviceFrame
<1>2. CASE MapResources
  <2>1. CASE Throw("EncodeFrame") /\ UNCHANGED <<mappings, m_vMappedInputBuffers>>
    BY <1>2, <2>1, <1>c, ThrowType DEF MapResources, TypeOK, pictures, memory
  <2>2. CASE /\ mappings' = [mappings EXCEPT ![GetNextInputFrame] = @ + 1]
             /\ m_vMappedInputBuffers' = m_vMappedInputBuffers \union {GetNextInputFrame}
             /\ pc' = "mapped" /\ UNCHANGED <<call, vPacket, failures>>
    <3>1. mappings' \in [Slots -> Nat] BY <2>2, <1>s DEF TypeOK
    <3>2. m_vMappedInputBuffers' \subseteq Slots BY <2>2, <1>s DEF TypeOK
    <3> QED BY <1>2, <2>2, <3>1, <3>2 DEF MapResources, TypeOK, pictures, memory, PCs
  <2> QED BY <1>2, <2>1, <2>2 DEF MapResources
<1>3. CASE DoEncode
  <2>1. CASE /\ Throw("EncodeFrame")
             /\ damage' = damage \union {"refused"}
             /\ UNCHANGED <<m_iToSend, sent, encoded, output>>
    <3>1. damage' \subseteq {"refused", "slipped", "unreleased"} BY <2>1 DEF TypeOK
    <3> QED BY <1>3, <2>1, <3>1, <1>c, ThrowType DEF DoEncode, TypeOK, memory
  <2>2. ASSUME NEW n \in encoded .. m_iToSend + 1, Finish(n),
               m_iToSend' = m_iToSend + 1,
               sent' = Append(sent, input[GetNextInputFrame]),
               pc' = "fetching", UNCHANGED <<call, vPacket, failures, damage>>
        PROVE  TypeOK'
    <3>1. n \in Nat /\ n \in 0 .. m_iToSend' BY <2>2 DEF TypeOK
    <3>2. output' \in [Slots -> Frames \union {NoFrame}] /\ encoded' = n
      BY <2>2, <3>1, FinishType
    <3>3. m_iToSend' \in 0 .. MaxFrames /\ m_iGot \in 0 .. m_iToSend'
      <4>1. pc = "mapped" BY <1>3 DEF DoEncode
      <4>2. m_iToSend < made /\ made \in 0 .. MaxFrames BY <4>1 DEF Counters, TypeOK
      <4>3. m_iToSend \in Nat /\ m_iGot \in 0 .. m_iToSend BY DEF TypeOK
      <4> QED BY <2>2, <4>2, <4>3, ClientConfig
    <3>4. sent' \in Seq(Frames \union {NoFrame})
      <4>1. input[GetNextInputFrame] \in Frames \union {NoFrame} BY <1>s DEF TypeOK
      <4>2. sent \in Seq(Frames \union {NoFrame}) BY DEF TypeOK
      <4> QED BY <2>2, <4>1, <4>2
    <3>5. UNCHANGED <<m_iGot, m_vMappedInputBuffers, mappings, made, input, memory, taken>>
      BY <1>3 DEF DoEncode
    <3>6. encoded' \in 0 .. m_iToSend' BY <3>1, <3>2
    <3>7. pc' \in PCs /\ call' \in Calls BY <2>2 DEF TypeOK, PCs
    <3> QED BY <2>2, <3>2, <3>3, <3>4, <3>5, <3>6, <3>7 DEF TypeOK, memory
  <2> QED BY <1>3, <2>1, <2>2 DEF DoEncode
<1> QED BY <1>1, <1>2, <1>3

LEMMA FetchType ==
  ASSUME IInv, FetchPacket \/ AllFetched
  PROVE  TypeOK'
<1> USE Sizes DEF IInv
<1> HIDE DEF m_nEncoderBuffer, m_nOutputDelay, HeldBack
<1>1. CASE FetchPacket
  <2>1. CASE /\ Throw(call)
             /\ damage' = damage \union (IF call = "EncodeFrame" THEN {"slipped"} ELSE {})
             /\ UNCHANGED <<mappings, m_vMappedInputBuffers, m_iGot>>
    <3>1. damage' \subseteq {"refused", "slipped", "unreleased"} BY <2>1 DEF TypeOK
    <3>2. call \in Calls BY DEF TypeOK
    <3> QED BY <1>1, <2>1, <3>1, <3>2, ThrowType DEF FetchPacket, TypeOK, pictures, memory
  <2>2. CASE LET s == Slot(m_iGot) IN
               /\ vPacket' = Append(vPacket, output[s])
               /\ mappings' = Unmap({s})
               /\ m_vMappedInputBuffers' = Reset(s)
               /\ m_iGot' = m_iGot + 1
               /\ UNCHANGED <<pc, call, failures, damage>>
    <3>1. Slot(m_iGot) \in Slots BY SlotType DEF TypeOK
    <3>2. mappings' \in [Slots -> Nat] BY <2>2, UnmapType
    <3>3. m_vMappedInputBuffers' \subseteq Slots BY <2>2 DEF Reset, TypeOK
    <3>4. vPacket' \in Seq(Frames \union {NoFrame})
      <4>1. output[Slot(m_iGot)] \in Frames \union {NoFrame} BY <3>1 DEF TypeOK
      <4>2. vPacket \in Seq(Frames \union {NoFrame}) BY DEF TypeOK
      <4> QED BY <2>2, <4>1, <4>2
    <3>5. m_iGot' \in 0 .. m_iToSend
      BY <1>1, <2>2 DEF FetchPacket, FetchEnd, TypeOK
    <3> QED BY <1>1, <2>2, <3>2, <3>3, <3>4, <3>5 DEF FetchPacket, TypeOK, pictures, memory
  <2> QED BY <1>1, <2>1, <2>2 DEF FetchPacket
<1>2. CASE AllFetched
  BY <1>2 DEF AllFetched, TypeOK, ring, pictures, memory, PCs
<1> QED BY <1>1, <1>2

LEMMA EOSType ==
  ASSUME IInv, NEW c \in Calls, SendEOS(c)
  PROVE  TypeOK'
<1> USE DEF IInv
<1>1. CASE Throw(c) /\ UNCHANGED <<encoded, output>>
  BY <1>1, ThrowType DEF SendEOS, TypeOK, ring, memory
<1>2. CASE /\ Finish(m_iToSend)
           /\ pc' = "fetching" /\ call' = c /\ vPacket' = <<>>
           /\ UNCHANGED failures
  <2>1. m_iToSend \in Nat BY DEF TypeOK
  <2>2. output' \in [Slots -> Frames \union {NoFrame}] /\ encoded' = m_iToSend
    BY <1>2, <2>1, FinishType
  <2>3. vPacket' \in Seq(Frames \union {NoFrame}) BY <1>2
  <2> QED BY <1>2, <2>1, <2>2, <2>3 DEF SendEOS, TypeOK, ring, memory, PCs
<1> QED BY <1>1, <1>2 DEF SendEOS

LEMMA TypeStep == IInv /\ [Next]_vars => TypeOK'
<1> SUFFICES ASSUME IInv, [Next]_vars PROVE TypeOK' OBVIOUS
<1>1. CASE InitializeEncoder \/ AllocateInputBuffers \/ RegisterInputResources BY <1>1, CreateType
<1>2. CASE CopyToDeviceFrame \/ MapResources \/ DoEncode BY <1>2, EncodeType
<1>3. CASE FetchPacket \/ AllFetched BY <1>3, FetchType
<1>4. CASE EndEncode BY <1>4, EOSType DEF EndEncode, Calls
<1>5. CASE DestroyEncoder BY <1>5, EOSType DEF DestroyEncoder, Calls
<1>6. CASE TakePacket
  <2>1. vPacket \in Seq(Frames \union {NoFrame}) /\ taken \in Seq(Frames \union {NoFrame})
    BY DEF IInv, TypeOK
  <2>2. taken' \in Seq(Frames \union {NoFrame}) /\ vPacket' \in Seq(Frames \union {NoFrame})
    BY <1>6, <2>1 DEF TakePacket
  <2> QED BY <1>6, <2>2 DEF TakePacket, IInv, TypeOK, ring, pictures, memory
<1>7. CASE AllTaken BY <1>7 DEF AllTaken, IInv, TypeOK, ring, pictures, memory, PCs
<1>8. CASE ReleaseInputBuffers
  <2>1. PICK kept \in SUBSET m_vMappedInputBuffers, lost \in 0 .. m_vInputFrames :
          /\ mappings' = Unmap(Slots \ kept)
          /\ allocated' = allocated - m_vInputFrames + lost
          /\ \/ UNCHANGED <<failures, damage>>
             \/ /\ failures < MaxFailures /\ failures' = failures + 1
                /\ damage' = damage \union {"unreleased"}
    BY <1>8 DEF ReleaseInputBuffers
  <2>2. mappings' \in [Slots -> Nat] BY <2>1, UnmapType DEF IInv
  <2>3. allocated' \in 0 .. m_nEncoderBuffer /\ m_vInputFrames' \in 0 .. m_nEncoderBuffer
    <3> HIDE DEF m_nEncoderBuffer
    <3>1. m_vInputFrames \in Nat /\ allocated \in 0 .. m_nEncoderBuffer
          /\ m_vInputFrames <= allocated /\ m_vInputFrames' = 0
      BY <1>8 DEF ReleaseInputBuffers, IInv, TypeOK, Allocation
    <3> QED BY <2>1, <3>1, Sizes
  <2>4. failures' \in 0 .. MaxFailures
    <3>1. failures' = failures \/ (failures < MaxFailures /\ failures' = failures + 1) BY <2>1
    <3>2. failures \in 0 .. MaxFailures BY DEF IInv, TypeOK
    <3> QED BY <3>1, <3>2, ClientConfig
  <2>5. damage' \subseteq {"refused", "slipped", "unreleased"} BY <2>1 DEF IInv, TypeOK
  <2> QED BY <1>8, <2>2, <2>3, <2>4, <2>5 DEF ReleaseInputBuffers, IInv, TypeOK, pictures, PCs
<1>9. CASE UNCHANGED vars BY <1>9 DEF vars, IInv, TypeOK, ring, pictures, memory
<1> QED BY <1>1, <1>2, <1>3, <1>4, <1>5, <1>6, <1>7, <1>8, <1>9 DEF Next

-----------------------------------------------------------------------------
(* Every step keeps the other parts.  First what a step leaves alone, so   *)
(* that the parts need not look into every action.                         *)

\* A call that throws.
LEMMA ThrowStep ==
  ASSUME NEW c, Throw(c)
  PROVE  /\ pc' \in {"flushed", "abandoned", "half_made", "ready"}
         /\ call' = c
  BY DEF Throw, AfterThrow

LEMMA AllocationStep == IInv /\ [Next]_vars => Allocation'
<1> SUFFICES ASSUME IInv, [Next]_vars PROVE Allocation' OBVIOUS
<1> USE Sizes DEF IInv, Allocation
<1> HIDE DEF m_nEncoderBuffer, m_nOutputDelay, HeldBack
<1>t. m_vInputFrames \in Nat /\ allocated \in Nat BY DEF TypeOK
<1>1. CASE InitializeEncoder BY <1>1, <1>t, ThrowStep DEF InitializeEncoder, memory
<1>2. CASE AllocateInputBuffers BY <1>2, <1>t, ThrowStep DEF AllocateInputBuffers, memory
<1>3. CASE RegisterInputResources BY <1>3, <1>t, ThrowStep DEF RegisterInputResources, memory
<1>4. CASE CopyToDeviceFrame BY <1>4, ThrowStep DEF CopyToDeviceFrame, memory
<1>5. CASE MapResources BY <1>5, ThrowStep DEF MapResources, memory
<1>6. CASE DoEncode BY <1>6, ThrowStep DEF DoEncode, memory
<1>7. CASE FetchPacket BY <1>7, ThrowStep DEF FetchPacket, memory
<1>8. CASE AllFetched BY <1>8 DEF AllFetched, memory
<1>9. ASSUME NEW c, SendEOS(c) PROVE Allocation'
  BY <1>9, ThrowStep DEF SendEOS, memory
<1>10. CASE EndEncode \/ DestroyEncoder BY <1>9, <1>10 DEF EndEncode, DestroyEncoder
<1>11. CASE TakePacket BY <1>11 DEF TakePacket, memory
<1>12. CASE AllTaken BY <1>12 DEF AllTaken, memory
<1>13. CASE ReleaseInputBuffers BY <1>13, <1>t DEF ReleaseInputBuffers
<1>14. CASE UNCHANGED vars BY <1>14 DEF vars, memory
<1> QED BY <1>1, <1>2, <1>3, <1>4, <1>5, <1>6, <1>7, <1>8, <1>10, <1>11, <1>12, <1>13, <1>14 DEF Next

LEMMA CountersStep == IInv /\ [Next]_vars => Counters'
<1> SUFFICES ASSUME IInv, [Next]_vars PROVE Counters' OBVIOUS
<1> USE Sizes DEF IInv, Counters
<1> HIDE DEF m_nEncoderBuffer, m_nOutputDelay, HeldBack
<1>t. /\ made \in Nat /\ m_iToSend \in Nat /\ m_iGot \in 0 .. m_iToSend /\ encoded \in 0 .. m_iToSend
      /\ sent \in Seq(Frames \union {NoFrame}) BY DEF TypeOK
<1>1. CASE InitializeEncoder BY <1>1, ThrowStep DEF InitializeEncoder, ring, pictures
<1>2. CASE AllocateInputBuffers BY <1>2, ThrowStep DEF AllocateInputBuffers, ring, pictures
<1>3. CASE RegisterInputResources BY <1>3, ThrowStep DEF RegisterInputResources, ring, pictures
<1>4. CASE CopyToDeviceFrame BY <1>4, <1>t, ThrowStep DEF CopyToDeviceFrame, ring
<1>5. CASE MapResources BY <1>5, ThrowStep DEF MapResources, pictures
<1>6. CASE DoEncode
  <2>1. CASE Throw("EncodeFrame") /\ UNCHANGED <<m_iToSend, sent, encoded, output>>
    BY <1>6, <2>1, <1>t, ThrowStep DEF DoEncode
  <2>2. ASSUME NEW n \in encoded .. m_iToSend + 1, Finish(n),
               m_iToSend' = m_iToSend + 1,
               sent' = Append(sent, input[GetNextInputFrame]), pc' = "fetching"
        PROVE  Counters'
    <3>1. encoded' = n BY <2>2 DEF Finish
    <3>2. Len(sent') = Len(sent) + 1
      <4> DEFINE f == input[GetNextInputFrame]
      <4>1. sent' = Append(sent, f) BY <2>2
      <4> HIDE DEF f
      <4> QED BY <4>1, <1>t
    <3>3. m_iGot' = m_iGot /\ made' = made /\ pc = "mapped" BY <1>6 DEF DoEncode
    <3> QED BY <2>2, <3>1, <3>2, <3>3, <1>t
  <2> QED BY <1>6, <2>1, <2>2 DEF DoEncode
<1>7. CASE FetchPacket
  <2>1. CASE Throw(call) /\ UNCHANGED m_iGot
    BY <1>7, <2>1, ThrowStep DEF FetchPacket, pictures
  <2>2. CASE m_iGot' = m_iGot + 1 /\ pc' = pc
    <3>1. m_iGot < encoded BY <1>7, <1>t DEF FetchPacket, FetchEnd, Driver
    <3> QED BY <1>7, <2>2, <3>1, <1>t DEF FetchPacket, pictures
  <2> QED BY <1>7, <2>1, <2>2 DEF FetchPacket
<1>8. CASE AllFetched BY <1>8 DEF AllFetched, ring, pictures
<1>9. ASSUME NEW c, SendEOS(c) PROVE Counters'
  BY <1>9, <1>t, ThrowStep DEF SendEOS, Finish, ring
<1>10. CASE EndEncode \/ DestroyEncoder BY <1>9, <1>10 DEF EndEncode, DestroyEncoder
<1>11. CASE TakePacket BY <1>11 DEF TakePacket, ring, pictures
<1>12. CASE AllTaken BY <1>12 DEF AllTaken, ring, pictures
<1>13. CASE ReleaseInputBuffers BY <1>13 DEF ReleaseInputBuffers, pictures
<1>14. CASE UNCHANGED vars BY <1>14 DEF vars, ring, pictures
<1> QED BY <1>1, <1>2, <1>3, <1>4, <1>5, <1>6, <1>7, <1>8, <1>10, <1>11, <1>12, <1>13, <1>14 DEF Next

LEMMA DriverStep == IInv /\ [Next]_vars => Driver'
<1> SUFFICES ASSUME IInv, [Next]_vars PROVE Driver' OBVIOUS
<1> USE Sizes DEF IInv, Driver
<1> HIDE DEF m_nEncoderBuffer, m_nOutputDelay, HeldBack
<1>t. m_iToSend \in Nat /\ encoded \in 0 .. m_iToSend BY DEF TypeOK
<1>1. CASE InitializeEncoder BY <1>1, ThrowStep DEF InitializeEncoder
<1>2. CASE AllocateInputBuffers BY <1>2, ThrowStep DEF AllocateInputBuffers
<1>3. CASE RegisterInputResources BY <1>3, ThrowStep DEF RegisterInputResources
<1>4. CASE CopyToDeviceFrame BY <1>4, ThrowStep DEF CopyToDeviceFrame
<1>5. CASE MapResources BY <1>5, ThrowStep DEF MapResources
<1>6. CASE DoEncode
  <2>1. CASE Throw("EncodeFrame") BY <1>6, <2>1, ThrowStep
  <2>2. ASSUME NEW n \in encoded .. m_iToSend + 1, m_iToSend + 1 - n <= HeldBack, Finish(n),
               m_iToSend' = m_iToSend + 1, call' = call
        PROVE  Driver'
    <3>1. encoded' = n BY <2>2 DEF Finish
    <3>2. call = "EncodeFrame" BY <1>6 DEF DoEncode, OpenCall
    <3> QED BY <2>2, <3>1, <3>2, <1>t
  <2> QED BY <1>6, <2>1, <2>2 DEF DoEncode
<1>7. CASE FetchPacket BY <1>7, ThrowStep DEF FetchPacket, pictures
<1>8. CASE AllFetched BY <1>8 DEF AllFetched
<1>9. ASSUME NEW c, c # "EncodeFrame", SendEOS(c) PROVE Driver'
  BY <1>9, <1>t, ThrowStep DEF SendEOS, Finish, ring
<1>10. CASE EndEncode \/ DestroyEncoder BY <1>9, <1>10 DEF EndEncode, DestroyEncoder
<1>11. CASE TakePacket BY <1>11 DEF TakePacket
<1>12. CASE AllTaken BY <1>12 DEF AllTaken
<1>13. CASE ReleaseInputBuffers BY <1>13 DEF ReleaseInputBuffers
<1>14. CASE UNCHANGED vars BY <1>14 DEF vars, ring, pictures
<1> QED BY <1>1, <1>2, <1>3, <1>4, <1>5, <1>6, <1>7, <1>8, <1>10, <1>11, <1>12, <1>13, <1>14 DEF Next

LEMMA OpenCallStep == IInv /\ [Next]_vars => OpenCall'
<1> SUFFICES ASSUME IInv, [Next]_vars PROVE OpenCall' OBVIOUS
<1> USE DEF IInv, OpenCall
<1>1. CASE InitializeEncoder BY <1>1, ThrowStep DEF InitializeEncoder
<1>2. CASE AllocateInputBuffers BY <1>2, ThrowStep DEF AllocateInputBuffers
<1>3. CASE RegisterInputResources BY <1>3, ThrowStep DEF RegisterInputResources
<1>4. CASE CopyToDeviceFrame BY <1>4, ThrowStep DEF CopyToDeviceFrame
<1>5. CASE MapResources BY <1>5, ThrowStep DEF MapResources
<1>6. CASE DoEncode BY <1>6, ThrowStep DEF DoEncode
<1>7. CASE FetchPacket BY <1>7, ThrowStep DEF FetchPacket
<1>8. CASE AllFetched BY <1>8 DEF AllFetched
<1>9. ASSUME NEW c, SendEOS(c) PROVE OpenCall' BY <1>9, ThrowStep DEF SendEOS
<1>10. CASE EndEncode \/ DestroyEncoder BY <1>9, <1>10 DEF EndEncode, DestroyEncoder
<1>11. CASE TakePacket BY <1>11 DEF TakePacket
<1>12. CASE AllTaken BY <1>12 DEF AllTaken
<1>13. CASE ReleaseInputBuffers BY <1>13 DEF ReleaseInputBuffers
<1>14. CASE UNCHANGED vars BY <1>14 DEF vars
<1> QED BY <1>1, <1>2, <1>3, <1>4, <1>5, <1>6, <1>7, <1>8, <1>10, <1>11, <1>12, <1>13, <1>14 DEF Next

LEMMA RoomStep == IInv /\ [Next]_vars => Room'
<1> SUFFICES ASSUME IInv, [Next]_vars PROVE Room' OBVIOUS
<1> USE Sizes DEF IInv, Room
<1> HIDE DEF m_nEncoderBuffer, m_nOutputDelay, HeldBack
<1>t. m_iToSend \in Nat /\ m_iGot \in Nat BY DEF TypeOK
<1>1. CASE InitializeEncoder BY <1>1, ThrowStep DEF InitializeEncoder, ring
<1>2. CASE AllocateInputBuffers BY <1>2, ThrowStep DEF AllocateInputBuffers, ring
<1>3. CASE RegisterInputResources BY <1>3, ThrowStep DEF RegisterInputResources, ring
<1>4. CASE CopyToDeviceFrame BY <1>4, ThrowStep DEF CopyToDeviceFrame, ring
<1>5. CASE MapResources BY <1>5, ThrowStep DEF MapResources
<1>6. CASE DoEncode
  <2>1. pc = "mapped" /\ call = "EncodeFrame" /\ m_iGot' = m_iGot BY <1>6 DEF DoEncode, OpenCall
  <2>2. CASE Throw("EncodeFrame") /\ damage' = damage \union {"refused"} /\ m_iToSend' = m_iToSend
    BY <2>1, <2>2, ThrowStep
  <2>3. CASE m_iToSend' = m_iToSend + 1 /\ pc' = "fetching" /\ UNCHANGED <<call, damage>>
    BY <2>1, <2>3, <1>t
  <2> QED BY <1>6, <2>2, <2>3 DEF DoEncode
<1>7. CASE FetchPacket
  <2>1. pc = "fetching" /\ m_iToSend' = m_iToSend BY <1>7 DEF FetchPacket
  <2>2. CASE /\ Throw(call) /\ m_iGot' = m_iGot
             /\ damage' = damage \union (IF call = "EncodeFrame" THEN {"slipped"} ELSE {})
    BY <2>1, <2>2, ThrowStep
  <2>3. CASE m_iGot' = m_iGot + 1 /\ UNCHANGED <<pc, call, damage>> BY <2>1, <2>3, <1>t
  <2> QED BY <1>7, <2>2, <2>3 DEF FetchPacket
<1>8. CASE AllFetched BY <1>8, <1>t DEF AllFetched, FetchEnd, ring
<1>9. ASSUME NEW c, c # "EncodeFrame", pc # "fetching", SendEOS(c) PROVE Room'
  BY <1>9, ThrowStep DEF SendEOS, ring
<1>10. CASE EndEncode \/ DestroyEncoder BY <1>9, <1>10 DEF EndEncode, DestroyEncoder
<1>11. CASE TakePacket BY <1>11 DEF TakePacket, ring
<1>12. CASE AllTaken BY <1>12 DEF AllTaken, ring
<1>13. CASE ReleaseInputBuffers BY <1>13 DEF ReleaseInputBuffers
<1>14. CASE UNCHANGED vars BY <1>14 DEF vars, ring
<1> QED BY <1>1, <1>2, <1>3, <1>4, <1>5, <1>6, <1>7, <1>8, <1>10, <1>11, <1>12, <1>13, <1>14 DEF Next

LEMMA RecordedStep == IInv /\ [Next]_vars => Recorded'
<1> SUFFICES ASSUME IInv, [Next]_vars PROVE Recorded' OBVIOUS
<1> USE DEF IInv, Recorded
<1>t. mappings \in [Slots -> Nat] /\ m_vMappedInputBuffers \subseteq Slots BY DEF TypeOK
<1>1. CASE UNCHANGED <<mappings, m_vMappedInputBuffers>> BY <1>1
<1>2. CASE /\ mappings' = [mappings EXCEPT ![GetNextInputFrame] = @ + 1]
           /\ m_vMappedInputBuffers' = m_vMappedInputBuffers \union {GetNextInputFrame}
  <2>1. GetNextInputFrame \in Slots BY SlotType DEF GetNextInputFrame, TypeOK
  <2> QED BY <1>2, <1>t, <2>1
<1>3. ASSUME NEW s, mappings' = Unmap({s}), m_vMappedInputBuffers' = Reset(s) PROVE Recorded'
  BY <1>3, <1>t, UnmapType DEF Reset
<1>4. CASE MapResources BY <1>1, <1>2, <1>4 DEF MapResources
<1>5. CASE FetchPacket BY <1>1, <1>3, <1>5 DEF FetchPacket
<1>6. CASE ReleaseInputBuffers BY <1>6 DEF ReleaseInputBuffers
<1>7. CASE ~ (MapResources \/ FetchPacket \/ ReleaseInputBuffers)
  BY <1>1, <1>7 DEF Next, vars, ring, InitializeEncoder, AllocateInputBuffers,
    RegisterInputResources, CopyToDeviceFrame, DoEncode, AllFetched, EndEncode,
    DestroyEncoder, SendEOS, TakePacket, AllTaken
<1> QED BY <1>4, <1>5, <1>6, <1>7

\* The slot of the next picture is none of those in the ring.
LEMMA NextIsFree ==
  ASSUME IInv, pc \in {"ready", "copied", "mapped"}, "slipped" \notin damage
  PROVE  /\ \A k \in m_iGot .. m_iToSend - 1 : Slot(k) # GetNextInputFrame
         /\ GetNextInputFrame \notin InRing
<1>t. m_iToSend \in Nat /\ m_iGot \in Nat BY DEF IInv, TypeOK
<1>1. m_iToSend - m_iGot <= m_nOutputDelay
  <2> HIDE DEF m_nOutputDelay
  <2> QED BY <1>t, Sizes DEF IInv, Room
<1>2. ASSUME NEW k \in m_iGot .. m_iToSend - 1 PROVE Slot(k) # GetNextInputFrame
  <2>1. k \in Nat /\ k < m_iToSend BY <1>t
  <2>2. m_iToSend < k + m_nEncoderBuffer
    <3> HIDE DEF m_nEncoderBuffer, m_nOutputDelay
    <3> QED BY <1>1, <1>t, Sizes
  <2> QED BY <2>1, <2>2, <1>t, SlotsDiffer DEF GetNextInputFrame
<1> QED BY <1>2 DEF InRing

LEMMA MappedStep == IInv /\ [Next]_vars => Mapped'
<1> SUFFICES ASSUME IInv, [Next]_vars, damage' = {}
             PROVE  /\ \A s \in Slots \ m_vMappedInputBuffers' : mappings'[s] = 0
                    /\ \A s \in m_vMappedInputBuffers' : mappings'[s] = 1
                    /\ pc' # "mapped" => m_vMappedInputBuffers' \subseteq InRing'
                    /\ pc' = "mapped" => m_vMappedInputBuffers' \subseteq InRing' \union {GetNextInputFrame'}
                    /\ pc' = "destroyed" => m_vMappedInputBuffers' = {}
  BY DEF Mapped
<1> DEFINE Goal == /\ \A s \in Slots \ m_vMappedInputBuffers' : mappings'[s] = 0
                   /\ \A s \in m_vMappedInputBuffers' : mappings'[s] = 1
                   /\ pc' # "mapped" => m_vMappedInputBuffers' \subseteq InRing'
                   /\ pc' = "mapped" => m_vMappedInputBuffers' \subseteq InRing' \union {GetNextInputFrame'}
                   /\ pc' = "destroyed" => m_vMappedInputBuffers' = {}
<1>t. /\ m_iToSend \in Nat /\ m_iGot \in 0 .. m_iToSend
      /\ mappings \in [Slots -> Nat] /\ m_vMappedInputBuffers \subseteq Slots BY DEF IInv, TypeOK
<1>d. damage = {}
  BY DEF Next, vars, InitializeEncoder, AllocateInputBuffers, RegisterInputResources,
    CopyToDeviceFrame, MapResources, DoEncode, FetchPacket, AllFetched, EndEncode,
    DestroyEncoder, SendEOS, TakePacket, AllTaken, ReleaseInputBuffers
<1>m. Mapped BY DEF IInv
<1>1. ASSUME UNCHANGED ring, pc' = pc PROVE Goal
  BY <1>1, <1>d, <1>m DEF Mapped, InRing, GetNextInputFrame, ring
<1>2. ASSUME UNCHANGED ring, pc # "mapped", pc' \notin {"mapped", "destroyed"} PROVE Goal
  BY <1>2, <1>d, <1>m DEF Mapped, InRing, ring
<1>3. CASE InitializeEncoder BY <1>3, <1>2, ThrowStep DEF InitializeEncoder
<1>4. CASE AllocateInputBuffers BY <1>4, <1>2, ThrowStep DEF AllocateInputBuffers
<1>5. CASE RegisterInputResources BY <1>5, <1>2, ThrowStep DEF RegisterInputResources
<1>6. CASE CopyToDeviceFrame BY <1>6, <1>2, ThrowStep DEF CopyToDeviceFrame
<1>7. CASE MapResources
  <2>1. CASE Throw("EncodeFrame") /\ UNCHANGED <<mappings, m_vMappedInputBuffers>>
    BY <1>7, <2>1, <1>2, ThrowStep DEF MapResources, ring
  <2>2. CASE /\ mappings' = [mappings EXCEPT ![GetNextInputFrame] = @ + 1]
             /\ m_vMappedInputBuffers' = m_vMappedInputBuffers \union {GetNextInputFrame}
             /\ pc' = "mapped"
    <3>1. pc = "copied" /\ UNCHANGED <<m_iToSend, m_iGot>> BY <1>7 DEF MapResources
    <3>2. GetNextInputFrame \in Slots BY <1>t, SlotType DEF GetNextInputFrame
    <3>3. GetNextInputFrame \notin InRing BY <3>1, <1>d, NextIsFree
    <3>4. m_vMappedInputBuffers \subseteq InRing BY <3>1, <1>d, <1>m DEF Mapped
    <3>5. mappings[GetNextInputFrame] = 0 BY <3>2, <3>3, <3>4, <1>d, <1>m DEF Mapped
    <3>6. \A s \in Slots \ m_vMappedInputBuffers' : mappings'[s] = 0
      BY <2>2, <3>2, <1>t, <1>d, <1>m DEF Mapped
    <3>7. \A s \in m_vMappedInputBuffers' : mappings'[s] = 1
      BY <2>2, <3>2, <3>3, <3>4, <3>5, <1>t, <1>d, <1>m DEF Mapped
    <3>8. InRing' = InRing /\ GetNextInputFrame' = GetNextInputFrame
      BY <3>1 DEF InRing, GetNextInputFrame
    <3> QED BY <2>2, <3>4, <3>6, <3>7, <3>8
  <2> QED BY <1>7, <2>1, <2>2 DEF MapResources
<1>8. CASE DoEncode
  <2>1. /\ m_iToSend' = m_iToSend + 1 /\ pc = "mapped" /\ pc' = "fetching"
        /\ UNCHANGED <<m_iGot, m_vMappedInputBuffers, mappings>>
    BY <1>8, <1>d DEF DoEncode
  <2>2. InRing \union {GetNextInputFrame} \subseteq InRing'
    <3>1. m_iToSend \in m_iGot .. m_iToSend' - 1 BY <2>1, <1>t
    <3>2. \A k \in m_iGot .. m_iToSend - 1 : k \in m_iGot .. m_iToSend' - 1 BY <2>1, <1>t
    <3> QED BY <2>1, <3>1, <3>2 DEF InRing, GetNextInputFrame
  <2> QED BY <2>1, <2>2, <1>d, <1>m DEF Mapped
<1>9. CASE FetchPacket
  <2>1. CASE Throw(call) /\ UNCHANGED <<mappings, m_vMappedInputBuffers, m_iGot>>
    BY <1>9, <2>1, <1>2, ThrowStep DEF FetchPacket, ring
  <2>2. CASE /\ mappings' = Unmap({Slot(m_iGot)})
             /\ m_vMappedInputBuffers' = Reset(Slot(m_iGot))
             /\ m_iGot' = m_iGot + 1 /\ pc' = pc
    <3>1. pc = "fetching" /\ m_iToSend' = m_iToSend BY <1>9 DEF FetchPacket
    <3>2. m_vMappedInputBuffers \subseteq InRing BY <3>1, <1>d, <1>m DEF Mapped
    <3>3. m_vMappedInputBuffers' \subseteq InRing'
      <4>1. ASSUME NEW s \in m_vMappedInputBuffers' PROVE s \in InRing'
        <5>1. s \in InRing /\ s # Slot(m_iGot) BY <4>1, <2>2, <3>2 DEF Reset
        <5>2. PICK k \in m_iGot .. m_iToSend - 1 : s = Slot(k) BY <5>1 DEF InRing
        <5>3. k \in m_iGot' .. m_iToSend' - 1 BY <5>1, <5>2, <2>2, <3>1, <1>t
        <5> QED BY <5>2, <5>3 DEF InRing
      <4> QED BY <4>1
    <3>4. \A s \in Slots : mappings'[s] = IF s = Slot(m_iGot) /\ s \in m_vMappedInputBuffers
                                          THEN mappings[s] - 1 ELSE mappings[s]
      BY <2>2, UnmapType DEF IInv
    <3>5. \A s \in Slots \ m_vMappedInputBuffers' : mappings'[s] = 0
      BY <2>2, <3>4, <1>t, <1>d, <1>m DEF Mapped, Reset
    <3>6. \A s \in m_vMappedInputBuffers' : mappings'[s] = 1
      BY <2>2, <3>4, <1>t, <1>d, <1>m DEF Mapped, Reset
    <3> QED BY <2>2, <3>1, <3>3, <3>5, <3>6
  <2> QED BY <1>9, <2>1, <2>2 DEF FetchPacket
<1>10. CASE AllFetched BY <1>10, <1>2 DEF AllFetched
<1>11. ASSUME NEW c, SendEOS(c), pc # "mapped" PROVE Goal
  BY <1>11, <1>2, ThrowStep DEF SendEOS
<1>12. CASE EndEncode \/ DestroyEncoder BY <1>11, <1>12 DEF EndEncode, DestroyEncoder
<1>13. CASE TakePacket BY <1>13, <1>1 DEF TakePacket
<1>14. CASE AllTaken BY <1>14, <1>2 DEF AllTaken
<1>15. CASE ReleaseInputBuffers
  <2>1. mappings' = Unmap(Slots) /\ m_vMappedInputBuffers' = {} BY <1>15 DEF ReleaseInputBuffers
  <2>2. \A s \in Slots : mappings'[s] = 0
    BY <2>1, <1>t, <1>d, <1>m, UnmapType DEF Mapped, IInv
  <2> QED BY <1>15, <2>1, <2>2 DEF ReleaseInputBuffers
<1>16. CASE UNCHANGED vars BY <1>16, <1>1 DEF vars
<1> QED BY <1>3, <1>4, <1>5, <1>6, <1>7, <1>8, <1>9, <1>10, <1>12, <1>13, <1>14, <1>15, <1>16 DEF Next

\* Finishing pictures moves them from device frame to bitstream unharmed: sent
\* may grow by the picture in the frame of its own slot.
LEMMA FinishIntact ==
  ASSUME TypeOK, QueuedFramesIntact, m_iGot <= encoded, "slipped" \notin damage,
         NEW n \in Nat, Finish(n), encoded <= n, n <= m_iGot + m_nEncoderBuffer,
         NEW to \in Nat, m_iToSend' = to, n <= to, m_iGot' = m_iGot, input' = input,
         \A k \in 0 .. m_iToSend - 1 : sent'[k + 1] = sent[k + 1],
         \A k \in m_iToSend .. to - 1 : sent'[k + 1] = input[Slot(k)]
  PROVE  QueuedFramesIntact'
<1>t. m_iToSend \in Nat /\ m_iGot \in Nat /\ encoded \in 0 .. m_iToSend BY DEF TypeOK
<1>p. n \in Nat /\ encoded <= n /\ m_iToSend' = to /\ to \in Nat /\ n <= to OBVIOUS
<1>n. m_nEncoderBuffer \in Nat BY Sizes
<1>e. encoded' = n BY DEF Finish
<1>i. \A k \in encoded .. to - 1 : input[Slot(k)] = sent'[k + 1]
  BY <1>t DEF QueuedFramesIntact
<1>1. ASSUME NEW k \in m_iGot .. n - 1 PROVE output'[Slot(k)] = sent'[k + 1]
  <2>1. CASE k < encoded
    <3>1. k \in 0 .. encoded - 1 /\ k \in 0 .. m_iToSend - 1 /\ k \in m_iGot .. encoded - 1
      BY <2>1, <1>t
    <3>2. n <= k + m_nEncoderBuffer
      <4> HIDE DEF m_nEncoderBuffer
      <4> QED BY <1>t, <1>n, <3>1
    <3>3. output'[Slot(k)] = output[Slot(k)] BY <3>1, <3>2, FinishSlot
    <3> QED BY <3>1, <3>3 DEF QueuedFramesIntact
  <2>2. CASE k >= encoded
    <3>1. k \in encoded .. n - 1 /\ k \in encoded .. to - 1
      BY <2>2, <1>t, <1>p, <1>1, <1>e
    <3>2. output'[Slot(k)] = input[Slot(k)] BY <3>1, FinishSlot
    <3> QED BY <3>1, <3>2, <1>i
  <2> QED BY <2>1, <2>2, <1>t, <1>e
<1>2. ASSUME NEW k \in n .. to - 1 PROVE input'[Slot(k)] = sent'[k + 1]
  <2>1. k \in encoded .. to - 1 BY <1>e, <1>t, <1>p, <1>2
  <2> QED BY <2>1, <1>i
<1> QED BY <1>1, <1>2, <1>e, <1>p DEF QueuedFramesIntact

LEMMA IntactStep == IInv /\ [Next]_vars => QueuedFramesIntact'
<1> SUFFICES ASSUME IInv, [Next]_vars, "slipped" \notin damage' PROVE QueuedFramesIntact'
  BY DEF QueuedFramesIntact
<1>t. /\ m_iToSend \in Nat /\ m_iGot \in 0 .. m_iToSend /\ encoded \in 0 .. m_iToSend
      /\ m_iGot <= encoded /\ QueuedFramesIntact /\ TypeOK /\ Len(sent) = m_iToSend
  BY DEF IInv, TypeOK, Counters
<1>d. "slipped" \notin damage
  BY DEF Next, vars, InitializeEncoder, AllocateInputBuffers, RegisterInputResources,
    CopyToDeviceFrame, MapResources, DoEncode, FetchPacket, AllFetched, EndEncode,
    DestroyEncoder, SendEOS, TakePacket, AllTaken, ReleaseInputBuffers
<1>1. ASSUME UNCHANGED pictures, UNCHANGED <<m_iToSend, m_iGot>> PROVE QueuedFramesIntact'
  BY <1>1, <1>d, <1>t DEF QueuedFramesIntact, pictures
<1>2. CASE InitializeEncoder BY <1>2, <1>1 DEF InitializeEncoder, ring
<1>3. CASE AllocateInputBuffers BY <1>3, <1>1 DEF AllocateInputBuffers, ring
<1>4. CASE RegisterInputResources BY <1>4, <1>1 DEF RegisterInputResources, ring
<1>5. CASE CopyToDeviceFrame
  <2>1. pc = "ready" /\ UNCHANGED <<m_iToSend, m_iGot, output, encoded, sent>>
    BY <1>5 DEF CopyToDeviceFrame, ring
  <2>f. PICK f : input' = [input EXCEPT ![GetNextInputFrame] = f]
    BY <1>5 DEF CopyToDeviceFrame
  <2>2. \A k \in m_iGot .. m_iToSend - 1 : Slot(k) # GetNextInputFrame
    BY <2>1, <1>d, NextIsFree
  <2>3. ASSUME NEW k \in encoded .. m_iToSend - 1 PROVE input'[Slot(k)] = input[Slot(k)]
    <3>1. k \in m_iGot .. m_iToSend - 1 /\ k \in Nat BY <1>t
    <3>2. Slot(k) \in Slots /\ input \in [Slots -> Frames \union {NoFrame}]
      BY <3>1, SlotType, <1>t DEF TypeOK
    <3> QED BY <2>f, <2>2, <3>1, <3>2
  <2> QED BY <2>1, <2>3, <1>t, <1>d DEF QueuedFramesIntact
<1>6. CASE MapResources BY <1>6, <1>1 DEF MapResources
<1>7. CASE DoEncode
  <2>1. CASE UNCHANGED <<m_iToSend, sent, encoded, output>>
    BY <1>7, <2>1, <1>1 DEF DoEncode, pictures
  <2>2. ASSUME NEW n \in encoded .. m_iToSend + 1, Finish(n), m_iToSend' = m_iToSend + 1,
               sent' = Append(sent, input[GetNextInputFrame])
        PROVE  QueuedFramesIntact'
    <3>1. pc = "mapped" /\ m_iGot' = m_iGot /\ input' = input BY <1>7 DEF DoEncode
    <3>2. n \in Nat /\ encoded <= n /\ n <= m_iToSend' /\ m_iToSend' \in Nat BY <2>2, <1>t
    <3>3. n <= m_iGot + m_nEncoderBuffer
      <4>1. m_iToSend - m_iGot <= m_nOutputDelay
        <5> HIDE DEF m_nOutputDelay
        <5> QED BY <3>1, <1>t, <1>d, Sizes DEF IInv, Room
      <4> HIDE DEF m_nEncoderBuffer, m_nOutputDelay
      <4> QED BY <4>1, <1>t, Sizes
    <3>4. /\ \A k \in 0 .. m_iToSend - 1 : sent'[k + 1] = sent[k + 1]
          /\ sent'[m_iToSend + 1] = input[GetNextInputFrame]
      <4> DEFINE f == input[GetNextInputFrame]
      <4>1. sent' = Append(sent, f) BY <2>2
      <4>2. sent \in Seq(Frames \union {NoFrame}) BY <1>t DEF TypeOK
      <4> HIDE DEF f
      <4>3. \A k \in 0 .. m_iToSend - 1 : sent'[k + 1] = sent[k + 1] BY <4>1, <4>2, <1>t
      <4>4. sent'[m_iToSend + 1] = f BY <4>1, <4>2, <1>t
      <4> QED BY <4>3, <4>4 DEF f
    <3>5. \A k \in m_iToSend .. m_iToSend' - 1 : sent'[k + 1] = input[Slot(k)]
      <4>1. \A k \in m_iToSend .. m_iToSend' - 1 : k = m_iToSend BY <2>2, <1>t
      <4> QED BY <4>1, <3>4 DEF GetNextInputFrame
    <3> QED BY <2>2, <3>1, <3>2, <3>3, <3>4, <3>5, <1>t, <1>d, FinishIntact
  <2> QED BY <1>7, <2>1, <2>2 DEF DoEncode
<1>8. CASE FetchPacket
  <2>1. UNCHANGED <<m_iToSend, pictures>> /\ (m_iGot' = m_iGot \/ m_iGot' = m_iGot + 1)
    BY <1>8 DEF FetchPacket
  <2> QED BY <2>1, <1>t, <1>d DEF QueuedFramesIntact, pictures
<1>9. CASE AllFetched BY <1>9, <1>1 DEF AllFetched, ring
<1>10. ASSUME NEW c, SendEOS(c), pc # "fetching" PROVE QueuedFramesIntact'
  <2>1. UNCHANGED <<m_iToSend, m_iGot, made, input, sent>> BY <1>10 DEF SendEOS, ring
  <2>2. CASE UNCHANGED <<encoded, output>> BY <2>1, <2>2, <1>1 DEF pictures
  <2>3. CASE Finish(m_iToSend)
    <3>1. m_iToSend <= m_iGot + m_nEncoderBuffer
      <4>1. m_iToSend - m_iGot <= m_nOutputDelay
        <5> HIDE DEF m_nOutputDelay
        <5> QED BY <1>10, <1>t, <1>d, Sizes DEF IInv, Room
      <4> HIDE DEF m_nEncoderBuffer, m_nOutputDelay
      <4> QED BY <4>1, <1>t, Sizes
    <3>2. encoded <= m_iToSend BY <1>t
    <3>3. /\ m_iToSend' \in Nat /\ m_iToSend <= m_iToSend' /\ m_iGot' = m_iGot /\ input' = input
          /\ \A k \in 0 .. m_iToSend - 1 : sent'[k + 1] = sent[k + 1]
      BY <2>1, <1>t
    <3>4. \A k \in m_iToSend .. m_iToSend' - 1 : sent'[k + 1] = input[Slot(k)] BY <2>1, <1>t
    <3> QED BY <2>3, <3>1, <3>2, <3>3, <3>4, <1>t, <1>d, FinishIntact
  <2> QED BY <1>10, <2>2, <2>3 DEF SendEOS
<1>11. CASE EndEncode \/ DestroyEncoder BY <1>10, <1>11 DEF EndEncode, DestroyEncoder
<1>12. CASE TakePacket BY <1>12, <1>1 DEF TakePacket, ring
<1>13. CASE AllTaken BY <1>13, <1>1 DEF AllTaken, ring
<1>14. CASE ReleaseInputBuffers BY <1>14, <1>1 DEF ReleaseInputBuffers
<1>15. CASE UNCHANGED vars BY <1>15, <1>1 DEF vars, ring
<1> QED BY <1>2, <1>3, <1>4, <1>5, <1>6, <1>7, <1>8, <1>9, <1>11, <1>12, <1>13, <1>14, <1>15 DEF Next

-----------------------------------------------------------------------------
(* The theorems. *)

LEMMA IInvStep == IInv /\ [Next]_vars => IInv'
  BY TypeStep, AllocationStep, CountersStep, OpenCallStep, DriverStep, RoomStep,
     RecordedStep, MappedStep, IntactStep DEF IInv

LEMMA Invariance == Spec => []IInv
  BY InitIInv, IInvStep, PTL DEF Spec

\* TypeOK is invariant: among the types, the ends of the queue never cross and
\* no device frame is unmapped more often than it was mapped
\* (NvEncoder.cpp:354, 489-493, 594-615).
THEOREM TypeCorrect == Spec => []TypeOK
<1>1. IInv => TypeOK BY DEF IInv
<1> QED BY <1>1, Invariance, PTL

\* Unless a fetch inside EncodeFrame failed, the frame GetNextInputFrame returns
\* belongs to no picture in the ring (NvEncoder.cpp:328-332).
THEOREM RoomTheorem == Spec => []RoomForNextFrame
<1>1. IInv => RoomForNextFrame
  <2> HIDE DEF m_nOutputDelay
  <2> QED BY Sizes DEF IInv, Room, RoomForNextFrame
<1> QED BY <1>1, Invariance, PTL

\* Unless a fetch inside EncodeFrame failed, no picture is overwritten between
\* its submission and the fetch of its packet (NvEncoder.cpp:356-379, 469-504).
THEOREM IntactTheorem == Spec => []QueuedFramesIntact
<1>1. IInv => QueuedFramesIntact BY DEF IInv
<1> QED BY <1>1, Invariance, PTL

\* nvEncLockBitstream never waits for a picture the driver holds back, whatever
\* failed before (NvEncoder.cpp:472-479).
THEOREM NoWaitTheorem == Spec => []NeverWaitsForUnfinished
<1>1. ASSUME IInv PROVE NeverWaitsForUnfinished
  <2>1. m_iToSend \in Nat /\ m_iGot \in Nat /\ encoded \in Nat BY <1>1 DEF IInv, TypeOK
  <2>2. Driver BY <1>1 DEF IInv
  <2> HIDE DEF m_nOutputDelay, HeldBack
  <2> QED BY <2>1, <2>2, Sizes DEF Driver, NeverWaitsForUnfinished, FetchEnd
<1> QED BY <1>1, Invariance, PTL

\* DestroyEncoder leaves no input frame mapped unless a picture was refused, a
\* fetch inside EncodeFrame failed or the driver keeps a mapping
\* (NvEncoder.cpp:576-615).
THEOREM ReleaseTheorem == Spec => []MappingsReleased
<1>1. IInv => MappingsReleased BY DEF IInv, Mapped, MappingsReleased
<1> QED BY <1>1, Invariance, PTL

-----------------------------------------------------------------------------
(* How far the two findings about failed calls reach: when the code still    *)
(* does what the documentation says.                                         *)

\* Without a refused picture and a failed fetch inside EncodeFrame the caller
\* only ever copies to an unmapped frame (NvEncoder.cpp:328-379).
THEOREM UnmappedTheorem == Spec => [](damage = {} => CopiesToUnmapped)
<1>1. ASSUME IInv, damage = {}, pc = "copied" PROVE mappings[GetNextInputFrame] = 0
  <2>1. GetNextInputFrame \notin InRing BY <1>1, NextIsFree
  <2>2. GetNextInputFrame \in Slots BY <1>1, SlotType DEF IInv, TypeOK, GetNextInputFrame
  <2> QED BY <1>1, <2>1, <2>2 DEF IInv, Mapped
<1>2. IInv => (damage = {} => CopiesToUnmapped) BY <1>1 DEF CopiesToUnmapped
<1> QED BY <1>2, Invariance, PTL

\* Every device frame is on record once CreateEncoder has returned.
OnRecord ==
  /\ \/ made > 0 /\ pc # "destroyed"
     \/ pc \in {"ready", "copied", "mapped", "submitted", "returned", "ended"}
     \/ pc = "fetching" /\ call # "FlushEncoder"
     => m_vInputFrames = allocated
  /\ pc \in {"new", "allocating", "registering"} => made = 0 /\ call = "CreateEncoder"
  /\ pc = "destroyed" /\ made > 0 => allocated = 0 \/ "unreleased" \in damage

LEMMA OnRecordStep == IInv /\ OnRecord /\ [Next]_vars => OnRecord'
<1> SUFFICES ASSUME IInv, OnRecord, [Next]_vars PROVE OnRecord' OBVIOUS
<1> USE Sizes DEF OnRecord
<1> HIDE DEF m_nEncoderBuffer, m_nOutputDelay, HeldBack
<1>t. /\ m_vInputFrames \in Nat /\ allocated \in Nat /\ made \in Nat
      /\ pc = "registering" => allocated = m_nEncoderBuffer
  BY ClientConfig DEF IInv, TypeOK, Allocation
<1>1. CASE InitializeEncoder BY <1>1, <1>t DEF InitializeEncoder, pictures, memory, Throw, AfterThrow
<1>2. CASE AllocateInputBuffers BY <1>2, <1>t DEF AllocateInputBuffers, pictures, Throw, AfterThrow
<1>3. CASE RegisterInputResources
  BY <1>3, <1>t DEF RegisterInputResources, pictures, Throw, AfterThrow
<1>4. CASE CopyToDeviceFrame BY <1>4, <1>t, ThrowStep DEF CopyToDeviceFrame, memory
<1>5. CASE MapResources BY <1>5, <1>t DEF MapResources, pictures, memory, Throw, AfterThrow
<1>6. CASE DoEncode BY <1>6, <1>t DEF DoEncode, memory, Throw, AfterThrow
<1>7. CASE FetchPacket BY <1>7, <1>t DEF FetchPacket, pictures, memory, Throw, AfterThrow
<1>8. CASE AllFetched BY <1>8, <1>t DEF AllFetched, pictures, memory
<1>9. CASE EndEncode BY <1>9, <1>t DEF EndEncode, SendEOS, memory, Throw, AfterThrow
<1>10. CASE DestroyEncoder BY <1>10, <1>t DEF DestroyEncoder, SendEOS, memory, Throw, AfterThrow
<1>11. CASE TakePacket BY <1>11 DEF TakePacket, pictures, memory
<1>12. CASE AllTaken BY <1>12 DEF AllTaken, pictures, memory
<1>13. CASE ReleaseInputBuffers
  <2>1. pc = "flushed" /\ pc' = "destroyed" /\ made' = made BY <1>13 DEF ReleaseInputBuffers, pictures
  <2>2. PICK lost \in 0 .. m_vInputFrames :
          /\ allocated' = allocated - m_vInputFrames + lost
          /\ lost = 0 \/ "unreleased" \in damage'
    BY <1>13 DEF ReleaseInputBuffers
  <2> QED BY <2>1, <2>2, <1>t
<1>14. CASE UNCHANGED vars BY <1>14 DEF vars, pictures, memory
<1> QED BY <1>1, <1>2, <1>3, <1>4, <1>5, <1>6, <1>7, <1>8, <1>9, <1>10, <1>11, <1>12, <1>13, <1>14 DEF Next

\* Destroying a session that has come to encode a picture frees every device
\* frame the driver lets go of, whatever failed in between
\* (NvEncoder.cpp:279-288, 594-630, NvEncoderCuda.cpp:84-120).
THEOREM FreedTheorem == Spec => [](made > 0 => DestroyFreesFrames)
<1>1. Init => OnRecord BY DEF Init, OnRecord
<1>2. OnRecord => (made > 0 => DestroyFreesFrames) BY DEF OnRecord, DestroyFreesFrames
<1> QED BY <1>1, <1>2, OnRecordStep, Invariance, PTL DEF Spec

-----------------------------------------------------------------------------
(***************************************************************************)
(* NvEncoder implements EncoderQueue, and as long as no call into the      *)
(* driver fails every picture comes back.                                  *)
(*                                                                         *)
(* What the caller gets is read from the ring long after it was written,   *)
(* and after a fetch inside EncodeFrame has failed the ring may overflow:  *)
(* old pictures are then overwritten, and QueuedFramesIntact says nothing. *)
(* The argument is that the last m_nEncoderBuffer pictures sent are intact *)
(* whatever failed (Recent), and that packets which reach the caller are   *)
(* fetched from those only: in nvenc_encode EndEncode clears what          *)
(* EncodeFrame fetched, and a file test ends at the first failure.  All    *)
(* this is QInv, inductive together with IInv.                             *)
(***************************************************************************)

\* Pictures are sent in the order they were made, and the one that is being sent
\* is the newest.
Numbered ==
  /\ \A k \in 1 .. Len(sent) : sent[k] \in 1 .. made
  /\ \A j, k \in 1 .. Len(sent) : j < k => sent[j] < sent[k]
  /\ pc \in {"copied", "mapped"} => /\ input[GetNextInputFrame] = made /\ made \in Frames
                                    /\ \A k \in 1 .. Len(sent) : sent[k] < made

Window == m_iToSend - encoded <= HeldBack

\* The last pictures sent, as many as the ring has slots, are intact.
Recent ==
  \A k \in 0 .. m_iToSend - 1 : m_iToSend <= k + m_nEncoderBuffer =>
    /\ k < encoded => output[Slot(k)] = sent[k + 1]
    /\ k >= encoded => input[Slot(k)] = sent[k + 1]

\* A file test goes on only while nothing has failed, and EndEncode starts with
\* at most the output delay in the ring.
Session ==
  /\ ~FlushEachFrame /\ pc \notin {"abandoned", "flushed", "destroyed"} => failures = 0
  /\ failures = 0 => damage = {}
  /\ pc = "submitted" \/ (pc = "fetching" /\ call = "EndEncode") =>
       m_iToSend - m_iGot <= m_nOutputDelay
  /\ pc = "fetching" => call # "CreateEncoder"
  /\ pc = "returned" => call = "EndEncode" \/ (call = "EncodeFrame" /\ ~FlushEachFrame)

\* vPacket holds the pictures fetched last, if the caller is to get it at all,
\* and what the caller has got before is older.
Kept == call = "EndEncode" \/ (call = "EncodeFrame" /\ ~FlushEachFrame)
Before == m_iGot - Len(vPacket)
Fetched ==
  /\ Len(vPacket) <= m_iGot
  /\ Kept => \A k \in 1 .. Len(vPacket) : vPacket[k] = sent[Before + k]
  /\ \A k \in 1 .. Len(taken) : \E j \in 1 .. Before : taken[k] = sent[j]

\* As long as nothing has failed nothing is left out.
Complete ==
  failures = 0 =>
    /\ \A k \in 1 .. m_iToSend : sent[k] = k
    /\ Len(taken) + Len(vPacket) = m_iGot
    /\ \A k \in 1 .. Len(taken) : taken[k] = k
    /\ made = IF pc \in {"copied", "mapped"} THEN m_iToSend + 1 ELSE m_iToSend
    /\ pc \in {"new", "allocating", "registering"} => m_iToSend = 0
    /\ pc \notin {"half_made", "abandoned"}

\* Where a call ends, and when vPacket is empty.
Settled ==
  failures = 0 =>
    /\ pc \notin {"fetching", "returned"} => vPacket = <<>>
    /\ FlushEachFrame /\ pc \in {"ready", "copied", "mapped"} => m_iGot = m_iToSend
    /\ FlushEachFrame /\ pc = "fetching" /\ call = "EncodeFrame" =>
         m_iToSend = m_iGot + 1 /\ vPacket = <<>>
    /\ pc = "fetching" /\ call = "FlushEncoder" => m_iGot = m_iToSend /\ vPacket = <<>>
    /\ pc = "returned" /\ call = "EndEncode" => m_iGot = m_iToSend
    /\ pc = "ended" => m_iGot = m_iToSend

QInv == Numbered /\ Window /\ Recent /\ Session /\ Fetched /\ Complete /\ Settled

LEMMA InitQInv == Init => QInv
<1> SUFFICES ASSUME Init PROVE QInv OBVIOUS
<1> USE Sizes DEF Init
<1> HIDE DEF m_nEncoderBuffer, m_nOutputDelay, HeldBack
<1>1. Numbered /\ Window BY DEF Numbered, Window
<1>2. Recent BY DEF Recent
<1>3. Session BY DEF Session
<1>4. Fetched BY DEF Fetched, Before
<1>5. Complete /\ Settled BY DEF Complete, Settled
<1> QED BY <1>1, <1>2, <1>3, <1>4, <1>5 DEF QInv

-----------------------------------------------------------------------------
(* What the steps change, for the parts that need not look into every one. *)

LEMMA Types ==
  ASSUME TypeOK
  PROVE  /\ m_iToSend \in Nat /\ m_iGot \in Nat /\ encoded \in Nat /\ made \in Nat
         /\ m_iGot <= m_iToSend /\ encoded <= m_iToSend /\ failures \in Nat
         /\ sent \in Seq(Frames \union {NoFrame}) /\ taken \in Seq(Frames \union {NoFrame})
         /\ vPacket \in Seq(Frames \union {NoFrame})
         /\ input \in [Slots -> Frames \union {NoFrame}]
         /\ Frames \union {NoFrame} \subseteq Nat
  BY ClientConfig DEF TypeOK, Frames, NoFrame

\* A step that neither copies, sends, finishes, fetches nor takes a picture.
Quiet ==
  /\ UNCHANGED <<m_iToSend, m_iGot, pictures, taken>>
  /\ pc' \in {"copied", "mapped"} => pc \in {"copied", "mapped"}
  /\ (vPacket' = vPacket /\ call' = call) \/ vPacket' = <<>>

LEMMA StepCases ==
  ASSUME [Next]_vars
  PROVE  \/ CopyToDeviceFrame \/ DoEncode \/ FetchPacket \/ TakePacket
         \/ EndEncode \/ DestroyEncoder \/ Quiet
<1>1. InitializeEncoder => Quiet
  BY DEF InitializeEncoder, Quiet, ring, Throw, AfterThrow
<1>2. AllocateInputBuffers => Quiet
  BY DEF AllocateInputBuffers, Quiet, ring, Throw, AfterThrow
<1>3. RegisterInputResources => Quiet
  BY DEF RegisterInputResources, Quiet, ring, Throw, AfterThrow
<1>4. MapResources => Quiet BY DEF MapResources, Quiet, Throw, AfterThrow
<1>5. AllFetched => Quiet BY DEF AllFetched, Quiet, ring
<1>6. AllTaken => Quiet BY DEF AllTaken, Quiet, ring
<1>7. ReleaseInputBuffers => Quiet BY DEF ReleaseInputBuffers, Quiet
<1>8. UNCHANGED vars => Quiet BY DEF vars, ring, Quiet
<1> QED BY <1>1, <1>2, <1>3, <1>4, <1>5, <1>6, <1>7, <1>8 DEF Next

\* Sending a picture, or having it refused.
LEMMA SendStep ==
  ASSUME TypeOK, Counters, DoEncode
  PROVE  /\ pc = "mapped" /\ UNCHANGED <<m_iGot, made, input, taken>>
         /\ \/ /\ m_iToSend' = m_iToSend + 1 /\ Len(sent') = Len(sent) + 1
               /\ \A k \in 1 .. Len(sent) : sent'[k] = sent[k]
               /\ sent'[m_iToSend + 1] = input[GetNextInputFrame]
               /\ \E n \in encoded .. m_iToSend + 1 :
                    m_iToSend + 1 - n <= HeldBack /\ Finish(n)
               /\ pc' = "fetching" /\ UNCHANGED <<call, vPacket, failures, damage>>
            \/ /\ Throw("EncodeFrame") /\ damage' = damage \union {"refused"}
               /\ UNCHANGED <<m_iToSend, sent, encoded, output>>
<1>1. pc = "mapped" /\ UNCHANGED <<m_iGot, made, input, taken>> BY DEF DoEncode
<1>2. CASE sent' = Append(sent, input[GetNextInputFrame])
  <2> DEFINE f == input[GetNextInputFrame]
  <2>1. sent' = Append(sent, f) BY <1>2
  <2> HIDE DEF f
  <2>2. /\ Len(sent') = Len(sent) + 1 /\ \A k \in 1 .. Len(sent) : sent'[k] = sent[k]
        /\ sent'[Len(sent) + 1] = f
    BY <2>1, Types
  <2>3. Len(sent) = m_iToSend BY DEF Counters
  <2>4. sent'[m_iToSend + 1] = f BY <2>2, <2>3
  <2>5. sent # sent' BY <2>2, Types
  <2> QED BY <1>1, <2>2, <2>4, <2>5 DEF DoEncode, f
<1>3. CASE sent' # Append(sent, input[GetNextInputFrame])
  BY <1>1, <1>3 DEF DoEncode
<1> QED BY <1>2, <1>3

\* The end-of-stream picture.
LEMMA EndStep ==
  ASSUME EndEncode \/ DestroyEncoder
  PROVE  /\ pc \notin {"copied", "mapped", "fetching", "returned"}
         /\ UNCHANGED <<m_iToSend, m_iGot, made, input, sent, taken, damage>>
         /\ vPacket' = <<>> /\ pc' \notin {"copied", "mapped"}
         /\ Finish(m_iToSend) \/ UNCHANGED <<encoded, output>>
  BY DEF EndEncode, DestroyEncoder, SendEOS, ring, Throw, AfterThrow

-----------------------------------------------------------------------------
(* Every step keeps the parts. *)

LEMMA NumberedStep == IInv /\ QInv /\ [Next]_vars => Numbered'
<1> SUFFICES ASSUME IInv, QInv, [Next]_vars PROVE Numbered' OBVIOUS
<1>t. Numbered /\ TypeOK /\ Counters BY DEF IInv, QInv
<1>1. CASE CopyToDeviceFrame
  <2>1. made' = made + 1 /\ made < MaxFrames /\ UNCHANGED <<m_iToSend, sent>>
    BY <1>1 DEF CopyToDeviceFrame, ring
  <2>2. GetNextInputFrame \in Slots BY <1>t, SlotType, Types DEF GetNextInputFrame
  <2>3. pc' \in {"copied", "mapped"} => input'[GetNextInputFrame'] = made'
    <3>1. pc' \in {"copied", "mapped"} => input' = [input EXCEPT ![GetNextInputFrame] = made + 1]
      BY <1>1, ThrowStep DEF CopyToDeviceFrame
    <3> QED BY <3>1, <2>1, <2>2, <1>t, Types DEF GetNextInputFrame
  <2>4. made' \in Frames BY <2>1, <1>t, Types, ClientConfig DEF Frames
  <2> HIDE DEF GetNextInputFrame
  <2>5. \A k \in 1 .. Len(sent) : sent[k] \in 1 .. made' /\ sent[k] < made'
    BY <2>1, <1>t, Types DEF Numbered
  <2> QED BY <2>1, <2>3, <2>4, <2>5, <1>t DEF Numbered
<1>2. CASE DoEncode
  <2>1. pc = "mapped" /\ UNCHANGED <<m_iGot, made, input, taken>> BY <1>2, <1>t, SendStep
  <2>2. CASE Throw("EncodeFrame") /\ UNCHANGED sent
    BY <2>1, <2>2, <1>t DEF Numbered, Throw, AfterThrow
  <2>3. CASE /\ Len(sent') = Len(sent) + 1 /\ \A k \in 1 .. Len(sent) : sent'[k] = sent[k]
             /\ sent'[m_iToSend + 1] = input[GetNextInputFrame] /\ pc' = "fetching"
    <3>1. /\ input[GetNextInputFrame] = made /\ made \in 1 .. made
          /\ \A k \in 1 .. Len(sent) : sent[k] < made
      BY <2>1, <1>t, Types DEF Numbered, Frames
    <3>2. Len(sent) = m_iToSend /\ m_iToSend \in Nat BY <1>t, Types DEF Counters
    <3>3. sent'[Len(sent) + 1] = made BY <2>3, <3>1, <3>2
    <3> HIDE DEF GetNextInputFrame
    <3>4. \A k \in 1 .. Len(sent') : k \in 1 .. Len(sent) \/ k = Len(sent) + 1
      BY <2>3, <3>2
    <3>5. \A k \in 1 .. Len(sent') : sent'[k] \in 1 .. made'
      BY <2>1, <2>3, <3>1, <3>3, <3>4, <1>t DEF Numbered
    <3>6. ASSUME NEW j \in 1 .. Len(sent'), NEW k \in 1 .. Len(sent'), j < k
          PROVE  sent'[j] < sent'[k]
      <4>1. j \in 1 .. Len(sent) BY <3>2, <3>6, <2>3
      <4>2. CASE k \in 1 .. Len(sent) BY <4>1, <4>2, <3>6, <2>3, <1>t DEF Numbered
      <4>3. CASE k = Len(sent) + 1 BY <4>1, <4>3, <2>3, <3>1, <3>3
      <4> QED BY <3>4, <4>2, <4>3
    <3> QED BY <2>3, <3>5, <3>6 DEF Numbered
  <2> QED BY <1>2, <1>t, <2>2, <2>3, SendStep
<1>3. CASE ~CopyToDeviceFrame /\ ~DoEncode
  <2>1. /\ UNCHANGED <<made, sent, input, m_iToSend>>
        /\ pc' \in {"copied", "mapped"} => pc \in {"copied", "mapped"}
    <3>1. CASE FetchPacket
      BY <3>1 DEF FetchPacket, pictures, Throw, AfterThrow
    <3>2. CASE TakePacket BY <3>2 DEF TakePacket, pictures, ring
    <3>3. CASE EndEncode \/ DestroyEncoder BY <3>3, EndStep
    <3>4. CASE Quiet BY <3>4 DEF Quiet, pictures
    <3> QED BY <1>3, <3>1, <3>2, <3>3, <3>4, StepCases
  <2> QED BY <2>1, <1>t DEF Numbered, GetNextInputFrame
<1> QED BY <1>1, <1>2, <1>3

LEMMA WindowStep == IInv /\ QInv /\ [Next]_vars => Window'
<1> SUFFICES ASSUME IInv, QInv, [Next]_vars PROVE Window' OBVIOUS
<1>t. Window /\ TypeOK /\ Counters BY DEF IInv, QInv
<1> HIDE DEF HeldBack
<1>f. ASSUME NEW n \in Nat, Finish(n), m_iToSend' - n <= HeldBack PROVE Window'
  BY <1>f DEF Window, Finish
<1>1. CASE DoEncode
  <2>1. CASE UNCHANGED <<m_iToSend, encoded>> BY <2>1, <1>t DEF Window
  <2>2. CASE /\ m_iToSend' = m_iToSend + 1
             /\ \E n \in encoded .. m_iToSend + 1 : m_iToSend + 1 - n <= HeldBack /\ Finish(n)
    BY <2>2, <1>f, <1>t, Types
  <2> QED BY <1>1, <1>t, <2>1, <2>2, SendStep
<1>2. CASE EndEncode \/ DestroyEncoder
  <2>1. m_iToSend' = m_iToSend /\ (Finish(m_iToSend) \/ UNCHANGED encoded) BY <1>2, EndStep
  <2>2. m_iToSend - m_iToSend <= HeldBack BY <1>t, Types, Sizes
  <2> QED BY <2>1, <2>2, <1>f, <1>t, Types DEF Window
<1>3. CASE ~(DoEncode \/ EndEncode \/ DestroyEncoder)
  <2>1. UNCHANGED <<m_iToSend, encoded>>
    BY <1>3, StepCases DEF CopyToDeviceFrame, FetchPacket, TakePacket, Quiet, pictures, ring
  <2> QED BY <2>1, <1>t DEF Window
<1> QED BY <1>1, <1>2, <1>3

\* Finishing keeps the last pictures intact: at most as many as the driver holds
\* back are moved, and no two of the last have the same slot.
LEMMA FinishRecent ==
  ASSUME TypeOK, Window, Recent,
         NEW to \in Nat, m_iToSend' = to, to \in {m_iToSend, m_iToSend + 1},
         NEW n \in encoded .. to, Finish(n), input' = input,
         \A k \in 0 .. m_iToSend - 1 : sent'[k + 1] = sent[k + 1],
         \A k \in m_iToSend .. to - 1 : sent'[k + 1] = input[Slot(k)]
  PROVE  Recent'
<1> USE Sizes
<1> HIDE DEF m_nEncoderBuffer, m_nOutputDelay, HeldBack, Slot
<1>t. m_iToSend \in Nat /\ encoded \in 0 .. m_iToSend /\ n \in Nat /\ encoded' = n
  BY Types DEF Finish
<1>1. SUFFICES ASSUME NEW k \in 0 .. to - 1, to <= k + m_nEncoderBuffer
               PROVE  /\ k < n => output'[Slot(k)] = sent'[k + 1]
                      /\ k >= n => input[Slot(k)] = sent'[k + 1]
  BY <1>t DEF Recent
<1>k. k \in Nat /\ m_iToSend <= k + m_nEncoderBuffer BY <1>1, <1>t
<1>2. CASE k >= encoded
  <2>1. input[Slot(k)] = sent'[k + 1]
    <3>1. CASE k < m_iToSend
      <4>1. k \in 0 .. m_iToSend - 1 BY <3>1, <1>k, <1>t
      <4> QED BY <4>1, <1>2, <1>k, <1>t DEF Recent
    <3>2. CASE k >= m_iToSend
      <4>1. k \in m_iToSend .. to - 1 BY <3>2, <1>1, <1>t
      <4> QED BY <4>1
    <3> QED BY <3>1, <3>2, <1>k, <1>t
  <2>2. ASSUME k < n PROVE output'[Slot(k)] = input[Slot(k)]
    <3>1. k \in encoded .. n - 1 BY <2>2, <1>2, <1>k, <1>t
    <3> QED BY <3>1, <1>t, FinishSlot
  <2> QED BY <2>1, <2>2
<1>3. CASE k < encoded
  <2>1. k \in 0 .. encoded - 1 /\ k \in 0 .. m_iToSend - 1 /\ k < n BY <1>3, <1>k, <1>t
  <2>2. n <= k + m_nEncoderBuffer BY <1>1, <1>k, <1>t
  <2>3. output'[Slot(k)] = output[Slot(k)] BY <2>1, <2>2, <1>t, FinishSlot
  <2>4. output[Slot(k)] = sent[k + 1] BY <2>1, <1>3, <1>k, <1>t DEF Recent
  <2> QED BY <2>1, <2>3, <2>4, <1>k, <1>t
<1> QED BY <1>2, <1>3, <1>k, <1>t

LEMMA RecentStep == IInv /\ QInv /\ [Next]_vars => Recent'
<1> SUFFICES ASSUME IInv, QInv, [Next]_vars PROVE Recent' OBVIOUS
<1> USE Sizes
<1> HIDE DEF m_nEncoderBuffer, m_nOutputDelay, HeldBack, Slot
<1>t. Recent /\ Window /\ TypeOK /\ Counters BY DEF IInv, QInv
<1>b. m_iToSend \in Nat /\ encoded \in 0 .. m_iToSend /\ Len(sent) = m_iToSend
  BY <1>t, Types DEF Counters
<1>1. CASE CopyToDeviceFrame
  <2>1. UNCHANGED <<m_iToSend, encoded, output, sent>> BY <1>1 DEF CopyToDeviceFrame, ring
  <2>f. PICK f : input' = [input EXCEPT ![GetNextInputFrame] = f] BY <1>1 DEF CopyToDeviceFrame
  <2>2. ASSUME NEW k \in 0 .. m_iToSend - 1, k >= encoded
        PROVE  input'[Slot(k)] = input[Slot(k)]
    <3>1. k \in Nat /\ k < m_iToSend /\ m_iToSend < k + m_nEncoderBuffer
      BY <2>2, <1>b, <1>t DEF Window
    <3>2. Slot(k) # GetNextInputFrame BY <3>1, <1>b, SlotsDiffer DEF GetNextInputFrame
    <3>3. Slot(k) \in Slots BY <3>1, SlotType
    <3> QED BY <2>f, <3>2, <3>3, <1>t, Types
  <2> QED BY <2>1, <2>2, <1>t DEF Recent
<1>2. CASE DoEncode
  <2>1. input' = input BY <1>2, <1>t, SendStep
  <2>2. CASE UNCHANGED <<m_iToSend, sent, encoded, output>> BY <2>1, <2>2, <1>t DEF Recent
  <2>3. CASE /\ m_iToSend' = m_iToSend + 1
             /\ \A k \in 1 .. Len(sent) : sent'[k] = sent[k]
             /\ sent'[m_iToSend + 1] = input[GetNextInputFrame]
             /\ \E n \in encoded .. m_iToSend + 1 : Finish(n)
    <3> DEFINE to == m_iToSend + 1
    <3>1. PICK n \in encoded .. to : Finish(n) BY <2>3
    <3>2. \A k \in 0 .. m_iToSend - 1 : sent'[k + 1] = sent[k + 1]
      <4>1. \A k \in 0 .. m_iToSend - 1 : k + 1 \in 1 .. Len(sent) BY <1>b
      <4> QED BY <2>3, <4>1
    <3>3. \A k \in m_iToSend .. to - 1 : sent'[k + 1] = input[Slot(k)]
      <4>1. \A k \in m_iToSend .. to - 1 : k = m_iToSend BY <1>b
      <4> QED BY <2>3, <4>1 DEF GetNextInputFrame
    <3>4. to \in Nat /\ m_iToSend' = to /\ to \in {m_iToSend, m_iToSend + 1} BY <2>3, <1>b
    <3> HIDE DEF to
    <3> QED BY <2>1, <3>1, <3>2, <3>3, <3>4, <1>t, FinishRecent
  <2> QED BY <1>2, <1>t, <2>2, <2>3, SendStep
<1>3. CASE EndEncode \/ DestroyEncoder
  <2>1. UNCHANGED <<m_iToSend, input, sent>> /\ (Finish(m_iToSend) \/ UNCHANGED <<encoded, output>>)
    BY <1>3, EndStep
  <2>2. CASE UNCHANGED <<encoded, output>> BY <2>1, <2>2, <1>t DEF Recent
  <2>3. CASE Finish(m_iToSend)
    <3>1. m_iToSend \in encoded .. m_iToSend BY <1>b
    <3>2. \A k \in m_iToSend .. m_iToSend - 1 : sent'[k + 1] = input[Slot(k)] BY <1>b
    <3> QED BY <2>1, <2>3, <3>1, <3>2, <1>b, <1>t, FinishRecent
  <2> QED BY <2>1, <2>2, <2>3
<1>4. CASE ~(CopyToDeviceFrame \/ DoEncode \/ EndEncode \/ DestroyEncoder)
  <2>1. UNCHANGED <<m_iToSend, encoded, output, input, sent>>
    BY <1>4, StepCases DEF FetchPacket, TakePacket, Quiet, pictures, ring
  <2> QED BY <2>1, <1>t DEF Recent
<1> QED BY <1>1, <1>2, <1>3, <1>4


LEMMA SessionStep == IInv /\ QInv /\ [Next]_vars => Session'
<1> SUFFICES ASSUME IInv, QInv, [Next]_vars PROVE Session' OBVIOUS
<1> USE DEF Session
<1> HIDE DEF m_nEncoderBuffer, m_nOutputDelay, HeldBack
<1>t. Session /\ TypeOK /\ OpenCall /\ Room BY DEF IInv, QInv
<1>b. m_iToSend \in Nat /\ m_iGot \in Nat /\ failures \in Nat /\ m_nOutputDelay \in Nat
  BY <1>t, Types, Sizes
\* A call that throws is not in progress any more.
<1>th. ASSUME NEW c, Throw(c), c = "FlushEncoder" \/ pc \notin {"abandoned", "flushed", "destroyed"}
       PROVE  Session'
  <2>1. failures' # 0 BY <1>th, <1>b DEF Throw
  <2>2. pc' = AfterThrow(c) BY <1>th DEF Throw
  <2> QED BY <2>1, <2>2, <1>t DEF AfterThrow
<1>1. CASE InitializeEncoder BY <1>1, <1>th, <1>t DEF InitializeEncoder, ring
<1>2. CASE AllocateInputBuffers BY <1>2, <1>th, <1>t DEF AllocateInputBuffers, ring
<1>3. CASE RegisterInputResources BY <1>3, <1>th, <1>t DEF RegisterInputResources, ring
<1>4. CASE CopyToDeviceFrame BY <1>4, <1>th, <1>t DEF CopyToDeviceFrame, ring
<1>5. CASE MapResources BY <1>5, <1>th, <1>t DEF MapResources
<1>6. CASE DoEncode
  <2>1. CASE Throw("EncodeFrame") BY <1>6, <2>1, <1>th DEF DoEncode
  <2>2. CASE ~Throw("EncodeFrame") BY <1>6, <2>2, <1>t DEF DoEncode, OpenCall
  <2> QED BY <2>1, <2>2
<1>7. CASE FetchPacket
  <2>1. CASE Throw(call) BY <1>7, <2>1, <1>th DEF FetchPacket
  <2>2. CASE ~Throw(call)
    <3>1. pc = "fetching" /\ m_iGot' = m_iGot + 1 /\ UNCHANGED <<pc, call, failures, damage, m_iToSend>>
      BY <1>7, <2>2 DEF FetchPacket
    <3> QED BY <3>1, <1>t, <1>b
  <2> QED BY <2>1, <2>2
<1>8. CASE AllFetched
  <2>1. /\ pc = "fetching" /\ m_iGot >= FetchEnd
        /\ pc' = IF call = "FlushEncoder" THEN "flushed"
                 ELSE IF call = "EncodeFrame" /\ FlushEachFrame THEN "submitted"
                 ELSE "returned"
        /\ UNCHANGED <<call, m_iToSend, m_iGot, failures, damage>>
    BY <1>8 DEF AllFetched, ring
  <2>2. pc' = "submitted" => m_iToSend - m_iGot <= m_nOutputDelay
    BY <2>1, <1>b DEF FetchEnd
  <2>3. call \in Calls BY <1>t DEF TypeOK
  <2> QED BY <2>1, <2>2, <2>3, <1>t DEF Calls
<1>9. CASE EndEncode
  <2>1. CASE Throw("EndEncode") BY <1>9, <2>1, <1>th DEF EndEncode, SendEOS
  <2>2. CASE ~Throw("EndEncode")
    <3>1. /\ pc = IF FlushEachFrame THEN "submitted" ELSE "ready"
          /\ pc' = "fetching" /\ call' = "EndEncode"
          /\ UNCHANGED <<failures, damage, m_iToSend, m_iGot>>
      BY <1>9, <2>2 DEF EndEncode, SendEOS, ring
    <3>2. CASE FlushEachFrame BY <3>1, <3>2, <1>t
    <3>3. CASE ~FlushEachFrame
      <4>1. damage = {} /\ pc = "ready" BY <3>1, <3>3, <1>t
      <4>2. m_iToSend - m_iGot <= m_nOutputDelay BY <4>1, <1>t, <1>b DEF Room
      <4> QED BY <3>1, <3>3, <4>2, <1>t
    <3> QED BY <3>2, <3>3
  <2> QED BY <2>1, <2>2
<1>10. CASE DestroyEncoder
  <2>1. CASE Throw("FlushEncoder") BY <1>10, <2>1, <1>th DEF DestroyEncoder, SendEOS
  <2>2. CASE ~Throw("FlushEncoder")
    <3>1. /\ pc \in {"half_made", "ended", "ready"} /\ pc' = "fetching" /\ call' = "FlushEncoder"
          /\ UNCHANGED <<failures, damage>>
      BY <1>10, <2>2 DEF DestroyEncoder, SendEOS
    <3> QED BY <3>1, <1>t
  <2> QED BY <2>1, <2>2
<1>11. CASE TakePacket BY <1>11, <1>t DEF TakePacket, ring
<1>12. CASE AllTaken BY <1>12, <1>t DEF AllTaken, ring
<1>13. CASE ReleaseInputBuffers
  <2>1. pc' = "destroyed" BY <1>13 DEF ReleaseInputBuffers
  <2>2. UNCHANGED <<failures, damage>> \/ failures' = failures + 1
    BY <1>13 DEF ReleaseInputBuffers
  <2>3. failures' = 0 => damage' = {} BY <2>2, <1>t, <1>b
  <2> QED BY <2>1, <2>3
<1>14. CASE UNCHANGED vars BY <1>14, <1>t DEF vars, ring
<1> QED BY <1>1, <1>2, <1>3, <1>4, <1>5, <1>6, <1>7, <1>8, <1>9, <1>10, <1>11, <1>12, <1>13, <1>14 DEF Next

\* What a fetch that succeeds appends to vPacket, when the caller is to get it.
LEMMA FetchStep ==
  ASSUME IInv, QInv, FetchPacket
  PROVE  /\ pc = "fetching" /\ m_iGot < FetchEnd /\ m_iGot < encoded
         /\ UNCHANGED <<m_iToSend, made, input, output, encoded, sent, taken>>
         /\ \/ /\ Len(vPacket') = Len(vPacket) + 1
               /\ \A k \in 1 .. Len(vPacket) : vPacket'[k] = vPacket[k]
               /\ Kept => vPacket'[Len(vPacket) + 1] = sent[m_iGot + 1]
               /\ m_iGot' = m_iGot + 1 /\ UNCHANGED <<pc, call, failures, damage>>
            \/ Throw(call) /\ m_iGot' = m_iGot
<1> USE Sizes
<1> HIDE DEF m_nEncoderBuffer, m_nOutputDelay, HeldBack, Slot
<1>t. TypeOK /\ Driver /\ Recent /\ Session /\ Room BY DEF IInv, QInv
<1>b. m_iToSend \in Nat /\ m_iGot \in Nat /\ encoded \in Nat /\ encoded <= m_iToSend BY <1>t, Types
<1>1. pc = "fetching" /\ m_iGot < FetchEnd
      /\ UNCHANGED <<m_iToSend, made, input, output, encoded, sent, taken>>
  BY DEF FetchPacket, pictures
<1>2. m_iGot < encoded BY <1>1, <1>t, <1>b DEF FetchEnd, Driver
<1>3. Kept => output[Slot(m_iGot)] = sent[m_iGot + 1]
  <2> SUFFICES ASSUME Kept PROVE output[Slot(m_iGot)] = sent[m_iGot + 1] OBVIOUS
  <2>1. m_iToSend <= m_iGot + m_nEncoderBuffer
    <3>1. CASE call = "EndEncode" BY <3>1, <1>1, <1>t, <1>b DEF Session
    <3>2. CASE call = "EncodeFrame" /\ ~FlushEachFrame
      <4>1. damage = {} BY <3>2, <1>1, <1>t DEF Session
      <4> QED BY <4>1, <3>2, <1>1, <1>t, <1>b DEF Room
    <3> QED BY <3>1, <3>2 DEF Kept
  <2>2. m_iGot \in 0 .. m_iToSend - 1 BY <1>2, <1>b
  <2> QED BY <2>1, <2>2, <1>2, <1>t DEF Recent
<1>4. CASE vPacket' = Append(vPacket, output[Slot(m_iGot)])
  <2> DEFINE p == output[Slot(m_iGot)]
  <2>1. vPacket' = Append(vPacket, p) BY <1>4
  <2>2. Kept => p = sent[m_iGot + 1] BY <1>3
  <2> HIDE DEF p
  <2>3. /\ Len(vPacket') = Len(vPacket) + 1 /\ \A k \in 1 .. Len(vPacket) : vPacket'[k] = vPacket[k]
        /\ vPacket'[Len(vPacket) + 1] = p
    BY <2>1, <1>t, Types
  <2>4. CASE Throw(call)
    <3>1. vPacket' = <<>> BY <2>4 DEF Throw
    <3>2. Len(vPacket) \in Nat BY <1>t, Types
    <3> QED BY <2>3, <3>1, <3>2
  <2>5. CASE ~Throw(call) BY <2>2, <2>3, <2>5, <1>1, <1>2 DEF FetchPacket
  <2> QED BY <2>4, <2>5
<1>5. CASE vPacket' # Append(vPacket, output[Slot(m_iGot)])
  BY <1>1, <1>2, <1>5 DEF FetchPacket
<1> QED BY <1>4, <1>5


\* The caller takes the first packet of vPacket, which is the next one to come.
LEMMA TakeStep ==
  ASSUME TypeOK, Fetched, Session, TakePacket
  PROVE  /\ pc = "returned" /\ Kept /\ UNCHANGED <<pc, call, m_iToSend, m_iGot, pictures, failures>>
         /\ Len(vPacket) >= 1 /\ Len(vPacket') = Len(vPacket) - 1
         /\ \A k \in 1 .. Len(vPacket') : vPacket'[k] = vPacket[k + 1]
         /\ Len(taken') = Len(taken) + 1 /\ taken' = Append(taken, sent[Before + 1])
         /\ \A k \in 1 .. Len(taken) : taken'[k] = taken[k]
         /\ taken'[Len(taken) + 1] = sent[Before + 1]
         /\ Before + 1 \in 1 .. m_iGot /\ Before' = Before + 1
<1>1. /\ pc = "returned" /\ UNCHANGED <<pc, call, m_iToSend, m_iGot, pictures, failures>>
      /\ vPacket # <<>> /\ taken' = Append(taken, Head(vPacket)) /\ vPacket' = Tail(vPacket)
  BY DEF TakePacket, ring
<1>2. Kept BY <1>1 DEF Session, Kept
<1>3. vPacket \in Seq(Frames \union {NoFrame}) /\ taken \in Seq(Frames \union {NoFrame})
      /\ m_iGot \in Nat
  BY Types
<1>4. /\ Len(vPacket) \in Nat /\ Len(vPacket) >= 1 /\ Len(vPacket') = Len(vPacket) - 1
      /\ \A k \in 1 .. Len(vPacket') : vPacket'[k] = vPacket[k + 1]
      /\ Head(vPacket) = vPacket[1]
  BY <1>1, <1>3
<1>5. vPacket[1] = sent[Before + 1] BY <1>2, <1>4 DEF Fetched
<1> DEFINE f == sent[Before + 1]
<1>6. taken' = Append(taken, f) BY <1>1, <1>4, <1>5
<1> HIDE DEF f
<1>7. /\ Len(taken') = Len(taken) + 1 /\ taken'[Len(taken) + 1] = f
      /\ \A k \in 1 .. Len(taken) : taken'[k] = taken[k]
  BY <1>3, <1>6
<1>8. Before + 1 \in 1 .. m_iGot /\ Before' = Before + 1
  BY <1>1, <1>3, <1>4 DEF Fetched, Before
<1> QED BY <1>1, <1>2, <1>4, <1>6, <1>7, <1>8 DEF f

LEMMA FetchedStep == IInv /\ QInv /\ [Next]_vars => Fetched'
<1> SUFFICES ASSUME IInv, QInv, [Next]_vars PROVE Fetched' OBVIOUS
<1>t. Fetched /\ Session /\ TypeOK /\ Counters BY DEF IInv, QInv
<1>b. /\ m_iGot \in Nat /\ m_iGot <= Len(sent) /\ Len(sent) \in Nat /\ Len(vPacket) \in Nat
      /\ Len(taken) \in Nat
  BY <1>t, Types DEF Counters
\* vPacket is dropped: what was in it is now older than what comes next.
<1>d. ASSUME vPacket' = <<>>, UNCHANGED <<m_iGot, taken>>,
             \A k \in 1 .. Len(sent) : sent'[k] = sent[k]
      PROVE  Fetched'
  <2>1. Len(vPacket') = 0 /\ Before' = m_iGot BY <1>d, <1>b DEF Before
  <2>2. \A j \in 1 .. Before : j \in 1 .. m_iGot /\ sent'[j] = sent[j]
    BY <1>d, <1>b, <1>t DEF Fetched, Before
  <2>3. \A k \in 1 .. Len(taken') : \E j \in 1 .. m_iGot : taken'[k] = sent'[j]
    BY <1>d, <2>2, <1>t DEF Fetched
  <2> QED BY <1>d, <1>b, <2>1, <2>3 DEF Fetched
<1>k. ASSUME UNCHANGED <<vPacket, call, m_iGot, taken>>,
             \A k \in 1 .. Len(sent) : sent'[k] = sent[k]
      PROVE  Fetched'
  <2>1. Before' = Before /\ Kept' = Kept BY <1>k DEF Before, Kept
  <2>2. Before \in Nat /\ Before + Len(vPacket) <= Len(sent)
    BY <1>b, <1>t DEF Fetched, Before
  <2>3. \A k \in 1 .. Len(vPacket) : Before + k \in 1 .. Len(sent) BY <1>b, <2>2
  <2>4. \A j \in 1 .. Before : sent'[j] = sent[j] BY <1>k, <1>b, <2>2
  <2> QED BY <1>k, <2>1, <2>3, <2>4, <1>t DEF Fetched
<1>s. sent' = sent => \A k \in 1 .. Len(sent) : sent'[k] = sent[k] OBVIOUS
<1>1. CASE CopyToDeviceFrame BY <1>1, <1>d DEF CopyToDeviceFrame, ring, Throw
<1>2. CASE DoEncode
  <2>1. CASE Throw("EncodeFrame") /\ sent' = sent
    BY <1>2, <2>1, <1>d, <1>t, SendStep DEF Throw
  <2>2. CASE (\A k \in 1 .. Len(sent) : sent'[k] = sent[k]) /\ UNCHANGED <<call, vPacket>>
    BY <1>2, <2>2, <1>k, <1>t, SendStep
  <2> QED BY <1>2, <2>1, <2>2, <1>t, SendStep
<1>3. CASE FetchPacket
  <2>1. CASE Throw(call) /\ m_iGot' = m_iGot
    BY <1>3, <2>1, <1>d, FetchStep DEF Throw
  <2>2. CASE /\ Len(vPacket') = Len(vPacket) + 1
             /\ \A k \in 1 .. Len(vPacket) : vPacket'[k] = vPacket[k]
             /\ Kept => vPacket'[Len(vPacket) + 1] = sent[m_iGot + 1]
             /\ m_iGot' = m_iGot + 1 /\ UNCHANGED call
    <3>1. sent' = sent /\ taken' = taken BY <1>3, FetchStep
    <3>2. Before' = Before /\ Kept' = Kept /\ Before + Len(vPacket) = m_iGot /\ Before \in Nat
      BY <2>2, <1>b, <1>t DEF Before, Kept, Fetched
    <3>3. ASSUME Kept, NEW k \in 1 .. Len(vPacket') PROVE vPacket'[k] = sent[Before + k]
      <4>1. CASE k \in 1 .. Len(vPacket) BY <2>2, <3>3, <4>1, <1>t DEF Fetched
      <4>2. CASE k = Len(vPacket) + 1
        <5>1. Before + k = m_iGot + 1 BY <3>2, <4>2, <1>b
        <5> QED BY <2>2, <3>3, <4>2, <5>1
      <4>3. k \in 1 .. Len(vPacket) \/ k = Len(vPacket) + 1 BY <2>2, <1>b
      <4> QED BY <4>1, <4>2, <4>3
    <3>4. Len(vPacket') <= m_iGot' BY <2>2, <1>b, <1>t DEF Fetched
    <3> QED BY <3>1, <3>2, <3>3, <3>4, <1>t DEF Fetched
  <2> QED BY <1>3, <2>1, <2>2, FetchStep
<1>4. CASE TakePacket
  <2>1. /\ UNCHANGED <<call, m_iGot, sent>> /\ Kept /\ Before' = Before + 1
        /\ Len(vPacket') = Len(vPacket) - 1 /\ Before + 1 \in 1 .. m_iGot /\ Before \in Nat
        /\ Len(vPacket) >= 1
    BY <1>4, <1>t, <1>b, TakeStep DEF pictures, Before, Fetched
  <2>2. ASSUME NEW k \in 1 .. Len(vPacket') PROVE vPacket'[k] = sent[Before' + k]
    <3>1. k + 1 \in 1 .. Len(vPacket) /\ Before' + k = Before + (k + 1) BY <2>1, <1>b
    <3>2. vPacket'[k] = vPacket[k + 1] BY <1>4, <1>t, TakeStep
    <3>3. vPacket[k + 1] = sent[Before + (k + 1)] BY <2>1, <3>1, <1>t DEF Fetched
    <3> QED BY <3>1, <3>2, <3>3
  <2>3. ASSUME NEW k \in 1 .. Len(taken') PROVE \E j \in 1 .. Before' : taken'[k] = sent[j]
    <3>1. k \in 1 .. Len(taken) \/ k = Len(taken) + 1 BY <1>4, <1>t, <1>b, TakeStep
    <3>2. CASE k \in 1 .. Len(taken)
      <4>1. taken'[k] = taken[k] BY <1>4, <1>t, <3>2, TakeStep
      <4>2. PICK j \in 1 .. Before : taken[k] = sent[j] BY <3>2, <1>t DEF Fetched
      <4>3. j \in 1 .. Before' BY <2>1, <4>2
      <4> QED BY <4>1, <4>2, <4>3
    <3>3. CASE k = Len(taken) + 1
      <4>1. taken'[k] = sent[Before + 1] BY <1>4, <1>t, <3>3, TakeStep
      <4>2. Before + 1 \in 1 .. Before' BY <2>1
      <4> QED BY <4>1, <4>2
    <3> QED BY <3>1, <3>2, <3>3
  <2>4. Len(vPacket') <= m_iGot' BY <2>1, <1>b, <1>t DEF Fetched
  <2> QED BY <2>1, <2>2, <2>3, <2>4 DEF Fetched
<1>5. CASE EndEncode \/ DestroyEncoder BY <1>5, <1>d, EndStep
<1>6. CASE Quiet BY <1>6, <1>d, <1>k DEF Quiet, pictures
<1> QED BY <1>1, <1>2, <1>3, <1>4, <1>5, <1>6, StepCases


LEMMA FailureStep ==
  ASSUME TypeOK, [Next]_vars, failures' = 0
  PROVE  failures = 0 /\ \A c : ~Throw(c)
<1>1. failures \in Nat BY Types
<1>2. failures' = failures \/ failures' = failures + 1
  BY DEF Next, vars, InitializeEncoder, AllocateInputBuffers, RegisterInputResources,
    CopyToDeviceFrame, MapResources, DoEncode, FetchPacket, AllFetched, EndEncode,
    DestroyEncoder, SendEOS, TakePacket, AllTaken, ReleaseInputBuffers, Throw
<1> QED BY <1>1, <1>2 DEF Throw

LEMMA CompleteStep == IInv /\ QInv /\ [Next]_vars => Complete'
<1> SUFFICES ASSUME IInv, QInv, [Next]_vars, failures' = 0 PROVE Complete'
  BY DEF Complete
<1> HIDE DEF m_nEncoderBuffer, m_nOutputDelay, HeldBack
<1>t. TypeOK /\ Counters /\ Fetched /\ Session /\ Numbered BY DEF IInv, QInv
<1>f. failures = 0 /\ \A c : ~Throw(c) BY <1>t, FailureStep
<1>b. /\ m_iToSend \in Nat /\ m_iGot \in Nat /\ made \in Nat /\ m_iGot <= m_iToSend
      /\ Len(sent) = m_iToSend /\ Len(vPacket) \in Nat /\ Len(taken) \in Nat
  BY <1>t, Types DEF Counters
<1>c. /\ \A k \in 1 .. m_iToSend : sent[k] = k
      /\ Len(taken) + Len(vPacket) = m_iGot
      /\ \A k \in 1 .. Len(taken) : taken[k] = k
      /\ made = IF pc \in {"copied", "mapped"} THEN m_iToSend + 1 ELSE m_iToSend
      /\ pc \in {"new", "allocating", "registering"} => m_iToSend = 0
      /\ pc \notin {"half_made", "abandoned"}
      /\ pc \notin {"fetching", "returned"} => vPacket = <<>>
  BY <1>f DEF QInv, Complete, Settled
\* A step that leaves the pictures alone.
<1>u. ASSUME UNCHANGED <<m_iToSend, m_iGot, made, sent, taken>>, vPacket' = vPacket,
             pc' \in {"copied", "mapped"} <=> pc \in {"copied", "mapped"},
             pc' \in {"new", "allocating", "registering"} =>
               pc \in {"new", "allocating", "registering"},
             pc' \notin {"half_made", "abandoned"}
      PROVE  Complete'
  BY <1>u, <1>c DEF Complete
<1>1. CASE InitializeEncoder BY <1>1, <1>u, <1>f DEF InitializeEncoder, ring, pictures
<1>2. CASE AllocateInputBuffers BY <1>2, <1>u, <1>f DEF AllocateInputBuffers, ring, pictures
<1>3. CASE RegisterInputResources BY <1>3, <1>u, <1>f DEF RegisterInputResources, ring, pictures
<1>4. CASE CopyToDeviceFrame
  <2>1. /\ pc = "ready" /\ pc' = "copied" /\ made' = made + 1 /\ vPacket' = <<>>
        /\ UNCHANGED <<m_iToSend, m_iGot, sent, taken>>
    BY <1>4, <1>f DEF CopyToDeviceFrame, ring
  <2> QED BY <2>1, <1>c DEF Complete
<1>5. CASE MapResources BY <1>5, <1>u, <1>f DEF MapResources, pictures
<1>6. CASE DoEncode
  <2>1. /\ pc = "mapped" /\ pc' = "fetching" /\ UNCHANGED <<m_iGot, made, vPacket, taken>>
        /\ m_iToSend' = m_iToSend + 1 /\ sent'[m_iToSend + 1] = input[GetNextInputFrame]
        /\ \A k \in 1 .. Len(sent) : sent'[k] = sent[k]
    BY <1>6, <1>f, <1>t, SendStep
  <2>2. input[GetNextInputFrame] = made /\ made = m_iToSend + 1
    BY <2>1, <1>c, <1>t DEF Numbered
  <2> HIDE DEF GetNextInputFrame
  <2>3. \A k \in 1 .. m_iToSend' : k \in 1 .. Len(sent) \/ k = m_iToSend + 1 BY <2>1, <1>b
  <2>4. \A k \in 1 .. m_iToSend' : sent'[k] = k BY <2>1, <2>2, <2>3, <1>b, <1>c
  <2> QED BY <2>1, <2>2, <2>4, <1>c DEF Complete
<1>7. CASE FetchPacket
  <2>1. /\ pc = "fetching" /\ pc' = pc /\ UNCHANGED <<m_iToSend, made, sent, taken>>
        /\ Len(vPacket') = Len(vPacket) + 1 /\ m_iGot' = m_iGot + 1
    BY <1>7, <1>f, FetchStep
  <2>2. Len(taken') + Len(vPacket') = m_iGot' BY <2>1, <1>b, <1>c
  <2> QED BY <2>1, <2>2, <1>c DEF Complete
<1>8. CASE AllFetched BY <1>8, <1>u DEF AllFetched, ring, pictures
<1>9. CASE EndEncode \/ DestroyEncoder
  <2>1. /\ pc \notin {"copied", "mapped", "fetching", "returned"} /\ vPacket' = <<>>
        /\ UNCHANGED <<m_iToSend, m_iGot, made, sent, taken>> /\ pc' \notin {"copied", "mapped"}
    BY <1>9, EndStep
  <2>2. pc' = "fetching" BY <1>9, <1>f DEF EndEncode, DestroyEncoder, SendEOS
  <2> QED BY <2>1, <2>2, <1>c, <1>u
<1>10. CASE TakePacket
  <2>1. /\ pc = "returned" /\ UNCHANGED <<pc, m_iToSend, m_iGot, made, sent>>
        /\ Len(vPacket') = Len(vPacket) - 1 /\ Len(taken') = Len(taken) + 1
        /\ \A k \in 1 .. Len(taken) : taken'[k] = taken[k]
        /\ taken'[Len(taken) + 1] = sent[Before + 1] /\ Before + 1 \in 1 .. m_iGot
    BY <1>10, <1>t, TakeStep DEF pictures
  <2>2. Before = Len(taken) BY <1>b, <1>c DEF Before
  <2>3. sent[Before + 1] = Len(taken) + 1 BY <2>1, <2>2, <1>b, <1>c
  <2>4. \A k \in 1 .. Len(taken') : k \in 1 .. Len(taken) \/ k = Len(taken) + 1 BY <2>1, <1>b
  <2>5. \A k \in 1 .. Len(taken') : taken'[k] = k BY <2>1, <2>3, <2>4, <1>c
  <2>6. Len(taken') + Len(vPacket') = m_iGot' BY <2>1, <1>b, <1>c
  <2> QED BY <2>1, <2>5, <2>6, <1>c DEF Complete
<1>11. CASE AllTaken BY <1>11, <1>u DEF AllTaken, ring, pictures
<1>12. CASE ReleaseInputBuffers BY <1>12, <1>u DEF ReleaseInputBuffers, pictures
<1>13. CASE UNCHANGED vars BY <1>13, <1>u, <1>c DEF vars, ring, pictures
<1> QED BY <1>1, <1>2, <1>3, <1>4, <1>5, <1>6, <1>7, <1>8, <1>9, <1>10, <1>11, <1>12, <1>13 DEF Next

LEMMA SettledStep == IInv /\ QInv /\ [Next]_vars => Settled'
<1> SUFFICES ASSUME IInv, QInv, [Next]_vars, failures' = 0 PROVE Settled'
  BY DEF Settled
<1> HIDE DEF m_nEncoderBuffer, m_nOutputDelay, HeldBack
<1>t. TypeOK /\ Session /\ OpenCall BY DEF IInv, QInv
<1>f. failures = 0 /\ \A c : ~Throw(c) BY <1>t, FailureStep
<1>b. /\ m_iToSend \in Nat /\ m_iGot \in Nat /\ m_iGot <= m_iToSend /\ m_nOutputDelay \in Nat
  BY <1>t, Types, Sizes
<1>c. /\ pc \notin {"fetching", "returned"} => vPacket = <<>>
      /\ FlushEachFrame /\ pc \in {"ready", "copied", "mapped"} => m_iGot = m_iToSend
      /\ FlushEachFrame /\ pc = "fetching" /\ call = "EncodeFrame" =>
           m_iToSend = m_iGot + 1 /\ vPacket = <<>>
      /\ pc = "fetching" /\ call = "FlushEncoder" => m_iGot = m_iToSend /\ vPacket = <<>>
      /\ pc = "returned" /\ call = "EndEncode" => m_iGot = m_iToSend
      /\ pc = "ended" => m_iGot = m_iToSend
      /\ pc \in {"new", "allocating", "registering"} => m_iToSend = 0
      /\ pc \notin {"half_made", "abandoned"}
  BY <1>f DEF QInv, Complete, Settled
<1>d. FlushEachFrame => m_nOutputDelay >= 1 BY DelayConfig
<1>1. CASE InitializeEncoder BY <1>1, <1>f, <1>c DEF InitializeEncoder, ring, Settled
<1>2. CASE AllocateInputBuffers BY <1>2, <1>f, <1>c DEF AllocateInputBuffers, ring, Settled
<1>3. CASE RegisterInputResources
  <2>1. m_iGot = m_iToSend /\ pc = "registering" BY <1>3, <1>b, <1>c DEF RegisterInputResources
  <2> QED BY <1>3, <2>1, <1>f, <1>c DEF RegisterInputResources, ring, Settled
<1>4. CASE CopyToDeviceFrame BY <1>4, <1>c, <1>f DEF CopyToDeviceFrame, ring, Settled
<1>5. CASE MapResources BY <1>5, <1>f, <1>c DEF MapResources, Settled
<1>6. CASE DoEncode
  <2>1. /\ pc = "mapped" /\ pc' = "fetching" /\ UNCHANGED <<m_iGot, vPacket, call>>
        /\ m_iToSend' = m_iToSend + 1
    BY <1>6, <1>f DEF DoEncode
  <2>2. call = "EncodeFrame" BY <2>1, <1>t DEF OpenCall
  <2> QED BY <2>1, <2>2, <1>b, <1>c DEF Settled
<1>7. CASE FetchPacket
  <2>1. pc = "fetching" /\ m_iGot < FetchEnd /\ UNCHANGED <<pc, call, m_iToSend>>
    BY <1>7, <1>f DEF FetchPacket
  <2>2. ~(FlushEachFrame /\ call = "EncodeFrame") BY <2>1, <1>b, <1>c, <1>d DEF FetchEnd
  <2>3. call # "FlushEncoder" BY <2>1, <1>b, <1>c DEF FetchEnd
  <2> QED BY <2>1, <2>2, <2>3 DEF Settled
<1>8. CASE AllFetched
  <2>1. /\ pc = "fetching" /\ m_iGot >= FetchEnd
        /\ pc' = IF call = "FlushEncoder" THEN "flushed"
                 ELSE IF call = "EncodeFrame" /\ FlushEachFrame THEN "submitted"
                 ELSE "returned"
        /\ UNCHANGED <<call, m_iToSend, m_iGot, vPacket>>
    BY <1>8 DEF AllFetched, ring
  <2>2. call = "EndEncode" => m_iGot = m_iToSend BY <2>1, <1>b DEF FetchEnd
  <2> QED BY <2>1, <2>2, <1>c DEF Settled
<1>9. CASE EndEncode BY <1>9, <1>f DEF EndEncode, SendEOS, Settled
<1>10. CASE DestroyEncoder
  <2>1. m_iGot = m_iToSend BY <1>10, <1>c DEF DestroyEncoder
  <2> QED BY <1>10, <2>1, <1>f DEF DestroyEncoder, SendEOS, ring, Settled
<1>11. CASE TakePacket BY <1>11, <1>c DEF TakePacket, ring, Settled
<1>12. CASE AllTaken
  <2>1. /\ pc = "returned" /\ vPacket = <<>> /\ UNCHANGED <<call, m_iToSend, m_iGot, vPacket>>
        /\ pc' = IF call = "EndEncode" /\ ~FlushEachFrame THEN "ended" ELSE "ready"
    BY <1>12 DEF AllTaken, ring
  <2>2. FlushEachFrame => call = "EndEncode" BY <2>1, <1>t DEF Session
  <2> QED BY <2>1, <2>2, <1>c DEF Settled
<1>13. CASE ReleaseInputBuffers BY <1>13, <1>c DEF ReleaseInputBuffers, Settled
<1>14. CASE UNCHANGED vars BY <1>14, <1>c DEF vars, ring, Settled
<1> QED BY <1>1, <1>2, <1>3, <1>4, <1>5, <1>6, <1>7, <1>8, <1>9, <1>10, <1>11, <1>12, <1>13, <1>14 DEF Next

LEMMA QInvariance == Spec => [](IInv /\ QInv)
<1>1. QInv /\ IInv /\ [Next]_vars => QInv'
  BY NumberedStep, WindowStep, RecentStep, SessionStep, FetchedStep, CompleteStep, SettledStep
     DEF QInv
<1> QED BY <1>1, InitIInv, InitQInv, IInvStep, PTL DEF Spec

-----------------------------------------------------------------------------
(* The theorems. *)

\* As long as no call failed, every picture comes back, once and in order
\* (c_encoder_nv_impl.cpp:274-287, NvEncoder.cpp:469-504).
THEOREM ReturnTheorem == Spec => []EveryFrameReturned
<1>1. ASSUME IInv, QInv, failures = 0, pc = (IF FlushEachFrame THEN "ready" ELSE "ended")
      PROVE  taken = [k \in 1 .. made |-> k]
  <2>1. /\ Len(taken) + Len(vPacket) = m_iGot /\ \A k \in 1 .. Len(taken) : taken[k] = k
        /\ made = m_iToSend /\ vPacket = <<>> /\ m_iGot = m_iToSend
    BY <1>1, ClientConfig DEF QInv, Complete, Settled
  <2>2. taken \in Seq(Frames \union {NoFrame}) /\ made \in Nat BY <1>1, Types DEF IInv
  <2>3. Len(taken) = made BY <2>1, <2>2
  <2>4. taken = [k \in 1 .. Len(taken) |-> taken[k]] BY <2>2
  <2> QED BY <2>1, <2>3, <2>4
<1>2. IInv /\ QInv => EveryFrameReturned BY <1>1 DEF EveryFrameReturned
<1> QED BY <1>2, QInvariance, PTL

\* NvEncoder is the queue of pictures its callers expect: each accepted picture
\* comes back at most once and in order, and none is skipped before a call has
\* failed (NvEncoder.cpp:328-379, 421-504, c_encoder_nv_impl.cpp:256-290).
THEOREM QueueTheorem == Spec => ExactlyOnceInOrder
<1>1. Init => Queue!Init
  BY DEF Init, Queue!Init
<1>2. ASSUME IInv, QInv, [Next]_vars PROVE [Queue!Next]_(Queue!vars)
  <2>t. /\ TypeOK /\ Counters /\ Numbered /\ Fetched /\ Session
        /\ failures \in Nat /\ m_iGot <= Len(sent) /\ m_iGot \in Nat /\ Len(sent) \in Nat
        /\ DOMAIN sent = 1 .. Len(sent) /\ DOMAIN taken = 1 .. Len(taken) /\ Len(taken) \in Nat
        /\ Len(vPacket) \in Nat
    BY <1>2, Types DEF IInv, QInv, Counters
  <2>1. CASE DoEncode /\ sent' # sent
    <3> DEFINE f == input[GetNextInputFrame]
    <3>1. f \in Frames /\ (\A k \in 1 .. Len(sent) : sent[k] < f) /\ f \in Nat
      BY <2>1, <2>t, SendStep DEF Numbered, Frames
    <3>2. sent' = Append(sent, f) /\ UNCHANGED <<taken, failures>>
      BY <2>1 DEF DoEncode
    <3> HIDE DEF f
    <3>3. f \notin Queue!Range(sent) BY <3>1, <2>t DEF Queue!Range
    <3>4. Queue!Accept BY <3>1, <3>2, <3>3 DEF Queue!Accept
    <3> QED BY <3>4 DEF Queue!Next
  <2>2. CASE TakePacket
    <3> DEFINE k == Before + 1
    <3>1. /\ k \in 1 .. m_iGot /\ taken' = Append(taken, sent[k]) /\ UNCHANGED <<sent, failures>>
          /\ Before \in Nat
      BY <2>2, <2>t, TakeStep DEF pictures, Before, Fetched
    <3>2. k \in 1 .. Len(sent) BY <3>1, <2>t
    <3>3. Queue!Undelivered(k)
      <4> SUFFICES ASSUME NEW j \in k .. Len(sent), NEW i \in 1 .. Len(taken), taken[i] = sent[j]
                   PROVE  FALSE
        BY <2>t DEF Queue!Undelivered, Queue!Range
      <4>1. PICK h \in 1 .. Before : taken[i] = sent[h] BY <2>t DEF Fetched
      <4>2. h < j /\ h \in 1 .. Len(sent) /\ j \in 1 .. Len(sent) BY <3>1, <3>2, <4>1, <2>t
      <4>3. sent[h] < sent[j] /\ sent[h] \in Nat BY <4>2, <2>t DEF Numbered
      <4> QED BY <4>1, <4>3
    <3>4. ASSUME failures = 0, NEW j \in 1 .. k - 1 PROVE ~Queue!Undelivered(j)
      <4>1. /\ \A n \in 1 .. m_iToSend : sent[n] = n /\ Len(taken) + Len(vPacket) = m_iGot
            /\ \A n \in 1 .. Len(taken) : taken[n] = n
        BY <1>2, <3>4 DEF QInv, Complete
      <4>2. j \in 1 .. Len(taken) /\ j \in 1 .. m_iToSend /\ j \in j .. Len(sent)
        BY <4>1, <3>1, <3>2, <2>t DEF Before, Counters
      <4>3. sent[j] = taken[j] BY <4>1, <4>2
      <4> QED BY <4>2, <4>3, <2>t DEF Queue!Undelivered, Queue!Range
    <3> HIDE DEF k
    <3>5. (failures > 0) \/ ~ \E j \in 1 .. k - 1 : Queue!Undelivered(j) BY <3>4, <2>t
    <3>6. Queue!Deliver BY <3>1, <3>2, <3>3, <3>5 DEF Queue!Deliver
    <3> QED BY <3>6 DEF Queue!Next
  <2>3. CASE ~TakePacket /\ sent' = sent
    <3>1. taken' = taken
      BY <1>2, <2>3, StepCases DEF CopyToDeviceFrame, DoEncode, FetchPacket, EndEncode,
         DestroyEncoder, SendEOS, Quiet
    <3>2. failures' = failures \/ failures' = failures + 1
      BY <1>2 DEF Next, vars, InitializeEncoder, AllocateInputBuffers, RegisterInputResources,
        CopyToDeviceFrame, MapResources, DoEncode, FetchPacket, AllFetched, EndEncode,
        DestroyEncoder, SendEOS, TakePacket, AllTaken, ReleaseInputBuffers, Throw
    <3>3. CASE failures' = failures BY <2>3, <3>1, <3>3 DEF Queue!vars
    <3>4. CASE failures' = failures + 1
      <4>1. (failures > 0)' BY <3>4, <2>t
      <4>2. Queue!Fail BY <2>3, <3>1, <4>1 DEF Queue!Fail
      <4> QED BY <4>2 DEF Queue!Next
    <3> QED BY <3>2, <3>3, <3>4
  <2>4. sent' # sent => DoEncode
    BY <1>2, StepCases DEF CopyToDeviceFrame, FetchPacket, TakePacket, EndEncode,
       DestroyEncoder, SendEOS, Quiet, pictures
  <2>5. sent' # sent => ~TakePacket BY DEF TakePacket, pictures
  <2> QED BY <2>1, <2>2, <2>3, <2>4, <2>5
<1> QED BY <1>1, <1>2, QInvariance, PTL DEF Spec, ExactlyOnceInOrder, Queue!Spec

-----------------------------------------------------------------------------
(* When pictures come back.  TestProgram takes this for granted: there one   *)
(* step encodes a picture and writes the packets that come back.             *)

\* Pictures that have come back when n were sent: all, if the caller flushes,
\* and else all but the output delay.
Returned(n) ==
  IF FlushEachFrame THEN n ELSE IF n > m_nOutputDelay THEN n - m_nOutputDelay ELSE 0

\* Between two calls just these pictures are with the caller.
BackOnTime ==
  failures = 0 /\ pc = "ready" => taken = [k \in 1 .. Returned(made) |-> k]

\* EncodeFrame fetches no more than it may, and all of it.
OnTime ==
  failures = 0 /\ ~FlushEachFrame =>
    /\ pc \in {"ready", "copied", "mapped"} \/ (pc = "returned" /\ call = "EncodeFrame") =>
         m_iGot = Returned(m_iToSend)
    /\ pc = "fetching" /\ call = "EncodeFrame" => m_iGot <= Returned(m_iToSend)

LEMMA ReturnedBounds ==
  ASSUME ~FlushEachFrame, NEW n \in Nat
  PROVE  /\ Returned(n) \in Nat /\ Returned(n) <= Returned(n + 1)
         /\ n - m_nOutputDelay <= Returned(n)
         /\ \A g \in Nat : g < n - m_nOutputDelay => g + 1 <= Returned(n)
         /\ \A g \in Nat : g >= n - m_nOutputDelay => Returned(n) <= g
<1> HIDE DEF m_nEncoderBuffer, m_nOutputDelay
<1> QED BY Sizes DEF Returned

LEMMA InitOnTime == Init => OnTime
BY DEF Init, OnTime

LEMMA OnTimeStep == IInv /\ QInv /\ OnTime /\ [Next]_vars => OnTime'
<1> SUFFICES ASSUME IInv, QInv, OnTime, [Next]_vars, failures' = 0, ~FlushEachFrame
             PROVE  OnTime'
  BY DEF OnTime
<1> HIDE DEF m_nEncoderBuffer, m_nOutputDelay, HeldBack
<1>t. TypeOK /\ Session /\ OpenCall BY DEF IInv, QInv
<1>f. failures = 0 /\ \A c : ~Throw(c) BY <1>t, FailureStep
<1>b. m_iToSend \in Nat /\ m_iGot \in Nat /\ m_iGot <= m_iToSend BY <1>t, Types
<1>c. /\ pc \in {"ready", "copied", "mapped"} \/ (pc = "returned" /\ call = "EncodeFrame") =>
           m_iGot = Returned(m_iToSend)
      /\ pc = "fetching" /\ call = "EncodeFrame" => m_iGot <= Returned(m_iToSend)
      /\ pc \in {"new", "allocating", "registering"} => m_iToSend = 0
  BY <1>f DEF QInv, Complete, OnTime
<1>r. /\ Returned(m_iToSend) <= Returned(m_iToSend + 1)
      /\ Returned(m_iToSend) \in Nat /\ Returned(m_iToSend + 1) \in Nat
      /\ m_iGot < m_iToSend - m_nOutputDelay => m_iGot + 1 <= Returned(m_iToSend)
      /\ m_iGot >= m_iToSend - m_nOutputDelay => Returned(m_iToSend) <= m_iGot
  BY <1>b, ReturnedBounds
<1>u. ASSUME UNCHANGED <<m_iToSend, m_iGot>>
      PROVE  Returned(m_iToSend)' = Returned(m_iToSend)
  BY <1>u DEF Returned, m_nOutputDelay, m_nEncoderBuffer
<1> HIDE DEF Returned
<1>1. CASE InitializeEncoder BY <1>1, <1>f DEF InitializeEncoder, OnTime
<1>2. CASE AllocateInputBuffers BY <1>2, <1>f DEF AllocateInputBuffers, OnTime
<1>3. CASE RegisterInputResources
  <2>1. /\ m_iToSend = 0 /\ m_iGot = 0 /\ UNCHANGED <<m_iToSend, m_iGot>>
        /\ pc' \in {"registering", "ready"}
    BY <1>3, <1>b, <1>c, <1>f DEF RegisterInputResources, ring
  <2>2. Returned(0) = 0 BY Sizes DEF Returned
  <2> QED BY <2>1, <2>2, <1>u DEF OnTime
<1>4. CASE CopyToDeviceFrame BY <1>4, <1>c, <1>u, ThrowStep DEF CopyToDeviceFrame, ring, OnTime
<1>5. CASE MapResources BY <1>5, <1>f, <1>c, <1>u DEF MapResources, OnTime
<1>6. CASE DoEncode
  <2>1. /\ pc = "mapped" /\ pc' = "fetching" /\ UNCHANGED m_iGot
        /\ m_iToSend' = m_iToSend + 1
    BY <1>6, <1>f DEF DoEncode
  <2>2. Returned(m_iToSend)' = Returned(m_iToSend + 1)
    BY <2>1 DEF Returned, m_nOutputDelay, m_nEncoderBuffer
  <2> QED BY <2>1, <2>2, <1>b, <1>c, <1>r DEF OnTime
<1>7. CASE FetchPacket
  <2>1. /\ pc = "fetching" /\ m_iGot < FetchEnd /\ UNCHANGED <<pc, call, m_iToSend>>
        /\ m_iGot' = m_iGot + 1
    BY <1>7, <1>f DEF FetchPacket
  <2>2. call = "EncodeFrame" => m_iGot' <= Returned(m_iToSend) BY <2>1, <1>r DEF FetchEnd
  <2>3. Returned(m_iToSend)' = Returned(m_iToSend)
    BY <2>1 DEF Returned, m_nOutputDelay, m_nEncoderBuffer
  <2> QED BY <2>1, <2>2, <2>3 DEF OnTime
<1>8. CASE AllFetched
  <2>1. /\ pc = "fetching" /\ m_iGot >= FetchEnd /\ UNCHANGED <<call, m_iToSend, m_iGot>>
        /\ pc' \in {"flushed", "submitted", "returned"}
    BY <1>8 DEF AllFetched, ring
  <2>2. call = "EncodeFrame" => m_iGot = Returned(m_iToSend)
    BY <2>1, <1>b, <1>c, <1>r DEF FetchEnd
  <2> QED BY <2>1, <2>2, <1>u DEF OnTime
<1>9. CASE EndEncode BY <1>9, <1>f DEF EndEncode, SendEOS, OnTime
<1>10. CASE DestroyEncoder BY <1>10, <1>f DEF DestroyEncoder, SendEOS, OnTime
<1>11. CASE TakePacket BY <1>11, <1>c, <1>u DEF TakePacket, ring, OnTime
<1>12. CASE AllTaken
  <2>1. /\ pc = "returned" /\ UNCHANGED <<call, m_iToSend, m_iGot>>
        /\ pc' = IF call = "EndEncode" THEN "ended" ELSE "ready"
    BY <1>12 DEF AllTaken, ring
  <2>2. call \in {"EndEncode", "EncodeFrame"} BY <2>1, <1>t DEF Session
  <2> QED BY <2>1, <2>2, <1>c, <1>u DEF OnTime
<1>13. CASE ReleaseInputBuffers BY <1>13 DEF ReleaseInputBuffers, OnTime
<1>14. CASE UNCHANGED vars BY <1>14, <1>c, <1>u DEF vars, ring, OnTime
<1> QED BY <1>1, <1>2, <1>3, <1>4, <1>5, <1>6, <1>7, <1>8, <1>9, <1>10, <1>11, <1>12, <1>13, <1>14 DEF Next

\* As long as no call failed, a file test has its pictures back one output
\* delay after it submitted them, and the caller of nvenc_encode at once, in
\* order and no others (NvEncoder.cpp:469-504, c_encoder_nv_impl.cpp:256-290).
THEOREM DelayTheorem == Spec => []BackOnTime
<1>1. ASSUME IInv, QInv, OnTime, failures = 0, pc = "ready"
      PROVE  taken = [k \in 1 .. Returned(made) |-> k]
  <2>1. /\ Len(taken) + Len(vPacket) = m_iGot /\ \A k \in 1 .. Len(taken) : taken[k] = k
        /\ made = m_iToSend /\ vPacket = <<>>
        /\ FlushEachFrame => m_iGot = m_iToSend
    BY <1>1 DEF QInv, Complete, Settled
  <2>2. taken \in Seq(Frames \union {NoFrame}) BY <1>1, Types DEF IInv
  <2>3. m_iGot = Returned(made) BY <1>1, <2>1 DEF OnTime, Returned
  <2>4. Len(taken) = Returned(made) BY <2>1, <2>2, <2>3
  <2>5. taken = [k \in 1 .. Len(taken) |-> taken[k]] BY <2>2
  <2> HIDE DEF Returned
  <2> QED BY <2>1, <2>4, <2>5
<1>2. IInv /\ QInv /\ OnTime => BackOnTime BY <1>1 DEF BackOnTime
<1>3. Spec => []OnTime
  <2>1. IInv /\ QInv /\ OnTime /\ [Next]_vars => OnTime' BY OnTimeStep
  <2> QED BY <2>1, InitOnTime, QInvariance, PTL DEF Spec
<1> QED BY <1>2, <1>3, QInvariance, PTL
=============================================================================
