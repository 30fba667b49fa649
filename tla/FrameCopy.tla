------------------------------ MODULE FrameCopy ------------------------------
(***************************************************************************)
(* The way of one picture through the video sample, byte by byte: a bitmap *)
(* is converted to I420 and scaled (I420Creator::my_process), copied into  *)
(* an I420Buffer (VideoSourceMock::on_frame), sent, and written to a file  *)
(* by the receiver (SaveVideoFrameToFile).                                 *)
(*                                                                         *)
(* A byte is the sample of the picture it stands for, <<plane, row,        *)
(* column>>: what a plane is mixed from is kept, the colours are not.      *)
(* libyuv, I420Buffer and the encoder are external: they read and write    *)
(* the planes they are told, and the picture sent is the one received.     *)
(***************************************************************************)
EXTENDS Integers

CONSTANTS Bitmaps,   \* sizes of the bitmap, <<width, height>>: 1257 x 688
          Sizes      \* sizes of the sample's picture, <<w_, h_>>: 640 x 360

IsEven(n) == n % 2 = 0

\* What the sizes in the code have in common.
ASSUME BitmapSizes ==
  \A s \in Bitmaps : s \in (Nat \ {0}) \X (Nat \ {0}) /\ ~IsEven(s[1]) /\ IsEven(s[2])
ASSUME PictureSizes ==
  \A s \in Sizes : s \in (Nat \ {0}) \X (Nat \ {0}) /\ IsEven(s[1]) /\ IsEven(s[2]) /\ s[2] <= s[1]

VARIABLES size,      \* of the sample's picture
          bitmap,    \* size of the bitmap
          at,        \* how far the picture has come
          converted, \* out_i420_frame
          frame,     \* scale_i420_frame
          buffer,    \* the I420Buffer of on_frame, and what arrives
          file       \* what SaveVideoFrameToFile has written

vars == <<size, bitmap, at, converted, frame, buffer, file>>

Half(n) == (n + 1) \div 2

\* The samples of an I420 picture: chroma has half the width and height.
Columns(p, w) == IF p = "y" THEN w ELSE Half(w)
Rows(p, h) == IF p = "y" THEN h ELSE Half(h)
Planes == {"y", "u", "v"}
Plane(p, w, h) == {p} \X (0 .. Rows(p, h) - 1) \X (0 .. Columns(p, w) - 1)
Samples(w, h) == UNION {Plane(p, w, h) : p \in Planes}

Blank == <<"none", 0, 0>>
Outside == <<"outside", 0, 0>>

\* Where a layout, an offset and a stride per plane, puts a sample.
Address(layout, s) == layout.offset[s[1]] + s[2] * layout.stride[s[1]] + s[3]

Read(memory, a) == IF a \in DOMAIN memory THEN memory[a] ELSE Outside

\* Memory after "content" of the samples of a picture was stored, plane by plane.
StorePlane(memory, layout, p, w, h, content) ==
  [a \in DOMAIN memory |->
     LET here == {s \in Plane(p, w, h) : Address(layout, s) = a}
     IN IF here = {} THEN memory[a] ELSE content[CHOOSE s \in here : TRUE]]
Store(memory, layout, w, h, content) ==
  LET y == StorePlane(memory, layout, "y", w, h, content)
      u == StorePlane(y, layout, "u", w, h, content)
  IN StorePlane(u, layout, "v", w, h, content)

Init == /\ size \in Sizes /\ bitmap \in Bitmaps /\ at = "read"
        /\ converted = << >> /\ frame = << >> /\ buffer = << >> /\ file = << >>

------------------------------------------------------------------------------
(* I420Creator::my_process.                                                  *)

\* The size of its vectors, which start blank.
FrameBytes(w, h) == (w * h * 3) \div 2
NewFrame(w, h) == [a \in 0 .. FrameBytes(w, h) - 1 |-> Blank]

\* (First: the offset that the unused process() gives its third plane.)
QuarterOffset(w, h) == (w * h) \div 4
VOffset(w, h) == (w * h * 5) \div 4

Packed(w, h) ==
  [offset |-> [y |-> 0, u |-> w * h, v |-> VOffset(w, h)],
   stride |-> [y |-> w, u |-> w \div 2, v |-> w \div 2]]

\* ARGBToI420, upside down; the frame is one column wider than the bitmap.
Convert ==
  LET w == bitmap[1]
      h == bitmap[2]
      flipped == [s \in Samples(w, h) |-> <<s[1], Rows(s[1], h) - 1 - s[2], s[3]>>]
  IN /\ at = "read" /\ at' = "converted"
     /\ converted' = Store(NewFrame(w + 1, h), Packed(w + 1, h), w, h, flipped)
     /\ UNCHANGED <<size, bitmap, frame, buffer, file>>

\* I420Scale reads whole planes; a sample of the result stands for the plane
\* only if nothing else has got into it.
Scale ==
  LET w == bitmap[1] + 1
      h == bitmap[2]
      Sources(p) == {Read(converted, Address(Packed(w, h), s)) : s \in Plane(p, w, h)}
      scaled == [s \in Samples(size[1], size[2]) |->
                   IF \A q \in Sources(s[1]) : q[1] \in {s[1], "none"} THEN s ELSE Outside]
  IN /\ at = "converted" /\ at' = "scaled"
     /\ frame' = Store(NewFrame(size[1], size[2]), Packed(size[1], size[2]), size[1], size[2], scaled)
     /\ UNCHANGED <<size, bitmap, converted, buffer, file>>

------------------------------------------------------------------------------
(* VideoSourceMock::on_frame and VideoStreamReceiver::SaveVideoFrameToFile.  *)

\* The strides on_frame gives I420Buffer::Copy.  (First: height taken for width.)
HeightForWidth(w, h) == h
LumaStride(w, h) == w
ChromaStride(w, h) == Half(h)

CopyLayout(w, h) ==
  [offset |-> [y |-> 0, u |-> w * h, v |-> w * h + (w * h) \div 4],
   stride |-> [y |-> LumaStride(w, h), u |-> ChromaStride(w, h), v |-> ChromaStride(w, h)]]

OnFrame ==
  /\ at = "scaled" /\ at' = "sent"
  /\ buffer' = [s \in Samples(size[1], size[2]) |->
                  Read(frame, Address(CopyLayout(size[1], size[2]), s))]
  /\ UNCHANGED <<size, bitmap, converted, frame, file>>

\* The k-th byte of a plane of the I420Buffer, which has no padding here.
ByteOf(p, k) == buffer[<<p, k \div Columns(p, size[1]), k % Columns(p, size[1])>>]

\* What each fwrite writes of the planes.  (First: as much chroma as luma.)
SamePlanes(p, n) == n
PlaneBytes(p, n) == IF p = "y" THEN n ELSE n \div 4

SaveVideoFrameToFile ==
  LET n == size[1] * size[2]
      InPlane(p, k) == IF k < Columns(p, size[1]) * Rows(p, size[2]) THEN ByteOf(p, k) ELSE Outside
      u == PlaneBytes("y", n)
      v == u + PlaneBytes("u", n)
  IN /\ at = "sent" /\ at' = "saved"
     /\ file' = [k \in 0 .. v + PlaneBytes("v", n) - 1 |->
                   IF k < u THEN InPlane("y", k)
                   ELSE IF k < v THEN InPlane("u", k - u) ELSE InPlane("v", k - v)]
     /\ UNCHANGED <<size, bitmap, converted, frame, buffer>>

Next == Convert \/ Scale \/ OnFrame \/ SaveVideoFrameToFile

Spec == Init /\ [][Next]_vars

------------------------------------------------------------------------------
(* Properties.                                                               *)

Contents(f) == {f[a] : a \in DOMAIN f}

\* No plane runs into another one or beyond its memory, neither in the vectors of
\* my_process, of which the first is laid out for a bitmap one column wider, nor
\* in what on_frame reads, although its chroma strides are made from the height:
\* this takes a picture at least as wide as it is high
\* (i420_creator.cpp:126-150, video-channel/main.cpp:69-73).
PlanesApart ==
  /\ \A p \in Planes, s \in Samples(bitmap[1], bitmap[2]) :
       at # "read" => Read(converted, Address(Packed(bitmap[1] + 1, bitmap[2]), s))[1] = s[1]
  /\ \A s \in Samples(size[1], size[2]) :
       at \notin {"read", "converted"} =>
         Read(frame, Address(Packed(size[1], size[2]), s))[1] = s[1]
  /\ \A s \in DOMAIN buffer : buffer[s][1] = s[1]

\* The luma of the buffer is that of the frame, and so is the chroma of a square
\* picture (i420_creator.cpp:142-150, video-channel/main.cpp:69-73).
LumaIntact == \A s \in DOMAIN buffer : s[1] = "y" \/ size[1] = size[2] => buffer[s] = s

\* The file is the I420 picture that was received: its planes one after another
\* without padding (video-channel/main.cpp:143-148).
FileIsReceived ==
  at = "saved" => /\ \A s \in DOMAIN buffer : Read(file, Address(Packed(size[1], size[2]), s)) = buffer[s]
                  /\ Outside \notin Contents(file)

\* book/Chapter1/1-2-videostream.md:297: webrtc is given pictures in I420 format.
\* So every sample of the buffer is the frame's sample in the same place.
BufferIsFrame == \A s \in DOMAIN buffer : buffer[s] = s
=============================================================================
