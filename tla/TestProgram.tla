----------------------------- MODULE TestProgram -----------------------------
(***************************************************************************)
(* The test program of the private codec (test_nv_encoder.cpp): main()     *)
(* runs the self test of the table and then test_nvenc in one process.     *)
(* Each test makes an encoder, encodes a file of raw pictures into an      *)
(* output file, adjusting the bitrate on the way, and destroys the encoder.*)
(* The table holds nvenc_test2; nvenc_test0 and nvenc_test1, which reach   *)
(* into NvEncoder, are kept beside it.                                     *)
(*                                                                         *)
(* Whatever throws ends a test in its catch block, which releases nothing, *)
(* and main() goes on to the next.  CUDA errors outside NvEncoder are only *)
(* logged.  CUDA keeps a stack of contexts per thread, and device memory   *)
(* belongs to the context that is current when it is allocated.            *)
(***************************************************************************)
EXTENDS Integers, Sequences

CONSTANTS Entries,       \* the self tests that may be in the table
          FileLengths,   \* lengths of the input file, in whole pictures
          AdjustEvery,   \* the bitrate is adjusted every AdjustEvery pictures, 20
          OutputDelay    \* pictures a NvEncoder keeps back that is not flushed, 3

ASSUME KnownEntries == Entries \subseteq {"test0", "test1", "test2"}
ASSUME LengthsAreNat == FileLengths \subseteq Nat
ASSUME DelayIsNat == AdjustEvery \in Nat \ {0, 1} /\ OutputDelay \in Nat

NoFile == -1

VARIABLES entry,     \* the self test in the table
          file,      \* whole pictures in the input file, or NoFile
          test,      \* 1 for the self test, 2 for test_nvenc
          at,        \* where the test is
          i,         \* pictures read
          stack,     \* CUDA's stack of contexts, each the test that created it
          sessions,  \* tests whose NVENC session is open
          bgra,      \* per test, the context dpBgraFrame is allocated in, or 0
          rates,     \* bitrate and VBV size the driver encodes with
          output,    \* the output files, pictures as <<test, number>>
          early      \* tests that ended before their end

vars == <<entry, file, test, at, i, stack, sessions, bgra, rates, output, early>>

Fn == IF test = 1 THEN entry ELSE "test_nvenc"
UsesTable == Fn \in {"test2", "test_nvenc"}
OutFile == IF Fn = "test0" THEN "enc_test_0202" ELSE "enc_test_0203"

NoRates == [average |-> 0, vbv |-> 0]
Current == IF stack = << >> THEN 0 ELSE stack[Len(stack)]

Init == /\ entry \in Entries /\ file \in FileLengths \union {NoFile}
        /\ test = 1 /\ at = "create" /\ i = 0
        /\ stack = << >> /\ sessions = {} /\ bgra = <<0, 0>> /\ rates = NoRates
        /\ output = [enc_test_0202 |-> << >>, enc_test_0203 |-> << >>]
        /\ early = {}

Goto(from, to) == at = from /\ at' = to /\ UNCHANGED <<entry, file, test, early>>

\* The test is over: an exception in its catch block, or no input file.
EndsEarly(from) == /\ at = from /\ at' = "ended" /\ early' = early \union {test}
                   /\ UNCHANGED <<entry, file, test>>

\* A CUDA call of NvEncoderCuda that throws leaves the context it has pushed.
MaybePushed == stack' \in {stack, Append(stack, test)}

------------------------------------------------------------------------------
(* Making the encoder.                                                       *)

\* cuCtxCreate makes the context current; its failure is only logged.
CreateContext ==
  /\ Goto("create", "open")
  /\ stack' \in {stack, Append(stack, test)}
  /\ UNCHANGED <<i, sessions, bgra, rates, output>>

\* Without a context there is no session.
OpenSession ==
  /\ \/ Goto("open", "init") /\ Current = test /\ sessions' = sessions \union {test}
     \/ EndsEarly("open") /\ UNCHANGED sessions
  /\ UNCHANGED <<i, stack, bgra, rates, output>>

\* 544 x 960 pictures at frameRateNum 30.  test1 computes in integers.
FirstAverage == IF Fn = "test1" THEN ((5 * 544 * 960) \div (1280 * 720)) * 100000 ELSE 100000

CreateEncoder ==
  /\ \/ /\ Goto("init", IF UsesTable THEN "bgra" ELSE "file")
        /\ rates' = IF Fn = "test0" THEN NoRates
                    ELSE [average |-> FirstAverage, vbv |-> (FirstAverage \div 30) * 5]
        /\ UNCHANGED stack
     \/ EndsEarly("init") /\ MaybePushed /\ UNCHANGED rates
  /\ UNCHANGED <<i, sessions, bgra, output>>

\* cuMemAlloc in whatever context is current; its failure is only logged.
AllocateBgra ==
  /\ Goto("bgra", IF UsesTable THEN "file" ELSE "read")
  /\ bgra' \in {bgra, [bgra EXCEPT ![test] = Current]}
  /\ UNCHANGED <<i, stack, sessions, rates, output>>

\* The output file is truncated.
OpenFiles ==
  /\ \/ /\ file # NoFile /\ Goto("file", IF UsesTable THEN "read" ELSE "bgra")
        /\ output' = [output EXCEPT ![OutFile] = << >>]
     \/ file = NoFile /\ EndsEarly("file") /\ UNCHANGED output
  /\ UNCHANGED <<i, stack, sessions, bgra, rates>>

------------------------------------------------------------------------------
(* The loop over the file.                                                   *)

\* (First: one picture too early.)
BeforeTheNext(n) == n % AdjustEvery = 0
TimeToAdjust(n) == n % AdjustEvery = 1

\* (First: a part of a picture at the end of the file counts, too.)
AnythingLeft == i <= file
WholePictureLeft == i < file

ReadPicture ==
  /\ WholePictureLeft /\ i' = i + 1
  /\ Goto("read", IF Fn # "test0" /\ TimeToAdjust(i + 1) THEN "adjust" ELSE "encode")
  /\ UNCHANGED <<stack, sessions, bgra, rates, output>>

\* test1 halves what the encoder has, the others call set_bitrate.
Adjust ==
  LET average == IF Fn = "test1" THEN rates.average \div 2 ELSE 200000
  IN /\ \/ /\ Goto("adjust", "encode")
           /\ rates' = [average |-> average, vbv |-> average \div 30]
        \/ EndsEarly("adjust") /\ UNCHANGED rates
     /\ UNCHANGED <<i, stack, sessions, bgra, output>>

\* Packets that have come back once n pictures were sent: nvenc_encode flushes
\* after every picture, test0 does not.
Returned(n) == IF Fn # "test0" THEN n ELSE IF n > OutputDelay THEN n - OutputDelay ELSE 0
Packets(from, to) == [k \in 1 .. to - from |-> <<test, from + k>>]

Encode ==
  /\ \/ /\ Goto("encode", "read") /\ UNCHANGED stack
        /\ output' = [output EXCEPT ![OutFile] = @ \o Packets(Returned(i - 1), Returned(i))]
     \/ EndsEarly("encode") /\ MaybePushed /\ UNCHANGED output
  /\ UNCHANGED <<i, sessions, bgra, rates>>

\* test0 and test1 call EndEncode for what is left.  (First: they do not.)
NothingLeft == << >>
EndEncode == Packets(Returned(i), i)

\* Less than a whole picture is left in the file.
EndOfFile ==
  /\ i = file
  /\ \/ /\ Goto("read", "release")
        /\ output' = [output EXCEPT ![OutFile] = @ \o EndEncode]
     \/ ~UsesTable /\ EndsEarly("read") /\ UNCHANGED output
  /\ UNCHANGED <<i, stack, sessions, bgra, rates>>

------------------------------------------------------------------------------
(* The end of a test.                                                        *)

\* What ReleaseCudaResources does to the stack: it pushes the encoder's context
\* and pops it again.  (First: without the push.)
PopOnly(s) == SubSeq(s, 1, Len(s) - 1)
ReleaseCudaResources(s) == PopOnly(Append(s, test))

\* nvenc_destroy destroys the encoder before it frees dpBgraFrame, the others
\* after.  Memory is freed in the context it was allocated in or not at all.
Release ==
  LET after == ReleaseCudaResources(stack)
      context == IF UsesTable THEN (IF after = << >> THEN 0 ELSE after[Len(after)]) ELSE Current
  IN /\ Goto("release", "ended")
     /\ sessions' = sessions \ {test} /\ stack' = after
     /\ bgra' = IF bgra[test] = context THEN [bgra EXCEPT ![test] = 0] ELSE bgra
     /\ UNCHANGED <<i, rates, output>>

NextTest ==
  /\ at = "ended" /\ test = 1
  /\ test' = 2 /\ at' = "create" /\ i' = 0 /\ rates' = NoRates
  /\ UNCHANGED <<entry, file, stack, sessions, bgra, output, early>>

Next == \/ CreateContext \/ OpenSession \/ CreateEncoder \/ AllocateBgra \/ OpenFiles
        \/ ReadPicture \/ Adjust \/ Encode \/ EndOfFile
        \/ Release \/ NextTest

Spec == Init /\ [][Next]_vars

------------------------------------------------------------------------------
(* Properties.                                                               *)

\* Every variable keeps its type.
TypeOK ==
  /\ entry \in Entries /\ file \in FileLengths \union {NoFile} /\ test \in {1, 2}
  /\ at \in {"create", "open", "init", "bgra", "file", "read", "adjust", "encode",
             "release", "ended"}
  /\ i \in Nat /\ i <= IF file = NoFile THEN 0 ELSE file
  /\ stack \in Seq({1, 2}) /\ sessions \subseteq {1, 2} /\ early \subseteq {1, 2}
  /\ bgra \in [{1, 2} -> 0 .. 2]
  /\ rates \in [average : Nat, vbv : Nat]
  /\ output \in [{"enc_test_0202", "enc_test_0203"} -> Seq({1, 2} \X Nat)]

\* An output file holds the pictures of one test, from the first one on and in
\* order, although both tests write the same file and a test may break off; a
\* test that comes to its end has written every whole picture of its input
\* (c_encoder_nv_impl.cpp:374-405, 543-637, 700-741, test_nv_encoder.cpp:42-80).
OutputIsInput ==
  /\ \A f \in DOMAIN output : \A k \in DOMAIN output[f] : output[f][k] = <<output[f][1][1], k>>
  /\ at = "ended" /\ test \notin early =>
       /\ Len(output[OutFile]) = file
       /\ \A k \in DOMAIN output[OutFile] : output[OutFile][k][1] = test

\* A test that comes to its end leaves neither a session nor device memory
\* behind, whatever contexts an earlier one has left on the stack: what NvEncoder
\* and nvenc_init allocate is freed with the same context current
\* (c_encoder_nv_impl.cpp:60-78, 151, 406-409, 638-641, 743).
CompletedTestLeavesNothing ==
  \A t \in {1, 2} :
    (t < test \/ (t = test /\ at = "ended")) /\ t \notin early => t \notin sessions /\ bgra[t] = 0

\* Each picture is encoded at the bitrate its number calls for: 200000 from the
\* first one on, or in test1 halved with the 1st, 21st, 41st, ... picture; and
\* the VBV buffer never shrinks to nothing (c_encoder_nv_impl.cpp:504-514,
\* 554-592, 711-714, test_nv_encoder.cpp:61-64).
RateFollowsPictures ==
  at = "encode" /\ Fn # "test0" =>
    /\ rates.average = IF Fn = "test1" THEN 200000 \div 2^((i + AdjustEvery - 1) \div AdjustEvery)
                                       ELSE 200000
    /\ rates.vbv > 0
=============================================================================
