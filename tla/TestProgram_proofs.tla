-------------------------- MODULE TestProgram_proofs --------------------------
(***************************************************************************)
(* Proofs about TestProgram, for any self tests, lengths of the input file *)
(* and delay of the encoder.                                               *)
(*                                                                         *)
(* Two things are inductive.  From the session on, the test's own context  *)
(* is current and its device memory, if any, was allocated there; a test   *)
(* that breaks off may leave contexts on the stack, but then its memory is *)
(* lost anyway and the next test pushes its own.  And while a test runs,   *)
(* its output file holds exactly the first pictures that have come back.   *)
(***************************************************************************)
EXTENDS TestProgram, SequenceTheorems, TLAPS

\* The points of a test at which it has a session.
InSession == {"init", "bgra", "file", "read", "adjust", "encode", "release"}

OwnContext ==
  /\ at \in InSession => Current = test /\ bgra[test] \in {0, test}
  /\ at \in {"create", "open"} => bgra[test] = 0
  /\ test = 1 => bgra[2] = 0

\* The first n pictures of a test.
FirstPictures(t, n) == [k \in 1 .. n |-> <<t, k>>]

\* While a test writes, its file holds what has come back of the pictures sent.
Sent == IF at \in {"adjust", "encode"} THEN i - 1 ELSE i
Writing == at \in {"read", "adjust", "encode"} \/ (at = "bgra" /\ ~UsesTable)
Counting ==
  /\ at \in {"create", "open", "init", "bgra", "file"} => i = 0
  /\ at \in {"adjust", "encode"} => i > 0
Written ==
  /\ Writing => output[OutFile] = FirstPictures(test, Returned(Sent))
  /\ at = "release" => i = file /\ output[OutFile] = FirstPictures(test, file)
  /\ at = "ended" /\ test \notin early =>
       file \in Nat /\ output[OutFile] = FirstPictures(test, file)
OnlyFirstPictures ==
  \A f \in {"enc_test_0202", "enc_test_0203"} :
    \E t \in {1, 2}, n \in Nat : output[f] = FirstPictures(t, n)

IInv == /\ TypeOK /\ OwnContext /\ CompletedTestLeavesNothing
        /\ Counting /\ Written /\ OnlyFirstPictures
------------------------------------------------------------------------------
(* Sequences.                                                               *)

LEMMA PopAfterPush ==
  ASSUME NEW S, NEW s \in Seq(S), NEW x \in S
  PROVE  PopOnly(Append(s, x)) = s
<1> DEFINE t == Append(s, x)
<1>1. t \in Seq(S) /\ Len(t) = Len(s) + 1 /\ Len(s) \in Nat
  OBVIOUS
<1>2. \A k \in 1 .. Len(s) : t[k] = s[k]
  OBVIOUS
<1>3. PopOnly(t) = SubSeq(t, 1, Len(s))
  BY <1>1 DEF PopOnly
<1> HIDE DEF t
<1>4. SubSeq(t, 1, Len(s)) = [k \in 1 .. Len(s) |-> t[k]]
  BY <1>1
<1>5. s = [k \in 1 .. Len(s) |-> s[k]]
  OBVIOUS
<1> QED
  BY <1>2, <1>3, <1>4, <1>5 DEF t

LEMMA TopOfStack ==
  ASSUME NEW s \in Seq({1, 2})
  PROVE  s # << >> => s[Len(s)] \in {1, 2}
OBVIOUS

LEMMA FirstPicturesFacts ==
  ASSUME NEW t \in {1, 2}, NEW n \in Nat
  PROVE  /\ FirstPictures(t, n) \in Seq({1, 2} \X Nat)
         /\ Len(FirstPictures(t, n)) = n
         /\ DOMAIN FirstPictures(t, n) = 1 .. n
         /\ \A k \in 1 .. n : FirstPictures(t, n)[k] = <<t, k>>
BY DEF FirstPictures

\* What comes back next continues the file.
LEMMA PacketsContinue ==
  ASSUME test \in {1, 2}, NEW m \in Nat, NEW n \in Nat, m <= n
  PROVE  FirstPictures(test, m) \o Packets(m, n) = FirstPictures(test, n)
<1> DEFINE a == FirstPictures(test, m)
           b == Packets(m, n)
           c == FirstPictures(test, n)
<1>1. /\ a \in Seq({1, 2} \X Nat) /\ Len(a) = m /\ \A k \in 1 .. m : a[k] = <<test, k>>
      /\ c \in Seq({1, 2} \X Nat) /\ Len(c) = n /\ \A k \in 1 .. n : c[k] = <<test, k>>
  BY FirstPicturesFacts
<1>2. n - m \in Nat
  OBVIOUS
<1>3. /\ b \in Seq({1, 2} \X Nat) /\ Len(b) = n - m
      /\ \A k \in 1 .. n - m : b[k] = <<test, m + k>>
  BY <1>2 DEF Packets
<1> HIDE DEF a, b, c
<1>4. a \o b \in Seq({1, 2} \X Nat) /\ Len(a \o b) = n
  BY <1>1, <1>3
<1>5. ASSUME NEW k \in 1 .. n PROVE (a \o b)[k] = c[k]
  <2> Len(a) + Len(b) = n
    BY <1>1, <1>3
  <2>1. k \in 1 .. Len(a) + Len(b) /\ k \in Nat
    OBVIOUS
  <2>2. (a \o b)[k] = IF k <= Len(a) THEN a[k] ELSE b[k - Len(a)]
    BY <1>1, <1>3, <2>1, ConcatProperties
  <2>3. CASE k <= m
    <3>1. k \in 1 .. m
      BY <2>1, <2>3
    <3>2. a[k] = <<test, k>> /\ c[k] = <<test, k>>
      BY <1>1, <3>1
    <3>3. (a \o b)[k] = a[k]
      BY <1>1, <2>2, <2>3
    <3> QED
      BY <3>2, <3>3
  <2>4. CASE k > m
    <3>1. (a \o b)[k] = b[k - m] /\ k - m \in 1 .. n - m
      BY <1>1, <2>2, <2>4
    <3>4. \A j \in 1 .. n - m : b[j] = <<test, m + j>>
      BY <1>3
    <3>5. b[k - m] = <<test, m + (k - m)>>
      BY <3>1, <3>4, Zenon
    <3>6. m + (k - m) = k
      BY <2>1
    <3>2. b[k - m] = <<test, k>>
      BY <3>5, <3>6
    <3>3. c[k] = <<test, k>>
      BY <1>1
    <3> QED
      BY <3>1, <3>2, <3>3
  <2> QED
    BY <2>3, <2>4
<1>6. a \o b = c
  <2> DEFINE d == a \o b
  <2>1. Len(d) = n /\ Len(c) = n /\ d \in Seq({1, 2} \X Nat) /\ c \in Seq({1, 2} \X Nat)
    BY <1>1, <1>4
  <2>2. \A k \in 1 .. n : d[k] = c[k]
    BY <1>5
  <2> HIDE DEF d
  <2>3. d = c
    BY <2>1, <2>2, SeqEqual
  <2> QED
    BY <2>3 DEF d
<1> QED
  BY <1>6 DEF a, b, c

LEMMA ReturnedFacts ==
  ASSUME NEW n \in Nat
  PROVE  /\ Returned(n) \in Nat /\ Returned(n) <= n
         /\ n > 0 => n - 1 \in Nat /\ Returned(n - 1) <= Returned(n)
BY DelayIsNat DEF Returned

LEMMA NoPictures == ASSUME NEW t PROVE FirstPictures(t, 0) = << >>
BY DEF FirstPictures

LEMMA OutFileFacts == OutFile \in {"enc_test_0202", "enc_test_0203"}
BY DEF OutFile

LEMMA RatesFacts ==
  /\ FirstAverage \in Nat /\ (FirstAverage \div 30) * 5 \in Nat
  /\ \A n \in Nat : n \div 2 \in Nat /\ n \div 30 \in Nat
<1>1. FirstAverage = 200000 \/ FirstAverage = 100000
  BY DEF FirstAverage
<1>2. \A n \in Nat : n \div 2 \in Nat /\ n \div 30 \in Nat
  OBVIOUS
<1>3. FirstAverage \in Nat
  BY <1>1
<1>4. FirstAverage \div 30 \in Nat
  BY <1>2, <1>3
<1> DEFINE d == FirstAverage \div 30
<1>5. d \in Nat
  BY <1>4
<1> HIDE DEF d
<1>6. d * 5 \in Nat
  BY <1>5
<1> QED
  BY <1>2, <1>3, <1>6 DEF d
------------------------------------------------------------------------------
(* The initial states.                                                      *)

LEMMA InitIInv == Init => IInv
<1> SUFFICES ASSUME Init PROVE IInv
  OBVIOUS
<1>1. TypeOK
  <2>1. entry \in Entries /\ file \in FileLengths \union {NoFile} /\ test \in {1, 2}
        /\ at = "create" /\ sessions \subseteq {1, 2} /\ early \subseteq {1, 2}
    BY DEF Init
  <2>2. i \in Nat /\ i <= IF file = NoFile THEN 0 ELSE file
    BY LengthsAreNat DEF Init, NoFile
  <2>3. stack \in Seq({1, 2}) /\ bgra \in [{1, 2} -> 0 .. 2]
    BY DEF Init
  <2>4. rates \in [average : Nat, vbv : Nat]
    BY DEF Init, NoRates
  <2>5. output \in [{"enc_test_0202", "enc_test_0203"} -> Seq({1, 2} \X Nat)]
    <3> DEFINE none == << >>
               S == Seq({1, 2} \X Nat)
    <3>1. none \in S
      BY EmptySeq
    <3>2. output = [enc_test_0202 |-> none, enc_test_0203 |-> none]
      BY DEF Init
    <3> HIDE DEF none, S
    <3>3. output \in [{"enc_test_0202", "enc_test_0203"} -> S]
      BY <3>1, <3>2
    <3> QED
      BY <3>3 DEF S
  <2> QED
    BY <2>1, <2>2, <2>3, <2>4, <2>5 DEF TypeOK
<1>2. OwnContext
  BY DEF Init, OwnContext, InSession
<1>3. CompletedTestLeavesNothing
  BY DEF Init, CompletedTestLeavesNothing
<1>4. Counting /\ Written
  BY DEF Init, Counting, Written, Writing
<1>5. OnlyFirstPictures
  BY NoPictures DEF Init, OnlyFirstPictures
<1> QED
  BY <1>1, <1>2, <1>3, <1>4, <1>5 DEF IInv
------------------------------------------------------------------------------
(* One lemma per conjunct of the invariant.                                 *)

\* What is written is always a run of pictures of the running test.
LEMMA PacketsType ==
  ASSUME test \in {1, 2}, NEW m \in Nat, NEW n \in Nat, m <= n
  PROVE  Packets(m, n) \in Seq({1, 2} \X Nat)
<1>1. n - m \in Nat
  OBVIOUS
<1> QED
  BY <1>1 DEF Packets

LEMMA TypeStep == ASSUME IInv, [Next]_vars PROVE TypeOK'
<1> USE DEF IInv
<1> DEFINE Points == {"create", "open", "init", "bgra", "file", "read", "adjust", "encode",
                      "release", "ended"}
           Files == {"enc_test_0202", "enc_test_0203"}
<1>t. TypeOK
  OBVIOUS
<1>p. stack \in Seq({1, 2}) => Append(stack, test) \in Seq({1, 2})
  BY DEF TypeOK
<1>o. ASSUME NEW s \in Seq({1, 2} \X Nat), output' = [output EXCEPT ![OutFile] = @ \o s]
      PROVE  output' \in [Files -> Seq({1, 2} \X Nat)]
  <2>1. OutFile \in Files /\ output \in [Files -> Seq({1, 2} \X Nat)]
    BY OutFileFacts DEF TypeOK
  <2>2. output[OutFile] \in Seq({1, 2} \X Nat)
    BY <2>1
  <2>3. output[OutFile] \o s \in Seq({1, 2} \X Nat)
    BY <2>2, <1>o, ConcatProperties
  <2> QED
    BY <1>o, <2>1, <2>3
<1>1. CASE CreateContext
  BY <1>1, <1>t, <1>p DEF CreateContext, Goto, TypeOK
<1>2. CASE OpenSession
  BY <1>2, <1>t DEF OpenSession, Goto, EndsEarly, TypeOK
<1>3. CASE CreateEncoder
  <2>1. rates' \in [average : Nat, vbv : Nat]
    BY <1>3, <1>t, RatesFacts DEF CreateEncoder, NoRates, TypeOK
  <2>2. stack' \in Seq({1, 2})
    BY <1>3, <1>t, <1>p DEF CreateEncoder, MaybePushed, TypeOK
  <2>3. at' \in Points /\ early' \subseteq {1, 2}
        /\ UNCHANGED <<entry, file, test, i, sessions, bgra, output>>
    BY <1>3, <1>t DEF CreateEncoder, Goto, EndsEarly, TypeOK
  <2> QED
    BY <2>1, <2>2, <2>3, <1>t DEF TypeOK
<1>4. CASE AllocateBgra
  <2>1. Current \in 0 .. 2
    BY <1>t, TopOfStack DEF Current, TypeOK
  <2>2. bgra' \in [{1, 2} -> 0 .. 2]
    BY <1>4, <2>1, <1>t DEF AllocateBgra, TypeOK
  <2>3. at' \in Points
        /\ UNCHANGED <<entry, file, test, i, stack, sessions, rates, output, early>>
    BY <1>4 DEF AllocateBgra, Goto
  <2> QED
    BY <2>2, <2>3, <1>t DEF TypeOK
<1>5. CASE OpenFiles
  <2>1. output' \in [Files -> Seq({1, 2} \X Nat)]
    <3>1. << >> \in Seq({1, 2} \X Nat)
      BY EmptySeq
    <3>2. output' \in {output, [output EXCEPT ![OutFile] = << >>]}
      BY <1>5 DEF OpenFiles
    <3> QED
      BY <3>1, <3>2, <1>t DEF TypeOK
  <2>2. at' \in Points /\ early' \subseteq {1, 2}
        /\ UNCHANGED <<entry, file, test, i, stack, sessions, bgra, rates>>
    BY <1>5, <1>t DEF OpenFiles, Goto, EndsEarly, TypeOK
  <2> QED
    BY <2>1, <2>2, <1>t DEF TypeOK
<1>6. CASE ReadPicture
  <2>1. file \in Nat \union {NoFile}
    BY <1>t, LengthsAreNat DEF TypeOK
  <2>2. i' \in Nat /\ i' <= IF file = NoFile THEN 0 ELSE file
    BY <1>6, <2>1, <1>t DEF ReadPicture, WholePictureLeft, NoFile, TypeOK
  <2>3. at' \in Points
        /\ UNCHANGED <<entry, file, test, stack, sessions, bgra, rates, output, early>>
    BY <1>6 DEF ReadPicture, Goto
  <2> QED
    BY <2>2, <2>3, <1>t DEF TypeOK
<1>7. CASE Adjust
  <2>1. rates.average \div 2 \in Nat /\ 200000 \in Nat
    BY <1>t, RatesFacts DEF TypeOK
  <2>2. \E a \in Nat : rates' \in {rates, [average |-> a, vbv |-> a \div 30]}
    BY <1>7, <2>1 DEF Adjust
  <2>3. rates' \in [average : Nat, vbv : Nat]
    BY <2>2, <1>t, RatesFacts DEF TypeOK
  <2>4. at' \in Points /\ early' \subseteq {1, 2}
        /\ UNCHANGED <<entry, file, test, i, stack, sessions, bgra, output>>
    <3>1. (Goto("adjust", "encode") \/ EndsEarly("adjust"))
          /\ UNCHANGED <<i, stack, sessions, bgra, output>>
      BY <1>7 DEF Adjust
    <3> QED
      BY <3>1, <1>t DEF Goto, EndsEarly, TypeOK
  <2> QED
    BY <2>3, <2>4, <1>t DEF TypeOK
<1>8. CASE Encode
  <2>1. at = "encode"
    BY <1>8 DEF Encode, Goto, EndsEarly
  <2>2. i \in Nat /\ i > 0 /\ i - 1 \in Nat
    BY <2>1, <1>t DEF TypeOK, Counting
  <2>3. /\ Returned(i - 1) \in Nat /\ Returned(i) \in Nat
        /\ Returned(i - 1) <= Returned(i)
    BY <2>2, ReturnedFacts
  <2>4. Packets(Returned(i - 1), Returned(i)) \in Seq({1, 2} \X Nat)
    BY <2>3, <1>t, PacketsType DEF TypeOK
  <2>5. output' \in [Files -> Seq({1, 2} \X Nat)]
    BY <1>8, <2>4, <1>o, <1>t DEF Encode, TypeOK
  <2>6. stack' \in Seq({1, 2})
    BY <1>8, <1>t, <1>p DEF Encode, MaybePushed, TypeOK
  <2>7. at' \in Points /\ early' \subseteq {1, 2}
        /\ UNCHANGED <<entry, file, test, i, sessions, bgra, rates>>
    BY <1>8, <1>t DEF Encode, Goto, EndsEarly, TypeOK
  <2> QED
    BY <2>5, <2>6, <2>7, <1>t DEF TypeOK
<1>9. CASE EndOfFile
  <2>1. i \in Nat /\ Returned(i) \in Nat /\ Returned(i) <= i
    BY <1>t, ReturnedFacts DEF TypeOK
  <2>2. EndEncode \in Seq({1, 2} \X Nat)
    BY <2>1, <1>t, PacketsType DEF TypeOK, EndEncode
  <2>3. output' \in [Files -> Seq({1, 2} \X Nat)]
    BY <1>9, <2>2, <1>o, <1>t DEF EndOfFile, TypeOK
  <2>4. at' \in Points /\ early' \subseteq {1, 2}
        /\ UNCHANGED <<entry, file, test, i, stack, sessions, bgra, rates>>
    BY <1>9, <1>t DEF EndOfFile, Goto, EndsEarly, TypeOK
  <2> QED
    BY <2>3, <2>4, <1>t DEF TypeOK
<1>10. CASE Release
  <2>1. stack' = stack
    BY <1>10, <1>t, PopAfterPush DEF Release, ReleaseCudaResources, TypeOK
  <2>2. bgra' \in [{1, 2} -> 0 .. 2]
    <3>1. bgra' \in {bgra, [bgra EXCEPT ![test] = 0]}
      BY <1>10 DEF Release
    <3> QED
      BY <3>1, <1>t DEF TypeOK
  <2>3. at' \in Points /\ sessions' \subseteq {1, 2}
        /\ UNCHANGED <<entry, file, test, i, rates, output, early>>
    BY <1>10, <1>t DEF Release, Goto, TypeOK
  <2> QED
    BY <2>1, <2>2, <2>3, <1>t DEF TypeOK
<1>11. CASE NextTest
  <2>1. 0 <= IF file = NoFile THEN 0 ELSE file
    BY <1>t, LengthsAreNat DEF TypeOK, NoFile
  <2>2. rates' \in [average : Nat, vbv : Nat]
    BY <1>11 DEF NextTest, NoRates
  <2> QED
    BY <1>11, <2>1, <2>2, <1>t DEF NextTest, TypeOK
<1>12. CASE UNCHANGED vars
  BY <1>12, <1>t DEF vars, TypeOK
<1> QED
  BY <1>1, <1>2, <1>3, <1>4, <1>5, <1>6, <1>7, <1>8, <1>9, <1>10, <1>11, <1>12 DEF Next

\* Only a completed test, an exception or the next test leaves the points of a
\* session, and only the actions named here change the stack and the memory.
LEMMA StackStep == ASSUME IInv, [Next]_vars PROVE OwnContext' /\ CompletedTestLeavesNothing'
<1> DEFINE Goal == OwnContext' /\ CompletedTestLeavesNothing'
<1>t. TypeOK /\ OwnContext /\ CompletedTestLeavesNothing
  BY DEF IInv
<1>b. test \in {1, 2} /\ bgra \in [{1, 2} -> 0 .. 2] /\ stack \in Seq({1, 2})
  BY <1>t DEF TypeOK
<1>u. ASSUME UNCHANGED <<test, stack, sessions, bgra, early>>, at' # "ended",
             at' \notin {"create", "open"}, at \in InSession
      PROVE  Goal
  BY <1>t, <1>b, <1>u DEF OwnContext, CompletedTestLeavesNothing, Current, InSession
<1>e. ASSUME EndsEarly(at), UNCHANGED <<sessions, bgra>>
      PROVE  Goal
  <2>1. at' = "ended" /\ test' = test /\ early' = early \union {test}
    BY <1>e DEF EndsEarly
  <2>2. OwnContext'
    BY <1>t, <1>e, <2>1 DEF OwnContext, InSession
  <2>3. CompletedTestLeavesNothing'
    BY <1>t, <1>e, <2>1 DEF CompletedTestLeavesNothing
  <2> QED
    BY <2>2, <2>3
<1>1. CASE CreateContext
  BY <1>1, <1>t, <1>b DEF CreateContext, Goto, OwnContext, CompletedTestLeavesNothing, InSession
<1>2. CASE OpenSession
  <2>1. CASE EndsEarly("open") /\ UNCHANGED sessions
    BY <1>2, <2>1, <1>e DEF OpenSession, EndsEarly
  <2>2. CASE Goto("open", "init") /\ Current = test /\ sessions' = sessions \union {test}
    <3>1. at = "open" /\ at' = "init" /\ UNCHANGED <<test, stack, bgra, early>>
      BY <1>2, <2>2 DEF OpenSession, Goto
    <3>2. OwnContext'
      BY <1>t, <2>2, <3>1 DEF OwnContext, InSession, Current
    <3>3. CompletedTestLeavesNothing'
      BY <1>t, <1>b, <2>2, <3>1 DEF CompletedTestLeavesNothing
    <3> QED
      BY <3>2, <3>3
  <2> QED
    BY <1>2, <2>1, <2>2 DEF OpenSession
<1>3. CASE CreateEncoder
  <2>1. CASE EndsEarly("init")
    BY <1>3, <2>1, <1>e DEF CreateEncoder, EndsEarly
  <2>2. CASE ~EndsEarly("init")
    <3>1. at = "init" /\ at' \in {"bgra", "file"}
          /\ UNCHANGED <<test, stack, sessions, bgra, early>>
      BY <1>3, <2>2 DEF CreateEncoder, Goto
    <3> QED
      BY <3>1, <1>u DEF InSession
  <2> QED
    BY <2>1, <2>2
<1>4. CASE AllocateBgra
  <2>1. at = "bgra" /\ at' \in {"file", "read"} /\ UNCHANGED <<test, stack, sessions, early>>
    BY <1>4 DEF AllocateBgra, Goto
  <2>2. Current = test /\ bgra[test] \in {0, test} /\ (test = 1 => bgra[2] = 0)
    BY <1>t, <2>1 DEF OwnContext, InSession
  <2>3. bgra' \in {bgra, [bgra EXCEPT ![test] = test]}
    BY <1>4, <2>2 DEF AllocateBgra
  <2>4. bgra'[test] \in {0, test} /\ \A t \in {1, 2} : t # test => bgra'[t] = bgra[t]
    BY <2>2, <2>3, <1>b
  <2>5. OwnContext'
    BY <2>1, <2>2, <2>4 DEF OwnContext, InSession, Current
  <2>6. CompletedTestLeavesNothing'
    BY <2>1, <2>4, <1>t, <1>b DEF CompletedTestLeavesNothing
  <2> QED
    BY <2>5, <2>6
<1>5. CASE OpenFiles
  <2>1. CASE EndsEarly("file")
    BY <1>5, <2>1, <1>e DEF OpenFiles, EndsEarly
  <2>2. CASE ~EndsEarly("file")
    <3>1. at = "file" /\ at' \in {"bgra", "read"}
          /\ UNCHANGED <<test, stack, sessions, bgra, early>>
      BY <1>5, <2>2 DEF OpenFiles, Goto
    <3> QED
      BY <3>1, <1>u DEF InSession
  <2> QED
    BY <2>1, <2>2
<1>6. CASE ReadPicture
  <2>1. at = "read" /\ at' \in {"adjust", "encode"}
        /\ UNCHANGED <<test, stack, sessions, bgra, early>>
    BY <1>6 DEF ReadPicture, Goto
  <2> QED
    BY <2>1, <1>u DEF InSession
<1>7. CASE Adjust
  <2>1. (Goto("adjust", "encode") \/ EndsEarly("adjust")) /\ UNCHANGED <<stack, sessions, bgra>>
    BY <1>7 DEF Adjust
  <2>2. CASE EndsEarly("adjust")
    BY <2>1, <2>2, <1>e DEF EndsEarly
  <2>3. CASE Goto("adjust", "encode")
    BY <2>1, <2>3, <1>u DEF Goto, InSession
  <2> QED
    BY <2>1, <2>2, <2>3
<1>8. CASE Encode
  <2>1. CASE EndsEarly("encode")
    BY <1>8, <2>1, <1>e DEF Encode, EndsEarly
  <2>2. CASE ~EndsEarly("encode")
    <3>1. at = "encode" /\ at' = "read" /\ UNCHANGED <<test, stack, sessions, bgra, early>>
      BY <1>8, <2>2 DEF Encode, Goto
    <3> QED
      BY <3>1, <1>u DEF InSession
  <2> QED
    BY <2>1, <2>2
<1>9. CASE EndOfFile
  <2>1. CASE EndsEarly("read")
    BY <1>9, <2>1, <1>e DEF EndOfFile, EndsEarly
  <2>2. CASE ~EndsEarly("read")
    <3>1. at = "read" /\ at' = "release" /\ UNCHANGED <<test, stack, sessions, bgra, early>>
      BY <1>9, <2>2 DEF EndOfFile, Goto
    <3> QED
      BY <3>1, <1>u DEF InSession
  <2> QED
    BY <2>1, <2>2
<1>10. CASE Release
  <2>1. at = "release" /\ at' = "ended" /\ UNCHANGED <<test, early>>
        /\ sessions' = sessions \ {test}
    BY <1>10 DEF Release, Goto
  <2>2. Current = test /\ bgra[test] \in {0, test} /\ (test = 1 => bgra[2] = 0)
    BY <1>t, <2>1 DEF OwnContext, InSession
  <2>3. ReleaseCudaResources(stack) = stack
    BY <1>b, PopAfterPush DEF ReleaseCudaResources
  <2>4. bgra' = IF bgra[test] = test THEN [bgra EXCEPT ![test] = 0] ELSE bgra
    BY <1>10, <2>2, <2>3 DEF Release, Current
  <2>5. bgra'[test] = 0 /\ \A t \in {1, 2} : t # test => bgra'[t] = bgra[t]
    BY <2>2, <2>4, <1>b
  <2>6. OwnContext'
    BY <2>1, <2>2, <2>5 DEF OwnContext, InSession
  <2>7. CompletedTestLeavesNothing'
    BY <2>1, <2>5, <1>t, <1>b DEF CompletedTestLeavesNothing
  <2> QED
    BY <2>6, <2>7
<1>11. CASE NextTest
  <2>1. /\ at = "ended" /\ test = 1 /\ at' = "create" /\ test' = 2
        /\ UNCHANGED <<sessions, bgra, early>>
    BY <1>11 DEF NextTest
  <2>2. OwnContext'
    BY <1>t, <2>1 DEF OwnContext, InSession
  <2>3. CompletedTestLeavesNothing'
    BY <1>t, <2>1 DEF CompletedTestLeavesNothing
  <2> QED
    BY <2>2, <2>3
<1>12. CASE UNCHANGED vars
  BY <1>12, <1>t DEF vars, OwnContext, CompletedTestLeavesNothing, Current
<1> QED
  BY <1>1, <1>2, <1>3, <1>4, <1>5, <1>6, <1>7, <1>8, <1>9, <1>10, <1>11, <1>12 DEF Next

\* A file that is written holds the first pictures of the running test.
LEMMA FilesStep ==
  ASSUME TypeOK, OnlyFirstPictures, NEW n \in Nat,
         output' \in {output, [output EXCEPT ![OutFile] = FirstPictures(test, n)]}
  PROVE  OnlyFirstPictures'
<1>1. CASE output' = output
  BY <1>1 DEF OnlyFirstPictures
<1>2. CASE output' = [output EXCEPT ![OutFile] = FirstPictures(test, n)]
  <2>1. \A f \in {"enc_test_0202", "enc_test_0203"} :
          output'[f] = IF f = OutFile THEN FirstPictures(test, n) ELSE output[f]
    BY <1>2 DEF TypeOK
  <2>2. test \in {1, 2}
    BY DEF TypeOK
  <2> QED
    BY <2>1, <2>2 DEF OnlyFirstPictures
<1> QED
  BY <1>1, <1>2

LEMMA OutputStep == ASSUME IInv, [Next]_vars PROVE Counting' /\ Written' /\ OnlyFirstPictures'
<1> DEFINE Goal == Counting' /\ Written' /\ OnlyFirstPictures'
<1>t. TypeOK /\ Counting /\ Written /\ OnlyFirstPictures
  BY DEF IInv
<1>b. /\ test \in {1, 2} /\ i \in Nat
      /\ output \in [{"enc_test_0202", "enc_test_0203"} -> Seq({1, 2} \X Nat)]
      /\ OutFile \in {"enc_test_0202", "enc_test_0203"}
  BY <1>t, OutFileFacts DEF TypeOK
<1>f. UNCHANGED <<entry, test>> => UNCHANGED <<UsesTable, OutFile, Fn>>
  BY DEF UsesTable, OutFile, Fn
<1>s. ASSUME UNCHANGED output PROVE OnlyFirstPictures'
  BY <1>s, <1>t DEF OnlyFirstPictures
<1>e. ASSUME EndsEarly(at), UNCHANGED <<i, output>> PROVE Goal
  <2>1. at' = "ended" /\ test' \in early'
    BY <1>e DEF EndsEarly
  <2> QED
    BY <2>1, <1>e, <1>s DEF Counting, Written, Writing
<1>q. ASSUME UNCHANGED <<i, output>>, i = 0 \/ at' \in {"init", "open"},
             at \in {"create", "open", "init"}, at' \in {"open", "init", "bgra", "file"},
             at' = "bgra" => UsesTable, UNCHANGED <<entry, test>>
      PROVE  Goal
  <2>1. i = 0
    BY <1>q, <1>t DEF Counting
  <2> QED
    BY <2>1, <1>q, <1>f, <1>s DEF Counting, Written, Writing
<1>1. CASE CreateContext
  BY <1>1, <1>q DEF CreateContext, Goto
<1>2. CASE OpenSession
  <2>1. CASE EndsEarly("open")
    BY <1>2, <2>1, <1>e DEF OpenSession, EndsEarly
  <2>2. CASE ~EndsEarly("open")
    BY <1>2, <2>2, <1>q DEF OpenSession, Goto
  <2> QED
    BY <2>1, <2>2
<1>3. CASE CreateEncoder
  <2>1. CASE EndsEarly("init")
    BY <1>3, <2>1, <1>e DEF CreateEncoder, EndsEarly
  <2>2. CASE ~EndsEarly("init")
    <3>1. at = "init" /\ at' = (IF UsesTable THEN "bgra" ELSE "file")
          /\ UNCHANGED <<entry, test, i, output>>
      BY <1>3, <2>2 DEF CreateEncoder, Goto
    <3>2. i = 0
      BY <3>1, <1>t DEF Counting
    <3> QED
      BY <3>1, <3>2, <1>q
  <2> QED
    BY <2>1, <2>2
<1>4. CASE AllocateBgra
  <2>1. at = "bgra" /\ at' = (IF UsesTable THEN "file" ELSE "read")
        /\ UNCHANGED <<entry, test, i, output>>
    BY <1>4 DEF AllocateBgra, Goto
  <2>2. i = 0
    BY <2>1, <1>t DEF Counting
  <2>3. ~UsesTable => output[OutFile] = FirstPictures(test, Returned(i))
    BY <2>1, <1>t DEF Written, Writing, Sent
  <2>4. Sent' = i /\ Returned(Sent)' = Returned(i)
    BY <2>1, <1>f DEF Sent, Returned
  <2>5. ~UsesTable => output'[OutFile'] = FirstPictures(test', Returned(Sent)')
    BY <2>1, <2>3, <2>4, <1>f
  <2>6. Written'
    BY <2>1, <2>5, <1>f DEF Written, Writing
  <2> QED
    BY <2>1, <2>2, <2>6, <1>s DEF Counting
<1>5. CASE OpenFiles
  <2>1. CASE EndsEarly("file")
    BY <1>5, <2>1, <1>e DEF OpenFiles, EndsEarly, Goto
  <2>2. CASE ~EndsEarly("file")
    <3>1. at = "file" /\ at' = (IF UsesTable THEN "read" ELSE "bgra")
          /\ UNCHANGED <<entry, test, i>> /\ output' = [output EXCEPT ![OutFile] = << >>]
      BY <1>5, <2>2 DEF OpenFiles, Goto
    <3>2. i = 0 /\ Returned(0) = 0
      BY <3>1, <1>t, DelayIsNat DEF Counting, Returned
    <3>3. output' = [output EXCEPT ![OutFile] = FirstPictures(test, 0)]
      BY <3>1, NoPictures
    <3>4. OnlyFirstPictures'
      BY <3>3, <1>t, FilesStep
    <3>5. output'[OutFile] = FirstPictures(test, 0)
      BY <3>3, <1>b
    <3>6. Returned(0)' = 0
      BY <3>1, <3>2, <1>f DEF Returned
    <3>7. Written'
      BY <3>1, <3>2, <3>5, <3>6, <1>f DEF Written, Writing, Sent
    <3> QED
      BY <3>1, <3>2, <3>4, <3>7 DEF Counting
  <2> QED
    BY <2>1, <2>2
<1>6. CASE ReadPicture
  <2>1. at = "read" /\ at' \in {"adjust", "encode"} /\ i' = i + 1
        /\ UNCHANGED <<entry, test, output>>
    BY <1>6 DEF ReadPicture, Goto
  <2>2. Sent = i /\ Sent' = i
    BY <2>1, <1>b DEF Sent
  <2>3. output[OutFile] = FirstPictures(test, Returned(i))
    BY <2>1, <2>2, <1>t DEF Written, Writing
  <2>4. Returned(Sent)' = Returned(i)
    BY <2>2, <2>1, <1>f DEF Returned
  <2>5. Written'
    BY <2>1, <2>3, <2>4, <1>f DEF Written
  <2> QED
    BY <2>1, <2>5, <1>b, <1>s DEF Counting
<1>7. CASE Adjust
  <2>1. (Goto("adjust", "encode") \/ EndsEarly("adjust")) /\ UNCHANGED <<i, output>>
    BY <1>7 DEF Adjust
  <2>2. CASE EndsEarly("adjust")
    BY <2>1, <2>2, <1>e DEF EndsEarly
  <2>3. CASE Goto("adjust", "encode")
    <3>1. at = "adjust" /\ at' = "encode" /\ UNCHANGED <<entry, test, i, output>>
      BY <2>1, <2>3 DEF Goto
    <3>2. Sent = i - 1 /\ Sent' = i - 1
      BY <3>1 DEF Sent
    <3>3. output[OutFile] = FirstPictures(test, Returned(i - 1))
      BY <3>1, <3>2, <1>t DEF Written, Writing
    <3>4. Returned(Sent)' = Returned(i - 1)
      BY <3>1, <3>2, <1>f DEF Returned
    <3>5. Written'
      BY <3>1, <3>3, <3>4, <1>f DEF Written
    <3> QED
      BY <3>1, <3>5, <1>s, <1>t DEF Counting
  <2> QED
    BY <2>1, <2>2, <2>3
<1>8. CASE Encode
  <2>1. CASE EndsEarly("encode")
    BY <1>8, <2>1, <1>e DEF Encode, EndsEarly, Goto
  <2>2. CASE ~EndsEarly("encode")
    <3>1. /\ at = "encode" /\ at' = "read" /\ UNCHANGED <<entry, test, i>>
          /\ output' = [output EXCEPT ![OutFile] = @ \o Packets(Returned(i - 1), Returned(i))]
      BY <1>8, <2>2 DEF Encode, Goto
    <3>2. /\ i > 0 /\ i - 1 \in Nat /\ Returned(i - 1) \in Nat /\ Returned(i) \in Nat
          /\ Returned(i - 1) <= Returned(i)
      BY <3>1, <1>t, <1>b, ReturnedFacts DEF Counting
    <3>3. output[OutFile] = FirstPictures(test, Returned(i - 1))
      BY <3>1, <1>t DEF Written, Writing, Sent
    <3>4. FirstPictures(test, Returned(i - 1)) \o Packets(Returned(i - 1), Returned(i))
            = FirstPictures(test, Returned(i))
      BY <3>2, <1>b, PacketsContinue
    <3>5. output' = [output EXCEPT ![OutFile] = FirstPictures(test, Returned(i))]
      BY <3>1, <3>3, <3>4
    <3>6. OnlyFirstPictures'
      BY <3>2, <3>5, <1>t, FilesStep
    <3>7. output'[OutFile] = FirstPictures(test, Returned(i))
      BY <3>5, <1>b
    <3>8. Sent' = i /\ Returned(Sent)' = Returned(i)
      BY <3>1, <1>f DEF Sent, Returned
    <3>9. Written'
      BY <3>1, <3>7, <3>8, <1>f DEF Written
    <3> QED
      BY <3>1, <3>6, <3>9 DEF Counting
  <2> QED
    BY <2>1, <2>2
<1>9. CASE EndOfFile
  <2>1. CASE EndsEarly("read")
    BY <1>9, <2>1, <1>e DEF EndOfFile, EndsEarly, Goto
  <2>2. CASE ~EndsEarly("read")
    <3>1. /\ at = "read" /\ at' = "release" /\ UNCHANGED <<entry, file, test, i>> /\ i = file
          /\ output' = [output EXCEPT ![OutFile] = @ \o Packets(Returned(i), i)]
      BY <1>9, <2>2 DEF EndOfFile, Goto, EndEncode
    <3>2. Returned(i) \in Nat /\ Returned(i) <= i
      BY <1>b, ReturnedFacts
    <3>3. output[OutFile] = FirstPictures(test, Returned(i))
      BY <3>1, <1>t DEF Written, Writing, Sent
    <3>4. FirstPictures(test, Returned(i)) \o Packets(Returned(i), i) = FirstPictures(test, i)
      BY <3>2, <1>b, PacketsContinue
    <3>5. output' = [output EXCEPT ![OutFile] = FirstPictures(test, i)]
      BY <3>1, <3>3, <3>4
    <3>6. OnlyFirstPictures'
      BY <3>5, <1>b, <1>t, FilesStep
    <3>7. output'[OutFile] = FirstPictures(test, i)
      BY <3>5, <1>b
    <3>8. Written'
      BY <3>1, <3>7, <1>f DEF Written, Writing
    <3> QED
      BY <3>1, <3>6, <3>8 DEF Counting
  <2> QED
    BY <2>1, <2>2
<1>10. CASE Release
  <2>1. at = "release" /\ at' = "ended" /\ UNCHANGED <<entry, file, test, i, output>>
    BY <1>10 DEF Release, Goto
  <2>2. file \in Nat /\ output[OutFile] = FirstPictures(test, file)
    BY <2>1, <1>t, <1>b DEF Written
  <2>3. Written'
    BY <2>1, <2>2, <1>f DEF Written, Writing
  <2> QED
    BY <2>1, <2>3, <1>s DEF Counting
<1>11. CASE NextTest
  <2>1. at' = "create" /\ i' = 0 /\ UNCHANGED output
    BY <1>11 DEF NextTest
  <2> QED
    BY <2>1, <1>s DEF Counting, Written, Writing
<1>12. CASE UNCHANGED vars
  <2>1. UNCHANGED <<entry, file, test, at, i, output, early>>
    BY <1>12 DEF vars
  <2>2. Sent' = Sent /\ Returned(Sent)' = Returned(Sent)
    BY <2>1, <1>f DEF Sent, Returned
  <2>3. Written'
    BY <2>1, <2>2, <1>f, <1>t DEF Written, Writing
  <2> QED
    BY <2>1, <2>3, <1>s, <1>t DEF Counting
<1> QED
  BY <1>1, <1>2, <1>3, <1>4, <1>5, <1>6, <1>7, <1>8, <1>9, <1>10, <1>11, <1>12 DEF Next
------------------------------------------------------------------------------
(* The theorems.                                                            *)

LEMMA Invariance == Spec => []IInv
<1>1. IInv /\ [Next]_vars => IInv'
  BY TypeStep, StackStep, OutputStep DEF IInv
<1> QED
  BY InitIInv, <1>1, PTL DEF Spec

\* Every variable of the test program keeps its type.
THEOREM TypeCorrect == Spec => []TypeOK
<1>1. IInv => TypeOK
  BY DEF IInv
<1> QED
  BY Invariance, <1>1, PTL

\* A test that comes to its end leaves no session and no device memory behind
\* (c_encoder_nv_impl.cpp:60-78, 406-409, 638-641, 743).
THEOREM LeavesNothingTheorem == Spec => []CompletedTestLeavesNothing
<1>1. IInv => CompletedTestLeavesNothing
  BY DEF IInv
<1> QED
  BY Invariance, <1>1, PTL

\* An output file holds the first pictures of one test in order, all of them
\* when the test comes to its end (c_encoder_nv_impl.cpp:374-405, 543-637,
\* 700-741, test_nv_encoder.cpp:42-80).
THEOREM OutputTheorem == Spec => []OutputIsInput
<1>1. ASSUME IInv PROVE OutputIsInput
  <2>1. TypeOK /\ Written /\ OnlyFirstPictures
    BY <1>1 DEF IInv
  <2>2. DOMAIN output = {"enc_test_0202", "enc_test_0203"} /\ test \in {1, 2}
    BY <2>1 DEF TypeOK
  <2>3. ASSUME NEW f \in DOMAIN output, NEW k \in DOMAIN output[f]
        PROVE  output[f][k] = <<output[f][1][1], k>>
    <3>1. PICK t \in {1, 2}, n \in Nat : output[f] = FirstPictures(t, n)
      BY <2>1, <2>2 DEF OnlyFirstPictures
    <3>2. k \in 1 .. n
      BY <3>1, <2>3, FirstPicturesFacts
    <3> 1 \in 1 .. n
      BY <3>2
    <3>3. FirstPictures(t, n)[k] = <<t, k>> /\ FirstPictures(t, n)[1] = <<t, 1>>
      BY <3>2, FirstPicturesFacts
    <3> QED
      BY <3>1, <3>3
  <2>4. ASSUME at = "ended", test \notin early
        PROVE  /\ Len(output[OutFile]) = file
               /\ \A k \in DOMAIN output[OutFile] : output[OutFile][k][1] = test
    <3>1. file \in Nat /\ output[OutFile] = FirstPictures(test, file)
      BY <2>1, <2>4 DEF Written
    <3>2. /\ Len(FirstPictures(test, file)) = file
          /\ DOMAIN FirstPictures(test, file) = 1 .. file
          /\ \A k \in 1 .. file : FirstPictures(test, file)[k] = <<test, k>>
      BY <2>2, <3>1, FirstPicturesFacts
    <3> QED
      BY <3>1, <3>2
  <2> QED
    BY <2>3, <2>4 DEF OutputIsInput
<1> QED
  BY Invariance, <1>1, PTL

------------------------------------------------------------------------------
(* The bitrate.  It is halved with the first picture and every AdjustEvery  *)
(* pictures from there on; after twelve times the 200000 of the start are   *)
(* 48, and the VBV buffer has 48 \div 30 = 1 bit; once more and it is empty.*)

\* A file over which test1 halves its bitrate at most twelve times: 240 pictures
\* or less, as the five seconds of test_h264_5s_nv12.yuv are.
FilesAreShort == \A n \in FileLengths : n <= 12 * AdjustEvery

Halvings(n) == (n + AdjustEvery - 1) \div AdjustEvery
Halved(k) == 200000 \div 2^k
CalledFor(n) == IF Fn = "test1" THEN Halved(Halvings(n)) ELSE 200000

\* What the driver encodes with is what the pictures read so far call for; what
\* the encoder was created with is replaced with the first picture.
RateSoFar ==
  Fn # "test0" =>
    /\ at \in {"bgra", "file"} \/ (at = "read" /\ i = 0) \/ (at = "adjust" /\ i = 1) =>
         rates.average = FirstAverage
    /\ at = "adjust" => TimeToAdjust(i) /\ (i > 1 => rates.average = CalledFor(i - 1))
    /\ at = "encode" \/ (at = "read" /\ i > 0) =>
         rates.average = CalledFor(i) /\ rates.vbv = rates.average \div 30

LEMMA Division ==
  ASSUME NEW k \in Nat, NEW w \in Nat \ {0}
  PROVE  k \div w \in Nat /\ k % w \in 0 .. w - 1 /\ k = (k \div w) * w + (k % w)
OBVIOUS

\* Row q of w columns: the quotient is the row.
LEMMA Quotient ==
  ASSUME NEW w \in Nat \ {0}, NEW q \in Nat, NEW r \in 0 .. w - 1
  PROVE  (q * w + r) \div w = q /\ (q * w + r) % w = r
OBVIOUS

LEMMA AdjustFacts == AdjustEvery \in Nat \ {0} /\ AdjustEvery >= 2
BY DelayIsNat

\* The bitrate is halved with picture n + 1 exactly when it is time to adjust.
LEMMA HalvingsStep ==
  ASSUME NEW n \in Nat
  PROVE  /\ Halvings(n) \in Nat
         /\ Halvings(n + 1) = IF TimeToAdjust(n + 1) THEN Halvings(n) + 1 ELSE Halvings(n)
<1> DEFINE A == AdjustEvery
           q == n \div A
           r == n % A
<1>1. A \in Nat \ {0} /\ A >= 2
  BY AdjustFacts
<1>2. q \in Nat /\ r \in 0 .. A - 1 /\ n = q * A + r
  BY <1>1, Division
<1> HIDE DEF q, r, A
<1> DEFINE m == q * A
<1>3. m \in Nat /\ (q + 1) * A = m + A
  BY <1>1, <1>2
<1>4. ASSUME NEW d \in 0 .. A - 1
      PROVE  (m + d) \div A = q /\ (m + d) % A = d /\ (m + A + d) \div A = q + 1
  BY <1>1, <1>2, <1>3, <1>4, Quotient
<1>5. n = m + r
  BY <1>2
<1> HIDE DEF m
<1>6. (n + 1 + A - 1) \div A = q + 1
  <2>1. n + 1 + A - 1 = m + A + r
    BY <1>1, <1>2, <1>3, <1>5
  <2> QED
    BY <2>1, <1>2, <1>4
<1>7. CASE r = 0
  <2>1. n + A - 1 = m + (A - 1) /\ n + 1 = m + 1 /\ A - 1 \in 0 .. A - 1 /\ 1 \in 0 .. A - 1
    BY <1>1, <1>3, <1>5, <1>7
  <2>2. (n + A - 1) \div A = q /\ (n + 1) % A = 1
    BY <2>1, <1>4
  <2> QED
    BY <2>2, <1>2, <1>6 DEF Halvings, TimeToAdjust, A
<1>8. CASE r # 0
  <2>1. n + A - 1 = m + A + (r - 1) /\ r - 1 \in 0 .. A - 1
    BY <1>1, <1>2, <1>3, <1>5, <1>8
  <2>2. (n + A - 1) \div A = q + 1
    BY <2>1, <1>4
  <2>3. (n + 1) % A # 1
    <3>1. CASE r + 1 = A
      <4>1. n + 1 = (q + 1) * A + 0 /\ q + 1 \in Nat /\ 0 \in 0 .. A - 1
        BY <3>1, <1>1, <1>2, <1>3, <1>5
      <4>2. ((q + 1) * A + 0) % A = 0
        BY <4>1, <1>1, Quotient
      <4> QED
        BY <4>1, <4>2
    <3>2. CASE r + 1 # A
      <4>1. n + 1 = m + (r + 1) /\ r + 1 \in 0 .. A - 1 /\ r + 1 # 1
        BY <3>2, <1>1, <1>2, <1>3, <1>5, <1>8
      <4> QED
        BY <4>1, <1>4
    <3> QED
      BY <3>1, <3>2
  <2> QED
    BY <2>2, <2>3, <1>2, <1>6 DEF Halvings, TimeToAdjust, A
<1> QED
  BY <1>2, <1>7, <1>8

LEMMA FirstHalving == Halvings(0) = 0 /\ TimeToAdjust(1)
<1> DEFINE A == AdjustEvery
<1>1. A \in Nat \ {0} /\ A >= 2
  BY AdjustFacts
<1> HIDE DEF A
<1>2. A - 1 \in 0 .. A - 1 /\ 1 \in 0 .. A - 1 /\ 0 * A = 0
  BY <1>1
<1>3. (0 * A + (A - 1)) \div A = 0 /\ (0 * A + 1) % A = 1
  BY <1>1, <1>2, Quotient
<1>4. 0 * A + (A - 1) = 0 + A - 1 /\ 0 * A + 1 = 1
  BY <1>1, <1>2
<1> QED
  BY <1>3, <1>4 DEF Halvings, TimeToAdjust, A

\* A short file halves it twelve times at most.
LEMMA FewHalvings ==
  ASSUME NEW n \in Nat, n <= 12 * AdjustEvery
  PROVE  Halvings(n) \in 0 .. 12
<1> DEFINE A == AdjustEvery
           k == n + A - 1
           h == k \div A
<1>1. A \in Nat \ {0} /\ A >= 2
  BY AdjustFacts
<1>2. k \in Nat /\ k < 13 * A
  BY <1>1
<1> HIDE DEF k
<1>3. h \in Nat /\ k % A \in 0 .. A - 1 /\ k = h * A + (k % A)
  BY <1>1, <1>2, Division
<1> HIDE DEF h, A
<1>4. ~(h >= 13)
  <2> SUFFICES ASSUME h >= 13 PROVE FALSE
    OBVIOUS
  <2>1. h * A >= 13 * A
    BY <1>1, <1>3
  <2> QED
    BY <2>1, <1>1, <1>2, <1>3
<1> QED
  BY <1>3, <1>4 DEF Halvings, h, k, A

\* Halving what is left after k halvings.
LEMMA HalveOnceMore ==
  ASSUME NEW k \in 0 .. 12
  PROVE  /\ k < 12 => Halved(k) \div 2 = Halved(k + 1)
         /\ Halved(k) \div 30 > 0
<1>1. /\ Halved(0) = 200000 /\ Halved(1) = 100000 /\ Halved(2) = 50000 /\ Halved(3) = 25000
      /\ Halved(4) = 12500 /\ Halved(5) = 6250 /\ Halved(6) = 3125 /\ Halved(7) = 1562
      /\ Halved(8) = 781 /\ Halved(9) = 390 /\ Halved(10) = 195 /\ Halved(11) = 97
      /\ Halved(12) = 48
  BY DEF Halved
<1>2. \/ k = 0 \/ k = 1 \/ k = 2 \/ k = 3 \/ k = 4 \/ k = 5 \/ k = 6 \/ k = 7 \/ k = 8
      \/ k = 9 \/ k = 10 \/ k = 11 \/ k = 12
  OBVIOUS
<1>3. CASE k = 0 BY <1>1, <1>3
<1>4. CASE k = 1 BY <1>1, <1>4
<1>5. CASE k = 2 BY <1>1, <1>5
<1>6. CASE k = 3 BY <1>1, <1>6
<1>7. CASE k = 4 BY <1>1, <1>7
<1>8. CASE k = 5 BY <1>1, <1>8
<1>9. CASE k = 6 BY <1>1, <1>9
<1>10. CASE k = 7 BY <1>1, <1>10
<1>11. CASE k = 8 BY <1>1, <1>11
<1>12. CASE k = 9 BY <1>1, <1>12
<1>13. CASE k = 10 BY <1>1, <1>13
<1>14. CASE k = 11 BY <1>1, <1>14
<1>15. CASE k = 12 BY <1>1, <1>15
<1> QED
  BY <1>2, <1>3, <1>4, <1>5, <1>6, <1>7, <1>8, <1>9, <1>10, <1>11, <1>12, <1>13, <1>14, <1>15

LEMMA FirstAverageFacts ==
  Fn = "test1" => FirstAverage = 200000 /\ CalledFor(0) = 200000
<1>1. Halved(0) = 200000
  BY DEF Halved
<1> QED
  BY <1>1, FirstHalving DEF FirstAverage, CalledFor

LEMMA RateStep ==
  ASSUME FilesAreShort, IInv, RateSoFar, [Next]_vars
  PROVE  RateSoFar'
<1>t. /\ i \in Nat /\ rates \in [average : Nat, vbv : Nat]
      /\ at \in {"create", "open", "init", "bgra", "file"} => i = 0
      /\ at \in {"adjust", "encode"} => i > 0
  BY DEF IInv, TypeOK, Counting
<1>f. UNCHANGED <<entry, test>> =>
        UNCHANGED <<Fn, FirstAverage, UsesTable>> /\ \A n : CalledFor(n)' = CalledFor(n)
  BY DEF Fn, FirstAverage, UsesTable, CalledFor
<1>q. ASSUME at' \in {"create", "open", "init", "release", "ended"} PROVE RateSoFar'
  BY <1>q DEF RateSoFar
<1>1. CASE CreateContext
  BY <1>1, <1>q DEF CreateContext, Goto
<1>2. CASE OpenSession
  BY <1>2, <1>q DEF OpenSession, Goto, EndsEarly
<1>3. CASE CreateEncoder
  <2>1. CASE EndsEarly("init")
    BY <2>1, <1>q DEF EndsEarly
  <2>2. CASE ~EndsEarly("init")
    <3>1. /\ at' \in {"bgra", "file"} /\ UNCHANGED <<entry, test>>
          /\ Fn # "test0" => rates' = [average |-> FirstAverage, vbv |-> (FirstAverage \div 30) * 5]
      BY <1>3, <2>2 DEF CreateEncoder, Goto
    <3>2. Fn # "test0" => rates'.average = FirstAverage
      BY <3>1
    <3> QED
      BY <3>1, <3>2, <1>f DEF RateSoFar
  <2> QED
    BY <2>1, <2>2
<1>4. CASE AllocateBgra
  <2>1. at = "bgra" /\ at' \in {"file", "read"} /\ i = 0 /\ UNCHANGED <<entry, test, i, rates>>
    BY <1>4, <1>t DEF AllocateBgra, Goto
  <2> QED
    BY <2>1, <1>f DEF RateSoFar
<1>5. CASE OpenFiles
  <2>1. CASE EndsEarly("file")
    BY <2>1, <1>q DEF EndsEarly
  <2>2. CASE ~EndsEarly("file")
    <3>1. at = "file" /\ at' \in {"bgra", "read"} /\ i = 0 /\ UNCHANGED <<entry, test, i, rates>>
      BY <1>5, <2>2, <1>t DEF OpenFiles, Goto
    <3> QED
      BY <3>1, <1>f DEF RateSoFar
  <2> QED
    BY <2>1, <2>2
<1>6. CASE ReadPicture
  <2>1. /\ at = "read" /\ i' = i + 1 /\ UNCHANGED <<entry, test, rates>>
        /\ at' = IF Fn # "test0" /\ TimeToAdjust(i + 1) THEN "adjust" ELSE "encode"
    BY <1>6 DEF ReadPicture, Goto
  <2>2. CASE TimeToAdjust(i + 1)
    <3>1. Fn # "test0" => at' = "adjust"
      BY <2>1, <2>2
    <3>2. i = 0 \/ i > 0
      BY <1>t
    <3>3. i' - 1 = i /\ (i' = 1 => i = 0) /\ (i' > 1 => i > 0)
      BY <2>1, <1>t
    <3>4. CalledFor(i - 1)' = CalledFor(i)
      BY <2>1, <3>3 DEF CalledFor, Halvings, Fn
    <3>5. TimeToAdjust(i')
      BY <2>1, <2>2
    <3>6. TimeToAdjust(i)'
      BY <3>5 DEF TimeToAdjust
    <3> QED
      BY <2>1, <3>1, <3>3, <3>4, <3>6, <1>f DEF RateSoFar
  <2>3. CASE ~TimeToAdjust(i + 1)
    <3>1. at' = "encode" /\ i > 0
      BY <2>1, <2>3, <1>t, FirstHalving
    <3>2. Halvings(i + 1) = Halvings(i)
      BY <2>3, <1>t, HalvingsStep
    <3>3. CalledFor(i)' = CalledFor(i)
      BY <2>1, <3>2 DEF CalledFor, Halvings, Fn
    <3> QED
      BY <2>1, <3>1, <3>3, <1>f DEF RateSoFar
  <2> QED
    BY <2>2, <2>3
<1>7. CASE Adjust
  <2>1. CASE EndsEarly("adjust")
    BY <2>1, <1>q DEF EndsEarly
  <2>2. CASE ~EndsEarly("adjust")
    <3> DEFINE new == IF Fn = "test1" THEN rates.average \div 2 ELSE 200000
    <3>1. /\ at = "adjust" /\ at' = "encode" /\ UNCHANGED <<entry, test, i>>
          /\ rates' = [average |-> new, vbv |-> new \div 30]
      BY <1>7, <2>2 DEF Adjust, Goto
    <3>2. ASSUME Fn # "test0" PROVE new = CalledFor(i)
      <4>1. CASE Fn # "test1"
        BY <4>1 DEF CalledFor
      <4>2. CASE Fn = "test1"
        <5> DEFINE n == i - 1
        <5>1. n \in Nat /\ n + 1 = i /\ i \in Nat /\ (n = 0 => i = 1) /\ (n > 0 => i > 1)
          BY <3>1, <1>t
        <5>2. TimeToAdjust(i)
          BY <3>1, <3>2 DEF RateSoFar
        <5>3. Halvings(n) \in Nat /\ Halvings(i) = Halvings(n) + 1
          BY <5>1, <5>2, HalvingsStep
        <5>4. i <= 12 * AdjustEvery
          <6>1. i <= (IF file = NoFile THEN 0 ELSE file) /\ file \in FileLengths \union {NoFile}
            BY DEF IInv, TypeOK
          <6>2. file \in FileLengths /\ i <= file
            BY <6>1, <3>1, <1>t
          <6>3. file <= 12 * AdjustEvery /\ file \in Nat
            BY <6>2, LengthsAreNat DEF FilesAreShort
          <6> QED
            BY <6>2, <6>3, <1>t, AdjustFacts
        <5>5. Halvings(i) \in 0 .. 12
          BY <5>1, <5>4, FewHalvings
        <5>6. rates.average = CalledFor(n)
          <6>1. CASE n = 0
            <7>1. rates.average = 200000
              BY <6>1, <5>1, <3>1, <4>2, FirstAverageFacts DEF RateSoFar
            <7> QED
              BY <7>1, <6>1, <4>2, FirstAverageFacts
          <6>2. CASE n > 0
            BY <6>2, <5>1, <3>1, <4>2 DEF RateSoFar
          <6> QED
            BY <6>1, <6>2, <5>1
        <5> DEFINE h == Halvings(n)
        <5>7. h \in 0 .. 12 /\ h < 12 /\ Halvings(i) = h + 1
          BY <5>3, <5>5
        <5>8. new = Halved(h) \div 2
          <6>1. new = CalledFor(n) \div 2
            BY <4>2, <5>6
          <6> HIDE DEF new
          <6>2. CalledFor(n) = Halved(h)
            BY <4>2 DEF CalledFor
          <6> QED
            BY <6>1, <6>2
        <5> HIDE DEF new, h
        <5>11. CalledFor(i) = Halved(h + 1)
          BY <4>2, <5>7 DEF CalledFor
        <5>9. Halved(h) \div 2 = Halved(h + 1)
          BY <5>7, HalveOnceMore
        <5> QED
          BY <5>8, <5>9, <5>11
      <4> QED
        BY <4>1, <4>2
    <3> HIDE DEF new
    <3>3. rates'.average = new /\ rates'.vbv = new \div 30
      BY <3>1
    <3>4. CalledFor(i)' = CalledFor(i) /\ Fn' = Fn
      BY <3>1 DEF CalledFor, Halvings, Fn
    <3> QED
      BY <3>1, <3>2, <3>3, <3>4 DEF RateSoFar
  <2> QED
    BY <2>1, <2>2
<1>8. CASE Encode
  <2>1. CASE EndsEarly("encode")
    BY <2>1, <1>q DEF EndsEarly
  <2>2. CASE ~EndsEarly("encode")
    <3>1. at = "encode" /\ at' = "read" /\ i > 0 /\ UNCHANGED <<entry, test, i, rates>>
      BY <1>8, <2>2, <1>t DEF Encode, Goto
    <3>2. CalledFor(i)' = CalledFor(i)
      BY <3>1 DEF CalledFor, Halvings, Fn
    <3> QED
      BY <3>1, <3>2, <1>f, <1>t DEF RateSoFar
  <2> QED
    BY <2>1, <2>2
<1>9. CASE EndOfFile
  BY <1>9, <1>q DEF EndOfFile, Goto, EndsEarly
<1>10. CASE Release
  BY <1>10, <1>q DEF Release, Goto
<1>11. CASE NextTest
  BY <1>11, <1>q DEF NextTest
<1>12. CASE UNCHANGED vars
  <2>1. UNCHANGED <<entry, test, at, i, rates>>
    BY <1>12 DEF vars
  <2>2. /\ CalledFor(i)' = CalledFor(i) /\ CalledFor(i - 1)' = CalledFor(i - 1)
        /\ TimeToAdjust(i)' = TimeToAdjust(i)
    BY <2>1 DEF CalledFor, Halvings, Fn, TimeToAdjust
  <2> QED
    BY <2>1, <2>2, <1>f DEF RateSoFar
<1> QED
  BY <1>1, <1>2, <1>3, <1>4, <1>5, <1>6, <1>7, <1>8, <1>9, <1>10, <1>11, <1>12 DEF Next

\* For every file that is short enough each picture is encoded at the bitrate its
\* number calls for, and the VBV buffer is never empty
\* (c_encoder_nv_impl.cpp:504-514, 554-592, 711-714, test_nv_encoder.cpp:61-64).
THEOREM RateTheorem == ASSUME FilesAreShort PROVE Spec => []RateFollowsPictures
<1>1. Init => RateSoFar
  BY DEF Init, RateSoFar
<1>2. IInv /\ RateSoFar /\ [Next]_vars => RateSoFar'
  BY RateStep
<1>3. ASSUME IInv, RateSoFar PROVE RateFollowsPictures
  <2> SUFFICES ASSUME at = "encode", Fn # "test0"
               PROVE  /\ rates.average = CalledFor(i)
                      /\ rates.vbv > 0
    BY DEF RateFollowsPictures, CalledFor, Halvings, Halved
  <2>1. rates.average = CalledFor(i) /\ rates.vbv = rates.average \div 30
    BY <1>3 DEF RateSoFar
  <2>2. CalledFor(i) \div 30 > 0
    <3>1. CASE Fn = "test1"
      <4>1. /\ i \in Nat /\ i > 0 /\ file \in FileLengths \union {NoFile}
            /\ i <= IF file = NoFile THEN 0 ELSE file
        BY <1>3 DEF IInv, TypeOK, Counting
      <4>2. file \in FileLengths /\ i <= file
        BY <4>1
      <4>3. file <= 12 * AdjustEvery /\ file \in Nat
        BY <4>2, LengthsAreNat DEF FilesAreShort
      <4> DEFINE h == Halvings(i)
      <4>4. h \in 0 .. 12
        BY <4>1, <4>2, <4>3, AdjustFacts, FewHalvings
      <4>5. Halvings(i) = h
        OBVIOUS
      <4> HIDE DEF h
      <4>6. Halved(h) \div 30 > 0
        BY <4>4, HalveOnceMore
      <4>7. CalledFor(i) = Halved(h)
        BY <3>1, <4>5 DEF CalledFor
      <4> QED
        BY <4>6, <4>7
    <3>2. CASE Fn # "test1"
      BY <3>2 DEF CalledFor
    <3> QED
      BY <3>1, <3>2
  <2> QED
    BY <2>1, <2>2
<1> QED
  BY Invariance, <1>1, <1>2, <1>3, PTL DEF Spec
===============================================================================
