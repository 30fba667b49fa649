-------------------------- MODULE FrameCopy_proofs --------------------------
(***************************************************************************)
(* The properties of FrameCopy for pictures and bitmaps of every size the  *)
(* assumptions allow.                                                      *)
(*                                                                         *)
(* The proofs rest on two facts about the layout of a picture: two samples *)
(* never share an address, and each address of a plane is the address of   *)
(* one of its samples.  With halves a and b of the width and the height, a *)
(* plane starts at 0, 4ab and 5ab and the picture ends at 6ab.             *)
(***************************************************************************)
EXTENDS FrameCopy, TLAPS

-----------------------------------------------------------------------------
(* Arithmetic of rows and columns. *)

\* Rows of w columns: a position determines its row and column.
LEMMA RowAndColumn ==
  ASSUME NEW w \in Nat, NEW r \in Nat, NEW q \in Nat,
         NEW c \in 0 .. w - 1, NEW d \in 0 .. w - 1, r * w + c = q * w + d
  PROVE  r = q /\ c = d
  OBVIOUS

\* The positions of m rows of w columns are below m * w.
LEMMA InsideRows ==
  ASSUME NEW w \in Nat, NEW m \in Nat, NEW r \in 0 .. m - 1, NEW c \in 0 .. w - 1
  PROVE  r * w + c \in 0 .. m * w - 1
  OBVIOUS

LEMMA Division ==
  ASSUME NEW k \in Nat, NEW w \in Nat \ {0}
  PROVE  k \div w \in Nat /\ k % w \in 0 .. w - 1 /\ (k \div w) * w + (k % w) = k
  OBVIOUS

\* And each position is one of them.
LEMMA PositionOf ==
  ASSUME NEW w \in Nat \ {0}, NEW m \in Nat, NEW k \in 0 .. m * w - 1
  PROVE  /\ k \div w \in 0 .. m - 1 /\ k % w \in 0 .. w - 1
         /\ (k \div w) * w + (k % w) = k
  <1> DEFINE q == k \div w
             c == k % w
  <1>0. k \in Nat
    OBVIOUS
  <1>1. q \in Nat /\ c \in 0 .. w - 1 /\ q * w + c = k
    BY <1>0, Division
  <1> HIDE DEF q, c
  <1>2. ~(q >= m)
    <2>1. SUFFICES ASSUME q >= m PROVE FALSE
      OBVIOUS
    <2>2. q * w >= m * w
      BY <1>1, <2>1
    <2> QED BY <1>1, <2>2
  <1>3. q \in 0 .. m - 1
    BY <1>1, <1>2
  <1> QED BY <1>1, <1>3 DEF q, c

\* Row and column can be read off a position.
LEMMA DivideByWidth ==
  ASSUME NEW w \in Nat \ {0}, NEW r \in Nat, NEW c \in 0 .. w - 1
  PROVE  (r * w + c) \div w = r /\ (r * w + c) % w = c
  OBVIOUS

\* Rows that overlap by a stride of b < a still end inside of b rows of a.
LEMMA ShortStride ==
  ASSUME NEW a \in Nat, NEW b \in Nat, b <= a, NEW r \in 0 .. b - 1, NEW c \in 0 .. a - 1
  PROVE  r * b + c \in 0 .. b * a - 1
  OBVIOUS

-----------------------------------------------------------------------------
(* The layout of a picture of even sides. *)

LEMMA Halves ==
  ASSUME NEW n \in Nat \ {0}, IsEven(n)
  PROVE  \E a \in Nat \ {0} : n = 2 * a /\ n \div 2 = a /\ Half(n) = a
  <1>1. n \div 2 \in Nat \ {0} /\ n = 2 * (n \div 2) /\ Half(n) = n \div 2
    BY DEF IsEven, Half
  <1> QED BY <1>1

\* Offsets, strides and the size of the memory, in terms of the halves.
LEMMA PackedLayout ==
  ASSUME NEW a \in Nat \ {0}, NEW b \in Nat \ {0}
  PROVE  /\ Packed(2 * a, 2 * b).offset["y"] = 0 /\ Packed(2 * a, 2 * b).stride["y"] = 2 * a
         /\ Packed(2 * a, 2 * b).offset["u"] = 4 * (a * b) /\ Packed(2 * a, 2 * b).stride["u"] = a
         /\ Packed(2 * a, 2 * b).offset["v"] = 5 * (a * b) /\ Packed(2 * a, 2 * b).stride["v"] = a
         /\ FrameBytes(2 * a, 2 * b) = 6 * (a * b)
  <1>1. (2 * a) * (2 * b) = 4 * (a * b) /\ a * b \in Nat /\ (2 * a) \div 2 = a
    OBVIOUS
  <1>2. VOffset(2 * a, 2 * b) = 5 * (a * b) /\ FrameBytes(2 * a, 2 * b) = 6 * (a * b)
    BY DEF VOffset, FrameBytes
  <1> QED BY <1>1, <1>2 DEF Packed

\* Rows and columns of the planes.
LEMMA PlaneSizes ==
  ASSUME NEW a \in Nat \ {0}, NEW b \in Nat \ {0}
  PROVE  /\ Columns("y", 2 * a) = 2 * a /\ Rows("y", 2 * b) = 2 * b
         /\ \A p \in {"u", "v"} : Columns(p, 2 * a) = a /\ Rows(p, 2 * b) = b
  BY DEF Columns, Rows, Half

\* What a sample of a picture is made of.
LEMMA SampleParts ==
  ASSUME NEW w, NEW h, NEW s \in Samples(w, h)
  PROVE  /\ s[1] \in Planes /\ s \in Plane(s[1], w, h) /\ s = <<s[1], s[2], s[3]>>
         /\ s[2] \in 0 .. Rows(s[1], h) - 1 /\ s[3] \in 0 .. Columns(s[1], w) - 1
  <1>1. PICK p \in Planes : s \in Plane(p, w, h)
    BY DEF Samples
  <1>2. s[1] = p /\ s = <<s[1], s[2], s[3]>> /\ s[2] \in 0 .. Rows(p, h) - 1
        /\ s[3] \in 0 .. Columns(p, w) - 1
    BY <1>1 DEF Plane
  <1> QED BY <1>1, <1>2

LEMMA SampleOf ==
  ASSUME NEW w, NEW h, NEW p \in Planes,
         NEW r \in 0 .. Rows(p, h) - 1, NEW c \in 0 .. Columns(p, w) - 1
  PROVE  <<p, r, c>> \in Samples(w, h) /\ <<p, r, c>> \in Plane(p, w, h)
  BY DEF Samples, Plane

\* The luma plane takes up four quarters of itself, each chroma plane one.
LEMMA PlaneRanges ==
  ASSUME NEW a \in Nat \ {0}, NEW b \in Nat \ {0}, NEW s \in Samples(2 * a, 2 * b)
  PROVE  /\ s[1] = "y" => Address(Packed(2 * a, 2 * b), s) = s[2] * (2 * a) + s[3]
         /\ s[1] = "y" => Address(Packed(2 * a, 2 * b), s) \in 0 .. 4 * (a * b) - 1
         /\ s[1] = "u" => Address(Packed(2 * a, 2 * b), s) = 4 * (a * b) + s[2] * a + s[3]
         /\ s[1] = "u" => Address(Packed(2 * a, 2 * b), s) \in 4 * (a * b) .. 5 * (a * b) - 1
         /\ s[1] = "v" => Address(Packed(2 * a, 2 * b), s) = 5 * (a * b) + s[2] * a + s[3]
         /\ s[1] = "v" => Address(Packed(2 * a, 2 * b), s) \in 5 * (a * b) .. 6 * (a * b) - 1
  <1> DEFINE W == 2 * a
             H == 2 * b
             m == a * b
             L == Packed(W, H)
  <1>1. /\ s[1] \in Planes /\ s[2] \in 0 .. Rows(s[1], H) - 1 /\ s[3] \in 0 .. Columns(s[1], W) - 1
    BY SampleParts
  <1>2. m \in Nat /\ (2 * b) * (2 * a) = 4 * m /\ b * a = m
    OBVIOUS
  <1>3. /\ Columns("y", W) = 2 * a /\ Rows("y", H) = 2 * b
        /\ \A p \in {"u", "v"} : Columns(p, W) = a /\ Rows(p, H) = b
    BY PlaneSizes
  <1>4. /\ L.offset["y"] = 0 /\ L.stride["y"] = 2 * a
        /\ L.offset["u"] = 4 * m /\ L.stride["u"] = a
        /\ L.offset["v"] = 5 * m /\ L.stride["v"] = a
    BY PackedLayout
  <1>5. Address(L, s) = L.offset[s[1]] + s[2] * L.stride[s[1]] + s[3]
    BY DEF Address
  <1> HIDE DEF L, W, H
  <1>6. CASE s[1] = "y"
    <2>1. s[2] \in 0 .. 2 * b - 1 /\ s[3] \in 0 .. 2 * a - 1
      BY <1>1, <1>3, <1>6
    <2>2. s[2] * (2 * a) + s[3] \in 0 .. (2 * b) * (2 * a) - 1
      BY <2>1, InsideRows
    <2>3. Address(L, s) = 0 + s[2] * (2 * a) + s[3]
      BY <1>4, <1>5, <1>6
    <2> HIDE DEF m
    <2>4. Address(L, s) = s[2] * (2 * a) + s[3]
      BY <2>1, <2>3
    <2>5. Address(L, s) \in 0 .. 4 * m - 1
      BY <2>2, <2>4, <1>2
    <2> QED BY <2>4, <2>5, <1>6 DEF L, W, H, m
  <1>7. ASSUME NEW p \in {"u", "v"}, s[1] = p
        PROVE  /\ Address(L, s) = L.offset[p] + s[2] * a + s[3]
               /\ s[2] * a + s[3] \in 0 .. m - 1
    <2>1. s[2] \in 0 .. b - 1 /\ s[3] \in 0 .. a - 1
      BY <1>1, <1>3, <1>7
    <2>2. s[2] * a + s[3] \in 0 .. b * a - 1
      BY <2>1, InsideRows
    <2> QED BY <1>2, <1>4, <1>5, <1>7, <2>2
  <1>8. CASE s[1] = "u"
    <2> HIDE DEF m
    <2>0. s[2] \in Nat /\ s[2] * a \in Nat /\ s[3] \in Nat
      BY <1>1, <1>3, <1>8
    <2>1. Address(L, s) = 4 * m + s[2] * a + s[3] /\ s[2] * a + s[3] \in 0 .. m - 1
      BY <1>4, <1>7, <1>8
    <2>2. Address(L, s) \in 4 * m .. 5 * m - 1
      BY <1>2, <2>0, <2>1
    <2> QED BY <2>1, <2>2, <1>8 DEF L, W, H, m
  <1>9. CASE s[1] = "v"
    <2> HIDE DEF m
    <2>0. s[2] \in Nat /\ s[2] * a \in Nat /\ s[3] \in Nat
      BY <1>1, <1>3, <1>9
    <2>1. Address(L, s) = 5 * m + s[2] * a + s[3] /\ s[2] * a + s[3] \in 0 .. m - 1
      BY <1>4, <1>7, <1>9
    <2>2. Address(L, s) \in 5 * m .. 6 * m - 1
      BY <1>2, <2>0, <2>1
    <2> QED BY <2>1, <2>2, <1>9 DEF L, W, H, m
  <1> QED BY <1>1, <1>6, <1>8, <1>9 DEF Planes

-----------------------------------------------------------------------------
(* The layout is a numbering of the samples. *)

Side == {n \in Nat \ {0} : IsEven(n)}

\* No two samples of a picture share an address, and all are inside its memory.
LEMMA AddressIsUnique ==
  ASSUME NEW W \in Side, NEW h \in Side, NEW s \in Samples(W, h)
  PROVE  /\ Address(Packed(W, h), s) \in 0 .. FrameBytes(W, h) - 1
         /\ \A t \in Samples(W, h) :
              Address(Packed(W, h), s) = Address(Packed(W, h), t) => s = t
  <1>1. PICK a \in Nat \ {0}, b \in Nat \ {0} : W = 2 * a /\ h = 2 * b
    BY Halves DEF Side
  <1> DEFINE L == Packed(W, h)
             m == a * b
  <1>2. m \in Nat /\ FrameBytes(W, h) = 6 * m
    <2>1. FrameBytes(2 * a, 2 * b) = 6 * (a * b)
      BY PackedLayout
    <2> QED BY <1>1, <2>1
  <1>3. \A t \in Samples(W, h) :
          /\ t[1] = "y" => Address(L, t) = t[2] * (2 * a) + t[3] /\ Address(L, t) \in 0 .. 4 * m - 1
          /\ t[1] = "u" => Address(L, t) = 4 * m + t[2] * a + t[3]
                           /\ Address(L, t) \in 4 * m .. 5 * m - 1
          /\ t[1] = "v" => Address(L, t) = 5 * m + t[2] * a + t[3]
                           /\ Address(L, t) \in 5 * m .. 6 * m - 1
    BY <1>1, PlaneRanges
  <1>4. \A t \in Samples(W, h) :
          /\ t[1] \in Planes /\ t = <<t[1], t[2], t[3]>>
          /\ t[2] \in Nat
          /\ t[3] \in 0 .. (IF t[1] = "y" THEN 2 * a ELSE a) - 1
    <2> SUFFICES ASSUME NEW t \in Samples(W, h)
                 PROVE  /\ t[1] \in Planes /\ t = <<t[1], t[2], t[3]>>
                        /\ t[2] \in Nat
                        /\ t[3] \in 0 .. (IF t[1] = "y" THEN 2 * a ELSE a) - 1
      OBVIOUS
    <2>1. /\ t[1] \in Planes /\ t = <<t[1], t[2], t[3]>>
          /\ t[2] \in 0 .. Rows(t[1], h) - 1 /\ t[3] \in 0 .. Columns(t[1], W) - 1
      BY SampleParts
    <2>2. /\ Columns(t[1], W) = (IF t[1] = "y" THEN 2 * a ELSE a)
          /\ Rows(t[1], h) \in Nat
      BY <1>1, <2>1, PlaneSizes DEF Planes
    <2> QED BY <2>1, <2>2
  <1> HIDE DEF L, m
  <1>5. Address(L, s) \in 0 .. 6 * m - 1
    BY <1>2, <1>3, <1>4 DEF Planes
  <1>6. ASSUME NEW t \in Samples(W, h), Address(L, s) = Address(L, t) PROVE s = t
    <2>1. s[1] = t[1]
      BY <1>2, <1>3, <1>4, <1>6 DEF Planes
    <2> DEFINE w == IF s[1] = "y" THEN 2 * a ELSE a
               r == s[2]
               q == t[2]
               c == s[3]
               d == t[3]
    <2>2. w \in Nat /\ r \in Nat /\ q \in Nat /\ c \in 0 .. w - 1 /\ d \in 0 .. w - 1
      BY <1>4, <2>1
    <2>3. r * w + c = q * w + d
      <3>0. r * a \in Nat /\ q * a \in Nat
        BY <2>2
      <3>1. CASE s[1] = "y"
        BY <1>3, <1>6, <2>1, <3>1
      <3>2. CASE s[1] = "u"
        <4>1. 4 * m + r * a + c = 4 * m + q * a + d
          BY <1>3, <1>6, <2>1, <3>2
        <4> HIDE DEF r, q, c, d
        <4>2. c \in Nat /\ d \in Nat
          BY <2>2
        <4> QED BY <1>2, <2>2, <3>0, <3>2, <4>1, <4>2
      <3>3. CASE s[1] = "v"
        <4>1. 5 * m + r * a + c = 5 * m + q * a + d
          BY <1>3, <1>6, <2>1, <3>3
        <4> HIDE DEF r, q, c, d
        <4>2. c \in Nat /\ d \in Nat
          BY <2>2
        <4> QED BY <1>2, <2>2, <3>0, <3>3, <4>1, <4>2
      <3> QED BY <1>4, <3>1, <3>2, <3>3 DEF Planes
    <2> HIDE DEF w, r, q, c, d
    <2>4. r = q /\ c = d
      BY <2>2, <2>3, RowAndColumn
    <2> QED BY <1>4, <2>1, <2>4 DEF r, q, c, d
  <1> QED BY <1>2, <1>5, <1>6 DEF L

\* Each address of a chroma plane is the address of one of its samples.
LEMMA PlaneIsFull ==
  ASSUME NEW a \in Nat \ {0}, NEW b \in Nat \ {0}, NEW p \in {"u", "v"},
         NEW k \in 0 .. b * a - 1
  PROVE  /\ <<p, k \div a, k % a>> \in Samples(2 * a, 2 * b)
         /\ Address(Packed(2 * a, 2 * b), <<p, k \div a, k % a>>)
              = Packed(2 * a, 2 * b).offset[p] + k
  <1> DEFINE L == Packed(2 * a, 2 * b)
             s == <<p, k \div a, k % a>>
  <1>1. k \div a \in 0 .. b - 1 /\ k % a \in 0 .. a - 1 /\ (k \div a) * a + (k % a) = k
    BY PositionOf
  <1>2. Columns(p, 2 * a) = a /\ Rows(p, 2 * b) = b
    BY PlaneSizes
  <1>3. s \in Samples(2 * a, 2 * b) /\ s[1] = p
    BY <1>1, <1>2, SampleOf DEF Planes
  <1>4. L.stride[p] = a /\ L.offset[p] \in Nat
    <2>1. /\ L.stride["u"] = a /\ L.offset["u"] = 4 * (a * b)
          /\ L.stride["v"] = a /\ L.offset["v"] = 5 * (a * b)
      BY PackedLayout
    <2>2. 4 * (a * b) \in Nat /\ 5 * (a * b) \in Nat
      OBVIOUS
    <2> HIDE DEF L
    <2>3. CASE p = "u"
      BY <2>1, <2>2, <2>3
    <2>4. CASE p = "v"
      BY <2>1, <2>2, <2>4
    <2> QED BY <2>3, <2>4
  <1>5. Address(L, s) = L.offset[p] + (k \div a) * L.stride[p] + (k % a)
    BY DEF Address
  <1> HIDE DEF L
  <1>7. (k \div a) * a \in Nat
    BY <1>1
  <1>6. Address(L, s) = L.offset[p] + k
    BY <1>1, <1>4, <1>5, <1>7
  <1> QED BY <1>3, <1>6 DEF L

-----------------------------------------------------------------------------
(* What Store does to a memory. *)

LEMMA StorePlaneFacts ==
  ASSUME NEW M, NEW L, NEW p, NEW w, NEW h, NEW C
  PROVE  LET N == StorePlane(M, L, p, w, h, C)
         IN /\ DOMAIN N = DOMAIN M
            /\ \A i \in DOMAIN M :
                 /\ (\A t \in Plane(p, w, h) : Address(L, t) # i) => N[i] = M[i]
                 /\ (\E t \in Plane(p, w, h) : Address(L, t) = i)
                    => \E t \in Plane(p, w, h) : Address(L, t) = i /\ N[i] = C[t]
  <1> DEFINE N == StorePlane(M, L, p, w, h, C)
             Here(i) == {t \in Plane(p, w, h) : Address(L, t) = i}
  <1>1. DOMAIN N = DOMAIN M /\ \A i \in DOMAIN M :
          N[i] = IF Here(i) = {} THEN M[i] ELSE C[CHOOSE t \in Here(i) : TRUE]
    BY DEF StorePlane
  <1> HIDE DEF N
  <1>2. ASSUME NEW i \in DOMAIN M
        PROVE  /\ (\A t \in Plane(p, w, h) : Address(L, t) # i) => N[i] = M[i]
               /\ (\E t \in Plane(p, w, h) : Address(L, t) = i)
                    => \E t \in Plane(p, w, h) : Address(L, t) = i /\ N[i] = C[t]
    <2>1. CASE Here(i) = {}
      BY <1>1, <2>1
    <2>2. CASE Here(i) # {}
      <3> DEFINE t == CHOOSE t \in Here(i) : TRUE
      <3>1. t \in Here(i)
        BY <2>2
      <3>2. N[i] = C[t]
        BY <1>1, <2>2
      <3> HIDE DEF t
      <3> QED BY <3>1, <3>2
    <2> QED BY <2>1, <2>2
  <1> QED BY <1>1, <1>2 DEF N

\* With a layout that gives each sample an address of its own, each is found
\* again where it was put, and the rest of the memory is as before.
LEMMA StoreFacts ==
  ASSUME NEW M, NEW L, NEW w, NEW h, NEW C,
         \A s, t \in Samples(w, h) : Address(L, s) = Address(L, t) => s = t,
         \A s \in Samples(w, h) : Address(L, s) \in DOMAIN M
  PROVE  /\ DOMAIN Store(M, L, w, h, C) = DOMAIN M
         /\ \A s \in Samples(w, h) : Store(M, L, w, h, C)[Address(L, s)] = C[s]
         /\ \A i \in DOMAIN M : (\A s \in Samples(w, h) : Address(L, s) # i)
                                => Store(M, L, w, h, C)[i] = M[i]
  <1> DEFINE P(p) == Plane(p, w, h)
             Y == StorePlane(M, L, "y", w, h, C)
             U == StorePlane(Y, L, "u", w, h, C)
             V == StorePlane(U, L, "v", w, h, C)
  <1>1. Store(M, L, w, h, C) = V
    BY DEF Store
  <1>2. /\ DOMAIN Y = DOMAIN M
        /\ \A i \in DOMAIN M :
             /\ (\A t \in P("y") : Address(L, t) # i) => Y[i] = M[i]
             /\ (\E t \in P("y") : Address(L, t) = i)
                    => \E t \in P("y") : Address(L, t) = i /\ Y[i] = C[t]
    BY StorePlaneFacts
  <1>3. /\ DOMAIN U = DOMAIN Y
        /\ \A i \in DOMAIN Y :
             /\ (\A t \in P("u") : Address(L, t) # i) => U[i] = Y[i]
             /\ (\E t \in P("u") : Address(L, t) = i)
                    => \E t \in P("u") : Address(L, t) = i /\ U[i] = C[t]
    BY StorePlaneFacts
  <1>4. /\ DOMAIN V = DOMAIN U
        /\ \A i \in DOMAIN U :
             /\ (\A t \in P("v") : Address(L, t) # i) => V[i] = U[i]
             /\ (\E t \in P("v") : Address(L, t) = i)
                    => \E t \in P("v") : Address(L, t) = i /\ V[i] = C[t]
    BY StorePlaneFacts
  <1>5. /\ P("y") \subseteq Samples(w, h) /\ P("u") \subseteq Samples(w, h)
        /\ P("v") \subseteq Samples(w, h)
        /\ \A s \in Samples(w, h) : s \in P("y") \/ s \in P("u") \/ s \in P("v")
    BY DEF Samples, Planes
  <1> HIDE DEF P, Y, U, V
  <1>6. ASSUME NEW s \in Samples(w, h) PROVE V[Address(L, s)] = C[s]
    <2> DEFINE i == Address(L, s)
    <2>1. i \in DOMAIN M /\ i \in DOMAIN Y /\ i \in DOMAIN U
      BY <1>2, <1>3
    <2>2. \A t \in Samples(w, h) : Address(L, t) = i => t = s
      OBVIOUS
    <2> HIDE DEF i
    <2>3. s \in P("y") \/ s \in P("u") \/ s \in P("v")
      BY <1>5
    <2>4. Address(L, s) = i
      BY DEF i
    <2>5. CASE s \in P("v")
      <3>1. \E t \in P("v") : Address(L, t) = i /\ V[i] = C[t]
        BY <1>4, <2>1, <2>4, <2>5
      <3> QED BY <1>5, <2>2, <2>4, <3>1
    <2>6. CASE s \notin P("v") /\ s \in P("u")
      <3>1. V[i] = U[i]
        BY <1>4, <1>5, <2>1, <2>2, <2>6
      <3>2. \E t \in P("u") : Address(L, t) = i /\ U[i] = C[t]
        BY <1>3, <2>1, <2>4, <2>6
      <3> QED BY <1>5, <2>2, <2>4, <3>1, <3>2
    <2>7. CASE s \notin P("v") /\ s \notin P("u") /\ s \in P("y")
      <3>1. V[i] = U[i]
        BY <1>4, <1>5, <2>1, <2>2, <2>7
      <3>2. U[i] = Y[i]
        BY <1>3, <1>5, <2>1, <2>2, <2>7
      <3>3. \E t \in P("y") : Address(L, t) = i /\ Y[i] = C[t]
        BY <1>2, <2>1, <2>4, <2>7
      <3> QED BY <1>5, <2>2, <2>4, <3>1, <3>2, <3>3
    <2> QED BY <2>3, <2>5, <2>6, <2>7
  <1>7. ASSUME NEW i \in DOMAIN M, \A s \in Samples(w, h) : Address(L, s) # i
        PROVE  V[i] = M[i]
    <2>1. V[i] = U[i] /\ U[i] = Y[i] /\ Y[i] = M[i]
      BY <1>2, <1>3, <1>4, <1>5, <1>7
    <2> QED BY <2>1
  <1>8. DOMAIN V = DOMAIN M
    BY <1>2, <1>3, <1>4
  <1> QED BY <1>1, <1>6, <1>7, <1>8

-----------------------------------------------------------------------------
(* The invariant: what each memory holds from the step on that fills it.    *)

\* out_i420_frame has samples of a plane, or nothing, where its layout puts the
\* plane, and samples wherever the bitmap has some.
Converted ==
  at # "read" =>
    /\ \A s \in Samples(bitmap[1] + 1, bitmap[2]) :
         Read(converted, Address(Packed(bitmap[1] + 1, bitmap[2]), s))[1] \in {s[1], "none"}
    /\ \A s \in Samples(bitmap[1], bitmap[2]) :
         Read(converted, Address(Packed(bitmap[1] + 1, bitmap[2]), s))[1] = s[1]

\* scale_i420_frame has every sample in its place.
Scaled ==
  at \notin {"read", "converted"} =>
    \A s \in Samples(size[1], size[2]) :
      Read(frame, Address(Packed(size[1], size[2]), s)) = s

\* The I420Buffer is what on_frame reads.
Sent ==
  IF at \in {"sent", "saved"}
  THEN buffer = [s \in Samples(size[1], size[2]) |->
                   Read(frame, Address(CopyLayout(size[1], size[2]), s))]
  ELSE buffer = << >>

IInv == /\ size \in Sizes /\ bitmap \in Bitmaps
        /\ at \in {"read", "converted", "scaled", "sent", "saved"}
        /\ Converted /\ Scaled /\ Sent /\ FileIsReceived

\* The sizes of the code are even where the layout needs it.
LEMMA PictureSides ==
  ASSUME NEW z \in Sizes
  PROVE  z[1] \in Side /\ z[2] \in Side /\ z[2] <= z[1]
  BY PictureSizes DEF Side

LEMMA BitmapSides ==
  ASSUME NEW z \in Bitmaps
  PROVE  /\ z[1] \in Nat /\ z[1] + 1 \in Side /\ z[2] \in Side
         /\ Samples(z[1], z[2]) \subseteq Samples(z[1] + 1, z[2])
  <1>1. z[1] \in Nat \ {0} /\ z[2] \in Nat \ {0} /\ ~IsEven(z[1]) /\ IsEven(z[2])
    BY BitmapSizes
  <1>2. z[1] + 1 \in Side /\ z[2] \in Side
    BY <1>1 DEF Side, IsEven
  <1>3. ASSUME NEW s \in Samples(z[1], z[2]) PROVE s \in Samples(z[1] + 1, z[2])
    <2>1. /\ s[1] \in Planes /\ s = <<s[1], s[2], s[3]>>
          /\ s[2] \in 0 .. Rows(s[1], z[2]) - 1 /\ s[3] \in 0 .. Columns(s[1], z[1]) - 1
      BY SampleParts
    <2>2. /\ Columns(s[1], z[1]) \in Nat /\ Columns(s[1], z[1] + 1) \in Nat
          /\ Columns(s[1], z[1]) <= Columns(s[1], z[1] + 1)
      BY <1>1 DEF Columns, Half
    <2>3. s[3] \in 0 .. Columns(s[1], z[1] + 1) - 1
      BY <2>1, <2>2
    <2>4. <<s[1], s[2], s[3]>> \in Samples(z[1] + 1, z[2])
      BY <2>1, <2>3, SampleOf
    <2> QED BY <2>1, <2>4
  <1> QED BY <1>1, <1>2, <1>3

LEMMA InitIInv == Init => IInv
  BY DEF Init, IInv, Converted, Scaled, Sent, FileIsReceived

\* Flipping a picture upside down keeps every sample in its plane.
LEMMA ConvertStep == ASSUME IInv, Convert PROVE Converted'
  <1> DEFINE w == bitmap[1]
             h == bitmap[2]
             L == Packed(w + 1, h)
             M == NewFrame(w + 1, h)
             flipped == [s \in Samples(w, h) |-> <<s[1], Rows(s[1], h) - 1 - s[2], s[3]>>]
  <1>1. /\ w \in Nat /\ w + 1 \in Side /\ h \in Side
        /\ Samples(w, h) \subseteq Samples(w + 1, h)
    BY BitmapSides DEF IInv
  <1>2. converted' = Store(M, L, w, h, flipped) /\ bitmap' = bitmap
    BY DEF Convert
  <1>3. DOMAIN M = 0 .. FrameBytes(w + 1, h) - 1 /\ \A i \in DOMAIN M : M[i] = Blank
    BY DEF NewFrame
  <1>4. \A s \in Samples(w, h) : flipped[s][1] = s[1]
    OBVIOUS
  <1> HIDE DEF w, h, L, M, flipped
  <1>5. \A s \in Samples(w + 1, h) :
          /\ Address(L, s) \in DOMAIN M
          /\ \A t \in Samples(w + 1, h) : Address(L, s) = Address(L, t) => s = t
    BY <1>1, <1>3, AddressIsUnique DEF L
  <1>6. /\ DOMAIN Store(M, L, w, h, flipped) = DOMAIN M
        /\ \A s \in Samples(w, h) : Store(M, L, w, h, flipped)[Address(L, s)] = flipped[s]
        /\ \A i \in DOMAIN M : (\A s \in Samples(w, h) : Address(L, s) # i)
                               => Store(M, L, w, h, flipped)[i] = M[i]
    <2>1. /\ \A s, t \in Samples(w, h) : Address(L, s) = Address(L, t) => s = t
          /\ \A s \in Samples(w, h) : Address(L, s) \in DOMAIN M
      BY <1>1, <1>5
    <2> QED BY <2>1, StoreFacts
  <1>7. ASSUME NEW s \in Samples(w, h) PROVE Read(converted', Address(L, s))[1] = s[1]
    BY <1>1, <1>2, <1>4, <1>5, <1>6, <1>7 DEF Read
  <1>8. ASSUME NEW s \in Samples(w + 1, h), s \notin Samples(w, h)
        PROVE  Read(converted', Address(L, s))[1] = "none"
    <2>1. \A t \in Samples(w, h) : Address(L, t) # Address(L, s)
      BY <1>1, <1>5, <1>8
    <2>2. converted'[Address(L, s)] = Blank
      BY <1>2, <1>3, <1>5, <1>6, <2>1
    <2> QED BY <1>2, <1>5, <1>6, <2>2 DEF Read, Blank
  <1> QED BY <1>2, <1>7, <1>8 DEF Converted, w, h, L

\* What is scaled is made of the plane alone, so every sample ends in its place.
LEMMA ScaleStep == ASSUME IInv, Scale PROVE Scaled'
  <1> DEFINE w == bitmap[1] + 1
             h == bitmap[2]
             Sources(p) == {Read(converted, Address(Packed(w, h), s)) : s \in Plane(p, w, h)}
             scaled == [s \in Samples(size[1], size[2]) |->
                          IF \A q \in Sources(s[1]) : q[1] \in {s[1], "none"} THEN s ELSE Outside]
             L == Packed(size[1], size[2])
             M == NewFrame(size[1], size[2])
  <1>1. frame' = Store(M, L, size[1], size[2], scaled) /\ size' = size
    BY DEF Scale
  <1>2. \A s \in Samples(w, h) : Read(converted, Address(Packed(w, h), s))[1] \in {s[1], "none"}
    BY DEF IInv, Converted, Scale
  <1>3. ASSUME NEW p \in Planes, NEW q \in Sources(p) PROVE q[1] \in {p, "none"}
    <2>1. PICK s \in Plane(p, w, h) : q = Read(converted, Address(Packed(w, h), s))
      OBVIOUS
    <2>2. s \in Samples(w, h) /\ s[1] = p
      BY DEF Samples, Plane
    <2> QED BY <1>2, <2>1, <2>2
  <1>4. \A s \in Samples(size[1], size[2]) : scaled[s] = s
    <2> SUFFICES ASSUME NEW s \in Samples(size[1], size[2]) PROVE scaled[s] = s
      OBVIOUS
    <2>1. s[1] \in Planes
      BY SampleParts
    <2>2. \A q \in Sources(s[1]) : q[1] \in {s[1], "none"}
      BY <1>3, <2>1
    <2> QED BY <2>2
  <1>5. DOMAIN M = 0 .. FrameBytes(size[1], size[2]) - 1
    BY DEF NewFrame
  <1>6. size[1] \in Side /\ size[2] \in Side
    BY PictureSides DEF IInv
  <1> HIDE DEF scaled, L, M
  <1>7. /\ \A s, t \in Samples(size[1], size[2]) : Address(L, s) = Address(L, t) => s = t
        /\ \A s \in Samples(size[1], size[2]) : Address(L, s) \in DOMAIN M
    BY <1>5, <1>6, AddressIsUnique DEF L
  <1>8. /\ DOMAIN frame' = DOMAIN M
        /\ \A s \in Samples(size[1], size[2]) : frame'[Address(L, s)] = scaled[s]
    BY <1>1, <1>7, StoreFacts
  <1>9. \A s \in Samples(size[1], size[2]) : Read(frame', Address(L, s)) = s
    BY <1>4, <1>7, <1>8 DEF Read
  <1> QED BY <1>1, <1>9 DEF Scaled, L

-----------------------------------------------------------------------------
(* What on_frame reads of a frame in which every sample is in its place.     *)

FrameIsWhole ==
  \A s \in Samples(size[1], size[2]) :
    Read(frame, Address(Packed(size[1], size[2]), s)) = s

\* on_frame finds the third plane where my_process has put it.
LEMMA SameOffset ==
  ASSUME NEW w \in Side, NEW h \in Side
  PROVE  w * h + (w * h) \div 4 = VOffset(w, h)
  <1>1. PICK a \in Nat \ {0}, b \in Nat \ {0} : w = 2 * a /\ h = 2 * b
    BY Halves DEF Side
  <1>2. (2 * a) * (2 * b) = 4 * (a * b) /\ a * b \in Nat
    OBVIOUS
  <1> DEFINE n == a * b
  <1>3. w * h = 4 * n /\ n \in Nat
    BY <1>1, <1>2
  <1> HIDE DEF n
  <1>4. (4 * n) \div 4 = n /\ (4 * n * 5) \div 4 = 5 * n
    BY <1>3
  <1> QED BY <1>3, <1>4 DEF VOffset

\* The luma plane is read with the stride it was written with.
LEMMA LumaIsRead ==
  ASSUME FrameIsWhole, size[1] \in Side, size[2] \in Side,
         NEW s \in Samples(size[1], size[2]), s[1] = "y" \/ size[1] = size[2]
  PROVE  Read(frame, Address(CopyLayout(size[1], size[2]), s)) = s
  <1> DEFINE w == size[1]
             h == size[2]
  <1>1. s[1] \in Planes
    BY SampleParts
  <1>2. /\ CopyLayout(w, h).offset[s[1]] = Packed(w, h).offset[s[1]]
        /\ CopyLayout(w, h).stride[s[1]] = Packed(w, h).stride[s[1]]
    <2>1. w = h => Half(h) = w \div 2
      BY DEF Side, Half, IsEven
    <2>5. w * h + (w * h) \div 4 = VOffset(w, h)
      BY SameOffset
    <2> HIDE DEF w, h
    <2>2. CASE s[1] = "y"
      BY <2>2 DEF CopyLayout, Packed, LumaStride
    <2>3. CASE s[1] = "u" /\ w = h
      BY <2>1, <2>3 DEF CopyLayout, Packed, ChromaStride
    <2>4. CASE s[1] = "v" /\ w = h
      BY <2>1, <2>4, <2>5 DEF CopyLayout, Packed, ChromaStride
    <2> QED BY <1>1, <2>2, <2>3, <2>4 DEF Planes, w, h
  <1>3. Address(CopyLayout(w, h), s) = Address(Packed(w, h), s)
    BY <1>2 DEF Address
  <1> QED BY <1>3 DEF FrameIsWhole

\* The chroma planes are read with too short a stride: rows overlap and the plane
\* is not read to its end, but what is read belongs to it.  Of the sample at row r
\* and column c comes the one that is r * Half(height) + c samples into the plane.
LEMMA ChromaIsRead ==
  ASSUME FrameIsWhole, size[1] \in Side, size[2] \in Side, size[2] <= size[1],
         NEW s \in Samples(size[1], size[2]), s[1] \in {"u", "v"}
  PROVE  LET k == s[2] * Half(size[2]) + s[3]
         IN Read(frame, Address(CopyLayout(size[1], size[2]), s))
              = <<s[1], k \div Half(size[1]), k % Half(size[1])>>
  <1> DEFINE w == size[1]
             h == size[2]
  <1>1. PICK a \in Nat \ {0}, b \in Nat \ {0} : w = 2 * a /\ h = 2 * b
    BY Halves DEF Side
  <1>2. b <= a
    BY <1>1
  <1>3. s[2] \in 0 .. b - 1 /\ s[3] \in 0 .. a - 1
    <2>1. s[2] \in 0 .. Rows(s[1], h) - 1 /\ s[3] \in 0 .. Columns(s[1], w) - 1
      BY SampleParts
    <2>2. Rows(s[1], 2 * b) = b /\ Columns(s[1], 2 * a) = a
      BY PlaneSizes
    <2> QED BY <1>1, <2>1, <2>2
  <1> DEFINE k == s[2] * b + s[3]
             p == s[1]
  <1>4. k \in 0 .. b * a - 1
    BY <1>2, <1>3, ShortStride
  <1>5. /\ CopyLayout(w, h).offset[p] = Packed(w, h).offset[p]
        /\ CopyLayout(w, h).stride[p] = b
    <2>1. Half(2 * b) = b
      BY DEF Half
    <2>2. ChromaStride(w, h) = b
      BY <1>1, <2>1 DEF ChromaStride
    <2>5. w * h + (w * h) \div 4 = VOffset(w, h)
      BY SameOffset
    <2> HIDE DEF w, h, p
    <2>3. CASE p = "u"
      BY <2>2, <2>3 DEF CopyLayout, Packed
    <2>4. CASE p = "v"
      BY <2>2, <2>4, <2>5 DEF CopyLayout, Packed
    <2> QED BY <2>3, <2>4 DEF p
  <1>6. Address(CopyLayout(w, h), s) = Packed(w, h).offset[p] + s[2] * b + s[3]
    BY <1>5 DEF Address
  <1>7. Packed(w, h).offset[p] \in Nat
    <2>1. /\ Packed(2 * a, 2 * b).offset["u"] = 4 * (a * b)
          /\ Packed(2 * a, 2 * b).offset["v"] = 5 * (a * b)
      BY PackedLayout
    <2>2. 4 * (a * b) \in Nat /\ 5 * (a * b) \in Nat
      OBVIOUS
    <2> HIDE DEF w, h, p
    <2>3. CASE p = "u"
      BY <1>1, <2>1, <2>2, <2>3
    <2>4. CASE p = "v"
      BY <1>1, <2>1, <2>2, <2>4
    <2> QED BY <2>3, <2>4 DEF p
  <1>8. Address(CopyLayout(w, h), s) = Packed(w, h).offset[p] + k
    <2>1. s[2] * b \in Nat /\ s[3] \in Nat
      BY <1>3
    <2> QED BY <1>6, <1>7, <2>1
  <1> DEFINE t == <<p, k \div a, k % a>>
  <1>9. t \in Samples(w, h) /\ Address(Packed(w, h), t) = Packed(w, h).offset[p] + k
    <2> HIDE DEF w, h, p, k
    <2>1. /\ t \in Samples(2 * a, 2 * b)
          /\ Address(Packed(2 * a, 2 * b), t) = Packed(2 * a, 2 * b).offset[p] + k
      BY <1>4, PlaneIsFull DEF p
    <2> QED BY <1>1, <2>1
  <1>10. Half(w) = a /\ Half(h) = b
    <2>1. Half(2 * a) = a /\ Half(2 * b) = b
      BY DEF Half
    <2> QED BY <1>1, <2>1
  <1>11. Read(frame, Address(CopyLayout(w, h), s)) = t
    <2> HIDE DEF t, k
    <2>1. Read(frame, Address(Packed(w, h), t)) = t
      BY <1>9 DEF FrameIsWhole
    <2> QED BY <1>8, <1>9, <2>1
  <1> QED BY <1>10, <1>11

-----------------------------------------------------------------------------
(* The properties. *)

\* The chroma sample that a stride of half the height, instead of half the width,
\* finds in the place of s.
Sheared(s) ==
  LET k == s[2] * Half(size[2]) + s[3]
  IN <<s[1], k \div Half(size[1]), k % Half(size[1])>>

\* What the buffer holds, in terms of the two lemmas.
LEMMA BufferFacts ==
  ASSUME IInv, at \in {"sent", "saved"}
  PROVE  /\ DOMAIN buffer = Samples(size[1], size[2])
         /\ \A s \in Samples(size[1], size[2]) :
              /\ buffer[s][1] = s[1]
              /\ s[1] = "y" \/ size[1] = size[2] => buffer[s] = s
              /\ s[1] # "y" => buffer[s] = Sheared(s)
  <1>1. size[1] \in Side /\ size[2] \in Side /\ size[2] <= size[1]
    BY PictureSides DEF IInv
  <1>2. FrameIsWhole
    BY DEF IInv, Scaled, FrameIsWhole
  <1>3. buffer = [s \in Samples(size[1], size[2]) |->
                    Read(frame, Address(CopyLayout(size[1], size[2]), s))]
    BY DEF IInv, Sent
  <1>4. ASSUME NEW s \in Samples(size[1], size[2])
        PROVE  /\ buffer[s][1] = s[1]
               /\ s[1] = "y" \/ size[1] = size[2] => buffer[s] = s
               /\ s[1] # "y" => buffer[s] = Sheared(s)
    <2>1. s[1] \in Planes
      BY SampleParts
    <2>2. s[1] = "y" \/ size[1] = size[2] => buffer[s] = s
      BY <1>1, <1>2, <1>3, LumaIsRead
    <2>3. s[1] \in {"u", "v"} => buffer[s] = Sheared(s)
      BY <1>1, <1>2, <1>3, ChromaIsRead DEF Sheared
    <2>4. Sheared(s)[1] = s[1]
      BY DEF Sheared
    <2> QED BY <2>1, <2>2, <2>3, <2>4 DEF Planes
  <1> QED BY <1>3, <1>4

\* The bytes of a plane of the buffer are its samples, row by row.
LEMMA BytesOfPlane ==
  ASSUME size[1] \in Side, size[2] \in Side, NEW p \in Planes,
         NEW C \in Nat \ {0}, NEW R \in Nat \ {0},
         C = Columns(p, size[1]), R = Rows(p, size[2])
  PROVE  /\ \A r \in 0 .. R - 1, c \in 0 .. C - 1 :
              ByteOf(p, r * C + c) = buffer[<<p, r, c>>] /\ r * C + c \in 0 .. C * R - 1
         /\ \A k \in 0 .. C * R - 1 :
              \E s \in Samples(size[1], size[2]) : ByteOf(p, k) = buffer[s]
  <1>1. ASSUME NEW r \in 0 .. R - 1, NEW c \in 0 .. C - 1
        PROVE  ByteOf(p, r * C + c) = buffer[<<p, r, c>>] /\ r * C + c \in 0 .. C * R - 1
    <2>0. r \in Nat
      OBVIOUS
    <2>1. (r * C + c) \div C = r /\ (r * C + c) % C = c
      BY <2>0, DivideByWidth, Zenon
    <2>2. r * C + c \in 0 .. R * C - 1 /\ R * C = C * R
      BY InsideRows
    <2> DEFINE k == r * C + c
    <2>3. ByteOf(p, k) = buffer[<<p, k \div C, k % C>>]
      BY DEF ByteOf
    <2> QED BY <2>1, <2>2, <2>3
  <1>2. ASSUME NEW k \in 0 .. C * R - 1
        PROVE  \E s \in Samples(size[1], size[2]) : ByteOf(p, k) = buffer[s]
    <2>1. R * C = C * R
      OBVIOUS
    <2>2. k \div C \in 0 .. R - 1 /\ k % C \in 0 .. C - 1
      BY <2>1, PositionOf
    <2>3. <<p, k \div C, k % C>> \in Samples(size[1], size[2])
      BY <2>2, SampleOf
    <2> QED BY <2>3 DEF ByteOf
  <1> QED BY <1>1, <1>2

\* SaveVideoFrameToFile writes the planes one after another.
LEMMA SaveStep == ASSUME IInv, SaveVideoFrameToFile PROVE FileIsReceived'
  <1> DEFINE n == size[1] * size[2]
             InPlane(p, k) == IF k < Columns(p, size[1]) * Rows(p, size[2])
                              THEN ByteOf(p, k) ELSE Outside
             u == PlaneBytes("y", n)
             v == u + PlaneBytes("u", n)
             e == v + PlaneBytes("v", n) - 1
  <1>0. /\ file' = [k \in 0 .. e |->
                      IF k < u THEN InPlane("y", k)
                      ELSE IF k < v THEN InPlane("u", k - u) ELSE InPlane("v", k - v)]
        /\ size' = size /\ buffer' = buffer /\ at = "sent"
    BY DEF SaveVideoFrameToFile
  <1>1. size[1] \in Side /\ size[2] \in Side
    BY PictureSides DEF IInv
  <1>2. PICK a \in Nat \ {0}, b \in Nat \ {0} : size[1] = 2 * a /\ size[2] = 2 * b
    BY <1>1, Halves DEF Side
  <1> DEFINE m == a * b
  <1>3. m \in Nat \ {0} /\ n = 4 * m /\ (2 * a) * (2 * b) = 4 * m
    BY <1>2
  <1>4. u = 4 * m /\ v = 5 * m /\ e = 6 * m - 1
    <2> HIDE DEF n, m
    <2> QED BY <1>3 DEF PlaneBytes
  <1>5. /\ Columns("y", size[1]) = 2 * a /\ Rows("y", size[2]) = 2 * b
        /\ Columns("u", size[1]) = a /\ Rows("u", size[2]) = b
        /\ Columns("v", size[1]) = a /\ Rows("v", size[2]) = b
    BY <1>2, PlaneSizes
  <1>6. /\ \A r \in 0 .. 2 * b - 1, c \in 0 .. 2 * a - 1 :
              ByteOf("y", r * (2 * a) + c) = buffer[<<"y", r, c>>]
        /\ \A k \in 0 .. (2 * a) * (2 * b) - 1 :
              \E s \in Samples(size[1], size[2]) : ByteOf("y", k) = buffer[s]
    <2>1. 2 * a \in Nat \ {0} /\ 2 * b \in Nat \ {0}
      OBVIOUS
    <2> QED BY <1>1, <1>5, <2>1, BytesOfPlane DEF Planes
  <1>7. /\ \A r \in 0 .. b - 1, c \in 0 .. a - 1 :
              /\ ByteOf("u", r * a + c) = buffer[<<"u", r, c>>]
              /\ ByteOf("v", r * a + c) = buffer[<<"v", r, c>>]
        /\ \A k \in 0 .. a * b - 1 :
              /\ \E s \in Samples(size[1], size[2]) : ByteOf("u", k) = buffer[s]
              /\ \E s \in Samples(size[1], size[2]) : ByteOf("v", k) = buffer[s]
    BY <1>1, <1>5, BytesOfPlane DEF Planes
  <1> HIDE DEF n, u, v, e
  <1>8. /\ DOMAIN file' = 0 .. 6 * m - 1
        /\ \A k \in 0 .. 4 * m - 1 : file'[k] = ByteOf("y", k)
        /\ \A k \in 0 .. m - 1 : file'[4 * m + k] = ByteOf("u", k)
        /\ \A k \in 0 .. m - 1 : file'[5 * m + k] = ByteOf("v", k)
    <2>1. /\ Columns("y", size[1]) * Rows("y", size[2]) = 4 * m
          /\ Columns("u", size[1]) * Rows("u", size[2]) = m
          /\ Columns("v", size[1]) * Rows("v", size[2]) = m
      BY <1>3, <1>5
    <2>2. /\ \A k \in 0 .. 4 * m - 1 : InPlane("y", k) = ByteOf("y", k)
          /\ \A k \in 0 .. m - 1 : InPlane("u", k) = ByteOf("u", k) /\ InPlane("v", k) = ByteOf("v", k)
      BY <1>3, <2>1
    <2> HIDE DEF InPlane, m
    <2> DEFINE D == 0 .. e
    <2>8. file' = [k \in D |-> IF k < u THEN InPlane("y", k)
                                ELSE IF k < v THEN InPlane("u", k - u) ELSE InPlane("v", k - v)]
      BY <1>0
    <2> HIDE DEF D
    <2>9. DOMAIN file' = D
      BY <2>8
    <2>3. DOMAIN file' = 0 .. 6 * m - 1
      BY <1>4, <2>9 DEF D
    <2>7. ASSUME NEW i \in 0 .. 6 * m - 1
          PROVE  /\ i < 4 * m => file'[i] = InPlane("y", i)
                 /\ ~(i < 4 * m) /\ i < 5 * m => file'[i] = InPlane("u", i - 4 * m)
                 /\ ~(i < 4 * m) /\ ~(i < 5 * m) => file'[i] = InPlane("v", i - 5 * m)
      <3>1. file'[i] = IF i < u THEN InPlane("y", i)
                       ELSE IF i < v THEN InPlane("u", i - u) ELSE InPlane("v", i - v)
        BY <2>3, <2>8, <2>9
      <3> QED BY <1>4, <3>1
    <2>4. ASSUME NEW k \in 0 .. 4 * m - 1 PROVE file'[k] = ByteOf("y", k)
      BY <1>3, <2>2, <2>7
    <2>5. ASSUME NEW k \in 0 .. m - 1 PROVE file'[4 * m + k] = ByteOf("u", k)
      <3> DEFINE i == 4 * m + k
      <3>1. /\ i \in 0 .. 6 * m - 1 /\ ~(i < 4 * m) /\ i < 5 * m
            /\ i - 4 * m = k
        BY <1>3
      <3> HIDE DEF i
      <3>3. file'[i] = InPlane("u", i - 4 * m)
        BY <2>7, <3>1
      <3>2. file'[i] = InPlane("u", k)
        BY <3>1, <3>3
      <3> USE DEF i
      <3> QED BY <2>2, <3>2
    <2>6. ASSUME NEW k \in 0 .. m - 1 PROVE file'[5 * m + k] = ByteOf("v", k)
      <3> DEFINE i == 5 * m + k
      <3>1. /\ i \in 0 .. 6 * m - 1 /\ ~(i < 4 * m) /\ ~(i < 5 * m)
            /\ i - 5 * m = k
        BY <1>3
      <3> HIDE DEF i
      <3>3. file'[i] = InPlane("v", i - 5 * m)
        BY <2>7, <3>1
      <3>2. file'[i] = InPlane("v", k)
        BY <3>1, <3>3
      <3> USE DEF i
      <3> QED BY <2>2, <3>2
    <2> QED BY <2>3, <2>4, <2>5, <2>6
  <1> DEFINE L == Packed(size[1], size[2])
  <1>9. ASSUME NEW s \in Samples(size[1], size[2]) PROVE Read(file', Address(L, s)) = buffer[s]
    <2>1. /\ s[1] \in Planes /\ s = <<s[1], s[2], s[3]>>
          /\ s[2] \in 0 .. Rows(s[1], size[2]) - 1 /\ s[3] \in 0 .. Columns(s[1], size[1]) - 1
      BY SampleParts
    <2>2. /\ s[1] = "y" => Address(L, s) = s[2] * (2 * a) + s[3] /\ Address(L, s) \in 0 .. 4 * m - 1
          /\ s[1] = "u" => Address(L, s) = 4 * m + s[2] * a + s[3]
                           /\ Address(L, s) \in 4 * m .. 5 * m - 1
          /\ s[1] = "v" => Address(L, s) = 5 * m + s[2] * a + s[3]
                           /\ Address(L, s) \in 5 * m .. 6 * m - 1
      BY <1>2, PlaneRanges
    <2> HIDE DEF L, m
    <2>3. Address(L, s) \in DOMAIN file'
      <3>1. 0 .. 4 * m - 1 \subseteq 0 .. 6 * m - 1 /\ 4 * m .. 5 * m - 1 \subseteq 0 .. 6 * m - 1
            /\ 5 * m .. 6 * m - 1 \subseteq 0 .. 6 * m - 1
        BY <1>3
      <3>2. Address(L, s) \in 0 .. 6 * m - 1
        BY <2>1, <2>2, <3>1 DEF Planes
      <3> QED BY <1>8, <3>2
    <2>4. file'[Address(L, s)] = buffer[s]
      <3>1. CASE s[1] = "y"
        <4>1. s[2] \in 0 .. 2 * b - 1 /\ s[3] \in 0 .. 2 * a - 1 /\ s = <<"y", s[2], s[3]>>
          BY <1>5, <2>1, <3>1
        <4>2. ByteOf("y", s[2] * (2 * a) + s[3]) = buffer[s]
          BY <1>6, <4>1
        <4> QED BY <1>8, <2>2, <3>1, <4>2
      <3>2. CASE s[1] = "u"
        <4>1. s[2] \in 0 .. b - 1 /\ s[3] \in 0 .. a - 1 /\ s = <<"u", s[2], s[3]>>
          BY <1>5, <2>1, <3>2
        <4> DEFINE k == s[2] * a + s[3]
        <4>4. ByteOf("u", k) = buffer[<<"u", s[2], s[3]>>]
          BY <1>7, <4>1
        <4>2. ByteOf("u", k) = buffer[s] /\ s[2] * a \in Nat
          BY <4>1, <4>4
        <4>3. Address(L, s) = 4 * m + k /\ k \in 0 .. m - 1
          BY <1>3, <2>2, <3>2, <4>1, <4>2
        <4> HIDE DEF k
        <4> QED BY <1>8, <4>2, <4>3
      <3>3. CASE s[1] = "v"
        <4>1. s[2] \in 0 .. b - 1 /\ s[3] \in 0 .. a - 1 /\ s = <<"v", s[2], s[3]>>
          BY <1>5, <2>1, <3>3
        <4> DEFINE k == s[2] * a + s[3]
        <4>4. ByteOf("v", k) = buffer[<<"v", s[2], s[3]>>]
          BY <1>7, <4>1
        <4>2. ByteOf("v", k) = buffer[s] /\ s[2] * a \in Nat
          BY <4>1, <4>4
        <4>3. Address(L, s) = 5 * m + k /\ k \in 0 .. m - 1
          BY <1>3, <2>2, <3>3, <4>1, <4>2
        <4> HIDE DEF k
        <4> QED BY <1>8, <4>2, <4>3
      <3> QED BY <2>1, <3>1, <3>2, <3>3 DEF Planes
    <2> QED BY <2>3, <2>4 DEF Read
  <1>10. DOMAIN buffer = Samples(size[1], size[2])
         /\ \A s \in Samples(size[1], size[2]) : buffer[s][1] = s[1]
    BY <1>0, BufferFacts
  <1>11. Outside \notin Contents(file')
    <2> SUFFICES ASSUME NEW i \in DOMAIN file' PROVE file'[i] # Outside
      BY DEF Contents
    <2>1. \E s \in Samples(size[1], size[2]) : file'[i] = buffer[s]
      <3>1. CASE i \in 0 .. 4 * m - 1
        BY <1>3, <1>6, <1>8, <3>1
      <3>2. CASE i \in 4 * m .. 5 * m - 1
        <4>1. i - 4 * m \in 0 .. m - 1 /\ 4 * m + (i - 4 * m) = i
          BY <1>3, <3>2
        <4> QED BY <1>7, <1>8, <4>1
      <3>3. CASE i \in 5 * m .. 6 * m - 1
        <4>1. i - 5 * m \in 0 .. m - 1 /\ 5 * m + (i - 5 * m) = i
          BY <1>3, <3>3
        <4> QED BY <1>7, <1>8, <4>1
      <3> QED BY <1>3, <1>8, <3>1, <3>2, <3>3
    <2>2. PICK s \in Samples(size[1], size[2]) : file'[i] = buffer[s]
      BY <2>1
    <2>3. s[1] \in Planes
      BY SampleParts
    <2> QED BY <1>10, <2>2, <2>3 DEF Outside, Planes
  <1> QED BY <1>0, <1>9, <1>10, <1>11 DEF FileIsReceived, L

\* Each step keeps what the memories before it hold, and fills the next one.
LEMMA Step == ASSUME IInv, [Next]_vars PROVE IInv'
  <1>1. CASE UNCHANGED vars
    BY <1>1 DEF vars, IInv, Converted, Scaled, Sent, FileIsReceived
  <1>2. CASE Convert
    <2>1. Converted'
      BY <1>2, ConvertStep
    <2> QED BY <1>2, <2>1 DEF Convert, IInv, Scaled, Sent, FileIsReceived
  <1>3. CASE Scale
    <2>1. Scaled'
      BY <1>3, ScaleStep
    <2> QED BY <1>3, <2>1 DEF Scale, IInv, Converted, Sent, FileIsReceived
  <1>4. CASE OnFrame
    BY <1>4 DEF OnFrame, IInv, Converted, Scaled, Sent, FileIsReceived
  <1>5. CASE SaveVideoFrameToFile
    <2>1. FileIsReceived'
      BY <1>5, SaveStep
    <2> QED BY <1>5, <2>1 DEF SaveVideoFrameToFile, IInv, Converted, Scaled, Sent
  <1> QED BY <1>1, <1>2, <1>3, <1>4, <1>5 DEF Next

\* Each memory holds in every state the samples IInv names
\* (i420_creator.cpp:126-150, video-channel/main.cpp:66-76, 138-154).
THEOREM Invariance == Spec => []IInv
  <1>1. IInv /\ [Next]_vars => IInv'
    BY Step
  <1> QED BY InitIInv, <1>1, PTL DEF Spec

\* No plane of a picture runs into another one or beyond its memory, whatever the
\* sizes: in the vectors of my_process, and in what on_frame reads with chroma
\* strides made from the height, as long as the picture is as wide as high
\* (i420_creator.cpp:126-150, video-channel/main.cpp:69-73).
THEOREM PlanesTheorem == Spec => []PlanesApart
  <1>1. ASSUME IInv PROVE PlanesApart
    <2>1. \A s \in Samples(bitmap[1], bitmap[2]) : at # "read" =>
            Read(converted, Address(Packed(bitmap[1] + 1, bitmap[2]), s))[1] = s[1]
      BY <1>1 DEF IInv, Converted
    <2>2. \A s \in Samples(size[1], size[2]) : at \notin {"read", "converted"} =>
            Read(frame, Address(Packed(size[1], size[2]), s))[1] = s[1]
      BY <1>1 DEF IInv, Scaled
    <2>3. \A s \in DOMAIN buffer : buffer[s][1] = s[1]
      <3>1. CASE at \in {"sent", "saved"}
        BY <1>1, <3>1, BufferFacts
      <3>2. CASE at \notin {"sent", "saved"}
        <4>1. DOMAIN buffer = {}
          BY <1>1, <3>2 DEF IInv, Sent
        <4> QED BY <4>1
      <3> QED BY <3>1, <3>2
    <2> QED BY <2>1, <2>2, <2>3 DEF PlanesApart
  <1> QED BY <1>1, Invariance, PTL

\* The luma of the picture sent is that of the frame, and so is the chroma of a
\* square picture (i420_creator.cpp:142-150, video-channel/main.cpp:69-73).
THEOREM LumaTheorem == Spec => []LumaIntact
  <1>1. ASSUME IInv PROVE LumaIntact
    <2>1. CASE at \in {"sent", "saved"}
      BY <1>1, <2>1, BufferFacts DEF LumaIntact
    <2>2. CASE at \notin {"sent", "saved"}
      <3>1. DOMAIN buffer = {}
        BY <1>1, <2>2 DEF IInv, Sent
      <3> QED BY <3>1 DEF LumaIntact
    <2> QED BY <2>1, <2>2
  <1> QED BY <1>1, Invariance, PTL

\* The file is the received picture in I420 format, plane after plane, with no
\* byte from outside of the picture (video-channel/main.cpp:138-154).
THEOREM FileTheorem == Spec => []FileIsReceived
  <1>1. IInv => FileIsReceived
    BY DEF IInv
  <1> QED BY <1>1, Invariance, PTL

\* What on_frame does to the chroma of every picture: each sample of the buffer is
\* the one that Sheared names.  If the picture has more than two rows and is not
\* square, that is not the frame's picture.
ChromaSheared ==
  at \in {"sent", "saved"} =>
    /\ \A s \in DOMAIN buffer : s[1] # "y" => buffer[s] = Sheared(s)
    /\ size[1] # size[2] /\ size[2] > 2 => ~BufferIsFrame

\* The chroma of every picture is sheared (video-channel/main.cpp:69-73).
THEOREM ShearTheorem == Spec => []ChromaSheared
  <1>1. ASSUME IInv PROVE ChromaSheared
    <2> SUFFICES ASSUME at \in {"sent", "saved"}
                 PROVE  /\ \A s \in DOMAIN buffer : s[1] # "y" => buffer[s] = Sheared(s)
                        /\ size[1] # size[2] /\ size[2] > 2 => ~BufferIsFrame
      BY DEF ChromaSheared
    <2>1. /\ DOMAIN buffer = Samples(size[1], size[2])
          /\ \A s \in Samples(size[1], size[2]) : s[1] # "y" => buffer[s] = Sheared(s)
      BY <1>1, BufferFacts
    <2>2. ASSUME size[1] # size[2], size[2] > 2 PROVE ~BufferIsFrame
      <3>1. size[1] \in Side /\ size[2] \in Side /\ size[2] <= size[1]
        BY <1>1, PictureSides DEF IInv
      <3>2. PICK a \in Nat \ {0}, b \in Nat \ {0} : size[1] = 2 * a /\ size[2] = 2 * b
        BY <3>1, Halves DEF Side
      <3>3. 1 < b /\ b < a
        BY <2>2, <3>1, <3>2
      <3>4. Half(size[1]) = a /\ Half(size[2]) = b
        <4>1. Half(2 * a) = a /\ Half(2 * b) = b
          BY DEF Half
        <4> QED BY <3>2, <4>1
      <3>5. Columns("u", size[1]) = a /\ Rows("u", size[2]) = b
        BY <3>2, PlaneSizes
      <3> DEFINE s == <<"u", 1, 0>>
      <3>6. s \in Samples(size[1], size[2])
        BY <3>3, <3>5, SampleOf DEF Planes
      <3>7. (1 * b + 0) \div a = 0 /\ 1 * b + 0 = b
        <4>1. b \in 0 .. a - 1 /\ (0 * a + b) \div a = 0 /\ 0 * a + b = b
          BY <3>3, DivideByWidth
        <4> QED BY <4>1
      <3>8. Sheared(s)[2] = 0 /\ s[2] = 1
        BY <3>4, <3>7 DEF Sheared
      <3>9. buffer[s] # s
        BY <2>1, <3>6, <3>8
      <3> QED BY <2>1, <3>6, <3>9 DEF BufferIsFrame
    <2> QED BY <2>1, <2>2
  <1> QED BY <1>1, Invariance, PTL
=============================================================================
