-------------------------- MODULE RingQueueLemmas --------------------------
(***************************************************************************)
(* What the functions of ringq.c do to an undamaged queue, for every set   *)
(* of bytes and every size: they leave it undamaged, and add to or take    *)
(* from its contents what they should.                                     *)
(***************************************************************************)
EXTENDS RingQueue, TLAPS

-----------------------------------------------------------------------------
(* Offsets.  b, s and e stand for buflen, servp and endp: integers are     *)
(* easier for the provers than fields of a record.                         *)

LenOf(b, s, e) == IF s > e THEN b + (e - s) ELSE e - s
Pos(b, s, i) == IF s + i <= b THEN s + i - 1 ELSE s + i - 1 - b
WrapAt(b, p) == IF p >= b THEN 0 ELSE p
Before(b, s) == (IF s <= 0 THEN b ELSE s) - 1

(* The n cells from endp on, where ringqPutBlk copies to, hold no data. *)
LEMMA PutLen ==
  ASSUME NEW b \in Nat, NEW s \in 0..(b - 1), NEW e \in 0..(b - 1),
         NEW n \in Nat, LenOf(b, s, e) + n < b, e + n <= b
  PROVE  /\ WrapAt(b, e + n) \in 0..(b - 1)
         /\ LenOf(b, s, WrapAt(b, e + n)) = LenOf(b, s, e) + n
BY DEF LenOf, WrapAt

(* The data keeps its cells ... *)
LEMMA PutOld ==
  ASSUME NEW b \in Nat, NEW s \in 0..(b - 1), NEW e \in 0..(b - 1),
         NEW n \in Nat, LenOf(b, s, e) + n < b, e + n <= b,
         NEW i \in 1..LenOf(b, s, e)
  PROVE  /\ Pos(b, s, i) \in 0..(b - 1) /\ Pos(b, s, i) # e
         /\ ~(Pos(b, s, i) >= e /\ Pos(b, s, i) < e + n)
BY DEF LenOf, Pos

(* ... and the new bytes follow it, the first at endp. *)
LEMMA PutNew ==
  ASSUME NEW b \in Nat, NEW s \in 0..(b - 1), NEW e \in 0..(b - 1),
         NEW n \in Nat, LenOf(b, s, e) + n < b, e + n <= b,
         NEW i \in (LenOf(b, s, e) + 1)..(LenOf(b, s, e) + n)
  PROVE  /\ Pos(b, s, i) \in 0..(b - 1)
         /\ Pos(b, s, i) >= e /\ Pos(b, s, i) < e + n
         /\ Pos(b, s, i) - e + 1 = i - LenOf(b, s, e)
BY DEF LenOf, Pos

(* ringqPutBlkAdj and ringqGetBlkAdj wrap as the others do. *)
LEMMA AdjOffsets ==
  ASSUME NEW b \in Nat, NEW p \in 0..(b - 1), NEW n \in Nat, p + n <= b
  PROVE  /\ (IF p + n >= b THEN p + n - b ELSE p + n) = WrapAt(b, p + n)
         /\ b > 0 => ~(WrapAt(b, p + n) >= b)
BY DEF WrapAt

(* Moving servp over n bytes of data drops the first n of them. *)
LEMMA GetOffsets ==
  ASSUME NEW b \in Nat, NEW s \in 0..(b - 1), NEW e \in 0..(b - 1),
         NEW n \in Nat, n <= LenOf(b, s, e), s + n <= b
  PROVE  /\ WrapAt(b, s + n) \in 0..(b - 1)
         /\ LenOf(b, WrapAt(b, s + n), e) = LenOf(b, s, e) - n
         /\ \A i \in 1..(LenOf(b, s, e) - n) :
              Pos(b, WrapAt(b, s + n), i) = Pos(b, s, i + n)
         /\ \A i \in 1..n : Pos(b, s, i) = s + i - 1
<1>1. WrapAt(b, s + n) \in 0..(b - 1)
  BY DEF WrapAt
<1>2. LenOf(b, WrapAt(b, s + n), e) = LenOf(b, s, e) - n
  BY DEF LenOf, WrapAt
<1>3. ASSUME NEW i \in 1..(LenOf(b, s, e) - n)
      PROVE  Pos(b, WrapAt(b, s + n), i) = Pos(b, s, i + n)
  BY DEF LenOf, WrapAt, Pos
<1>4. ASSUME NEW i \in 1..n PROVE Pos(b, s, i) = s + i - 1
  BY DEF Pos
<1> QED BY <1>1, <1>2, <1>3, <1>4

(* The cell before servp, where ringqInsertc puts its byte, is free. *)
LEMMA InsertLen ==
  ASSUME NEW b \in Nat, NEW s \in 0..(b - 1), NEW e \in 0..(b - 1),
         LenOf(b, s, e) + 1 < b
  PROVE  /\ Before(b, s) \in 0..(b - 1)
         /\ LenOf(b, Before(b, s), e) = LenOf(b, s, e) + 1
         /\ Pos(b, Before(b, s), 1) = Before(b, s)
BY DEF LenOf, Pos, Before

(* The data keeps its cells, one place further in the queue. *)
LEMMA InsertOld ==
  ASSUME NEW b \in Nat, NEW s \in 0..(b - 1), NEW e \in 0..(b - 1),
         LenOf(b, s, e) + 1 < b,
         NEW i \in 1..LenOf(b, s, e)
  PROVE  /\ Pos(b, Before(b, s), i + 1) = Pos(b, s, i)
         /\ Pos(b, s, i) # Before(b, s)
         /\ Pos(b, s, i) \in 0..(b - 1)
BY DEF LenOf, Pos, Before

(* The lengths and positions of a queue are those of its offsets. *)
LEMMA Offsets ==
  ASSUME NEW r, IsRingq(r)
  PROVE  /\ r.buflen \in Nat /\ r.buflen > 0
         /\ r.servp \in 0..(r.buflen - 1) /\ r.endp \in 0..(r.buflen - 1)
         /\ r.buf \in [0..(r.buflen - 1) -> Cell]
         /\ ringqLen(r) = LenOf(r.buflen, r.servp, r.endp)
         /\ \A i : At(r, i) = r.buf[Pos(r.buflen, r.servp, i)]
         /\ \A p : Wrap(r, p) = WrapAt(r.buflen, p)
<1>1. /\ r.buflen \in Nat /\ r.buflen > 0
      /\ r.servp \in 0..(r.buflen - 1) /\ r.endp \in 0..(r.buflen - 1)
      /\ r.buf \in [0..(r.buflen - 1) -> Cell]
  BY DEF IsRingq
<1>2. ringqLen(r) = LenOf(r.buflen, r.servp, r.endp)
  BY Zenon DEF ringqLen, LenOf
<1>3. \A i : At(r, i) = r.buf[Pos(r.buflen, r.servp, i)]
  BY DEF At, Pos
<1>4. \A p : Wrap(r, p) = WrapAt(r.buflen, p)
  BY Zenon DEF Wrap, WrapAt
<1> QED BY <1>1, <1>2, <1>3, <1>4

(* What ringqPutBlkMax and ringqGetBlkMax say is there. *)
LEMMA RoomOffsets ==
  ASSUME NEW b \in Nat, NEW s \in 0..(b - 1), NEW e \in 0..(b - 1),
         NEW l, l = LenOf(b, s, e)
  PROVE  /\ l \in 0..(b - 1)
         /\ Lesser(b - e, b - l - 1) \in Nat /\ Lesser(b - s, l) \in Nat
         /\ l + Lesser(b - e, b - l - 1) < b
         /\ e + Lesser(b - e, b - l - 1) <= b
         /\ Lesser(b - s, l) <= l /\ s + Lesser(b - s, l) <= b
         /\ s # e => Lesser(b - s, l) >= 1
BY DEF LenOf, Lesser

(* The second copy of ringqGetBlk starts at buf and finds what is left. *)
LEMMA TwoCopies ==
  ASSUME NEW b \in Nat, NEW s \in 0..(b - 1), NEW e \in 0..(b - 1),
         NEW l, l = LenOf(b, s, e), NEW a, a = Lesser(b - s, l),
         NEW t, t = WrapAt(b, s + a), NEW m, m = l - a
  PROVE  Lesser(b - t, m) = m
BY DEF LenOf, WrapAt, Lesser

(* The same for a queue. *)
LEMMA Room ==
  ASSUME NEW r, IsRingq(r)
  PROVE  /\ ringqLen(r) \in 0..(r.buflen - 1)
         /\ ringqPutBlkMax(r) \in Nat /\ ringqGetBlkMax(r) \in Nat
         /\ ringqLen(r) + ringqPutBlkMax(r) < r.buflen
         /\ r.endp + ringqPutBlkMax(r) <= r.buflen
         /\ ringqGetBlkMax(r) <= ringqLen(r)
         /\ r.servp + ringqGetBlkMax(r) <= r.buflen
         /\ r.servp # r.endp => ringqGetBlkMax(r) >= 1
BY Offsets, RoomOffsets, Zenon DEF ringqPutBlkMax, ringqGetBlkMax

-----------------------------------------------------------------------------
(* What the functions of ringq.c do to the fields of a queue.              *)

(* c is r with other contents and other pointers. *)
Remade(c, r, b, s, e) ==
  /\ IsRingq(c) /\ c.buflen = r.buflen
  /\ c.buf = b /\ c.servp = s /\ c.endp = e

(* Every way in which a function of ringq.c changes the record. *)
LEMMA RemadeExcept ==
  ASSUME NEW r, IsRingq(r), NEW b \in [0..(r.buflen - 1) -> Cell],
         NEW s \in 0..(r.buflen - 1), NEW e \in 0..(r.buflen - 1)
  PROVE  /\ Remade([r EXCEPT !.buf = b, !.endp = e], r, b, r.servp, e)
         /\ Remade([r EXCEPT !.buf = b, !.servp = s], r, b, s, r.endp)
         /\ Remade([r EXCEPT !.servp = s], r, r.buf, s, r.endp)
         /\ Remade([r EXCEPT !.endp = e], r, r.buf, r.servp, e)
         /\ Remade([r EXCEPT !.buf = b], r, b, r.servp, r.endp)
         /\ Remade([r EXCEPT !.servp = s, !.endp = e, !.buf = b], r, b, s, e)
<1>0. /\ r \in [buf : {r.buf}, buflen : Nat \ {0}, servp : Nat, endp : Nat,
                increment : Nat \ {0}, maxsize : Int]
      /\ s \in Nat /\ e \in Nat /\ s < r.buflen /\ e < r.buflen
      /\ r.servp < r.buflen /\ r.endp < r.buflen
      /\ r.buf \in [0..(r.buflen - 1) -> Cell]
  BY DEF IsRingq
<1>1. Remade([r EXCEPT !.buf = b, !.endp = e], r, b, r.servp, e)
  BY <1>0, Zenon DEF IsRingq, Remade
<1>2. Remade([r EXCEPT !.buf = b, !.servp = s], r, b, s, r.endp)
  BY <1>0, Zenon DEF IsRingq, Remade
<1>3. Remade([r EXCEPT !.servp = s], r, r.buf, s, r.endp)
  BY <1>0 DEF IsRingq, Remade
<1>4. Remade([r EXCEPT !.endp = e], r, r.buf, r.servp, e)
  BY <1>0 DEF IsRingq, Remade
<1>5. Remade([r EXCEPT !.buf = b], r, b, r.servp, r.endp)
  BY <1>0 DEF IsRingq, Remade
<1>6. Remade([r EXCEPT !.servp = s, !.endp = e, !.buf = b], r, b, s, e)
  BY <1>0, Zenon DEF IsRingq, Remade
<1> QED BY <1>1, <1>2, <1>3, <1>4, <1>5, <1>6

-----------------------------------------------------------------------------
(* What they do to its contents.                                           *)

(* Concatenation, element by element. *)
LEMMA Concat ==
  ASSUME NEW S, NEW a \in Seq(S), NEW c \in Seq(S)
  PROVE  a \o c = [i \in 1..(Len(a) + Len(c)) |->
                     IF i <= Len(a) THEN a[i] ELSE c[i - Len(a)]]
<1> DEFINE z == a \o c
<1>1. z \in Seq(S) /\ Len(z) = Len(a) + Len(c)
  OBVIOUS
<1>2. ASSUME NEW i \in 1..(Len(a) + Len(c))
      PROVE  z[i] = IF i <= Len(a) THEN a[i] ELSE c[i - Len(a)]
  OBVIOUS
<1> HIDE DEF z
<1>3. z = [i \in 1..(Len(a) + Len(c)) |-> z[i]]
  BY <1>1
<1> QED BY <1>2, <1>3, Zenon DEF z

(* The contents are a sequence of ringqLen cells. *)
LEMMA ContentsType ==
  ASSUME NEW r, IsRingq(r)
  PROVE  /\ Contents(r) \in Seq(Cell) /\ Len(Contents(r)) = ringqLen(r)
         /\ \A i \in 1..ringqLen(r) : Contents(r)[i] = At(r, i)
<1>1. ringqLen(r) \in Nat
  BY Room
<1>2. ASSUME NEW i \in 1..ringqLen(r) PROVE At(r, i) \in Cell
  <2>1. Pos(r.buflen, r.servp, i) \in 0..(r.buflen - 1)
    <3>1. /\ r.buflen \in Nat /\ r.servp \in 0..(r.buflen - 1)
          /\ r.endp \in 0..(r.buflen - 1) /\ 0 \in Nat
          /\ LenOf(r.buflen, r.servp, r.endp) + 0 < r.buflen
          /\ r.endp + 0 <= r.buflen
          /\ i \in 1..LenOf(r.buflen, r.servp, r.endp)
      BY Offsets, Room, SMTT(30)
    <3> QED BY <3>1, PutOld, Zenon
  <2> QED BY <2>1, Offsets
<1> QED BY <1>1, <1>2 DEF Contents

(* b is the buffer of r with n bytes of t copied to endp. *)
Laid(b, r, t, n) ==
  \A i \in 0..(r.buflen - 1) :
    b[i] = IF i >= r.endp /\ i < r.endp + n THEN t[i - r.endp + 1]
           ELSE r.buf[i]

(* Copying n bytes of t behind the data appends them. *)
LEMMA Appends ==
  ASSUME NEW r, IsRingq(r), NEW t \in Seq(Byte), NEW n \in 0..Len(t),
         n <= ringqPutBlkMax(r), NEW b, NEW c, Laid(b, r, t, n),
         Remade(c, r, b, r.servp, WrapAt(r.buflen, r.endp + n))
  PROVE  Contents(c) = Contents(r) \o SubSeq(t, 1, n)
<1> DEFINE k == LenOf(r.buflen, r.servp, r.endp)
<1>1. IsRingq(c) /\ c.buflen = r.buflen /\ c.servp = r.servp /\ c.buf = b
      /\ c.endp = WrapAt(r.buflen, r.endp + n)
  BY Zenon DEF Remade
<1>2. /\ r.buflen \in Nat /\ r.servp \in 0..(r.buflen - 1)
      /\ r.endp \in 0..(r.buflen - 1) /\ n \in Nat /\ k \in Nat
      /\ ringqLen(r) = k
      /\ k + n < r.buflen /\ r.endp + n <= r.buflen
  BY Offsets, Room, SMTT(30)
<1>c. /\ ringqLen(c) = LenOf(c.buflen, c.servp, c.endp)
      /\ \A i : At(c, i) = c.buf[Pos(c.buflen, c.servp, i)]
      /\ \A i : At(r, i) = r.buf[Pos(r.buflen, r.servp, i)]
  BY <1>1, Offsets, Zenon
<1>3. ringqLen(c) = k + n
  <2>1. LenOf(r.buflen, r.servp, WrapAt(r.buflen, r.endp + n)) = k + n
    BY <1>2, PutLen, Zenon
  <2> QED BY <2>1, <1>c, <1>1, Zenon
<1>4. ASSUME NEW i \in 1..k PROVE At(c, i) = At(r, i)
  <2> DEFINE j == Pos(r.buflen, r.servp, i)
  <2>1. j \in 0..(r.buflen - 1) /\ ~(j >= r.endp /\ j < r.endp + n)
    BY <1>2, PutOld, Zenon
  <2>2. b[j] = r.buf[j]
    BY <2>1, Zenon DEF Laid
  <2> QED BY <2>2, <1>1, <1>c, Zenon
<1>5. ASSUME NEW i \in (k + 1)..(k + n) PROVE At(c, i) = t[i - k]
  <2> DEFINE j == Pos(r.buflen, r.servp, i)
  <2>1. j \in 0..(r.buflen - 1) /\ j >= r.endp /\ j < r.endp + n
        /\ j - r.endp + 1 = i - k
    BY <1>2, PutNew, SMTT(30)
  <2>2. b[j] = t[j - r.endp + 1]
    BY <2>1, Zenon DEF Laid
  <2>3. b[j] = t[i - k]
    BY <2>1, <2>2, Zenon
  <2> QED BY <2>3, <1>1, <1>c, Zenon
<1> HIDE DEF k
<1>6. Contents(c) = [i \in 1..(k + n) |-> At(c, i)]
  BY <1>3, Zenon DEF Contents
<1>7. Contents(r) = [i \in 1..k |-> At(r, i)]
  BY <1>2, Zenon DEF Contents
<1>8. Contents(r) \o SubSeq(t, 1, n)
        = [i \in 1..(k + n) |-> IF i <= k THEN At(r, i) ELSE t[i - k]]
  <2> DEFINE A == Contents(r)
             T == SubSeq(t, 1, n)
  <2>1. A \in Seq(Cell) /\ Len(A) = k
    BY <1>2, ContentsType, Zenon
  <2>2. T \in Seq(Byte) /\ Len(T) = n /\ \A i \in 1..n : T[i] = t[i]
    BY <1>2
  <2>3. Byte \subseteq Cell
    BY DEF Cell
  <2> HIDE DEF A, T
  <2>4. T \in Seq(Cell)
    BY <2>2, <2>3
  <2>5. A \o T = [i \in 1..(Len(A) + Len(T)) |->
                    IF i <= Len(A) THEN A[i] ELSE T[i - Len(A)]]
    BY <2>1, <2>4, Concat, Zenon
  <2>6. ASSUME NEW i \in 1..(k + n)
        PROVE  (IF i <= Len(A) THEN A[i] ELSE T[i - Len(A)])
                 = IF i <= k THEN At(r, i) ELSE t[i - k]
    <3>1. CASE i <= k
      <4>1. i \in 1..k
        BY <3>1, <1>2
      <4>2. A[i] = At(r, i)
        BY <4>1, <1>7, Zenon DEF A
      <4> QED BY <4>2, <3>1, <2>1, Zenon
    <3>2. CASE ~(i <= k)
      <4>1. i - k \in 1..n
        BY <3>2, <1>2
      <4> QED BY <4>1, <3>2, <2>1, <2>2, Zenon
    <3> QED BY <3>1, <3>2
  <2> QED BY <2>1, <2>2, <2>5, <2>6, Zenon DEF A, T
<1>9. ASSUME NEW i \in 1..(k + n)
      PROVE  At(c, i) = IF i <= k THEN At(r, i) ELSE t[i - k]
  <2>1. CASE i <= k
    BY <2>1, <1>2, <1>4
  <2>2. CASE i > k
    BY <2>2, <1>2, <1>5
  <2> QED BY <2>1, <2>2, <1>2
<1> QED BY <1>6, <1>8, <1>9, Zenon

(* What a caller copies itself, from servp on, is a sequence of cells. *)
LEMMA StraightLine ==
  ASSUME NEW r, IsRingq(r), NEW n \in 0..ringqGetBlkMax(r)
  PROVE  [i \in 1..n |-> r.buf[r.servp + i - 1]] \in Seq(Cell)
<1>1. /\ r.buflen \in Nat /\ r.servp \in 0..(r.buflen - 1) /\ n \in Nat
      /\ r.servp + n <= r.buflen
      /\ r.buf \in [0..(r.buflen - 1) -> Cell]
  BY Offsets, Room, SMTT(30)
<1>2. ASSUME NEW i \in 1..n PROVE r.buf[r.servp + i - 1] \in Cell
  <2>1. r.servp + i - 1 \in 0..(r.buflen - 1)
    BY <1>1
  <2> QED BY <1>1, <2>1, Zenon
<1> QED BY <1>1, <1>2

(* Moving servp over n bytes of data takes them away, and they are the n   *)
(* bytes that start at servp.                                              *)
LEMMA Removes ==
  ASSUME NEW r, IsRingq(r), NEW n \in 0..ringqGetBlkMax(r), NEW c,
         Remade(c, r, r.buf, WrapAt(r.buflen, r.servp + n), r.endp)
  PROVE  /\ ringqLen(c) = ringqLen(r) - n
         /\ Contents(r) = [i \in 1..n |-> r.buf[r.servp + i - 1]] \o Contents(c)
<1> DEFINE k == LenOf(r.buflen, r.servp, r.endp)
<1>1. IsRingq(c) /\ c.buflen = r.buflen /\ c.endp = r.endp /\ c.buf = r.buf
      /\ c.servp = WrapAt(r.buflen, r.servp + n)
  BY Zenon DEF Remade
<1>2. /\ r.buflen \in Nat /\ r.servp \in 0..(r.buflen - 1)
      /\ r.endp \in 0..(r.buflen - 1) /\ n \in Nat /\ k \in Nat
      /\ ringqLen(r) = k
      /\ n <= k /\ r.servp + n <= r.buflen
  BY Offsets, Room, SMTT(30)
<1>c. /\ ringqLen(c) = LenOf(c.buflen, c.servp, c.endp)
      /\ \A i : At(c, i) = c.buf[Pos(c.buflen, c.servp, i)]
      /\ \A i : At(r, i) = r.buf[Pos(r.buflen, r.servp, i)]
  BY <1>1, Offsets, Zenon
<1>g. /\ LenOf(r.buflen, WrapAt(r.buflen, r.servp + n), r.endp) = k - n
      /\ \A i \in 1..(k - n) :
           Pos(r.buflen, WrapAt(r.buflen, r.servp + n), i)
             = Pos(r.buflen, r.servp, i + n)
      /\ \A i \in 1..n : Pos(r.buflen, r.servp, i) = r.servp + i - 1
  BY <1>2, GetOffsets, ZenonT(60)
<1>3. ringqLen(c) = k - n
  BY <1>1, <1>c, <1>g, Zenon
<1>4. ASSUME NEW i \in 1..(k - n) PROVE At(c, i) = At(r, i + n)
  BY <1>1, <1>c, <1>g, Zenon
<1>5. ASSUME NEW i \in 1..n PROVE At(r, i) = r.buf[r.servp + i - 1]
  BY <1>c, <1>g, Zenon
<1> HIDE DEF k
<1>6. Contents(c) = [i \in 1..(k - n) |-> At(c, i)]
  BY <1>3, Zenon DEF Contents
<1>7. Contents(r) = [i \in 1..k |-> At(r, i)]
  BY <1>2, Zenon DEF Contents
<1> DEFINE A == [i \in 1..n |-> r.buf[r.servp + i - 1]]
           C == Contents(c)
<1>8. A \o C = [i \in 1..k |-> IF i <= n THEN A[i] ELSE C[i - n]]
  <2>1. A \in Seq(Cell) /\ C \in Seq(Cell) /\ Len(C) = k - n
    BY <1>1, <1>3, StraightLine, ContentsType, Zenon
  <2>2. n = Len(A) /\ k = Len(A) + Len(C)
    BY <2>1, <1>2
  <2> HIDE DEF A, C
  <2>3. A \o C = [i \in 1..(Len(A) + Len(C)) |->
                    IF i <= Len(A) THEN A[i] ELSE C[i - Len(A)]]
    BY <2>1, Concat, Zenon
  <2> QED BY <2>2, <2>3
<1>9. ASSUME NEW i \in 1..k
      PROVE  At(r, i) = IF i <= n THEN A[i] ELSE C[i - n]
  <2>1. CASE i <= n
    <3>1. i \in 1..n
      BY <2>1, <1>2
    <3> QED BY <3>1, <2>1, <1>5, Zenon
  <2>2. CASE ~(i <= n)
    <3>1. i - n \in 1..(k - n) /\ (i - n) + n = i
      BY <2>2, <1>2
    <3>2. C[i - n] = At(c, i - n)
      BY <3>1, <1>6, Zenon
    <3>3. At(c, i - n) = At(r, i)
      BY <3>1, <1>4, Zenon
    <3> QED BY <3>2, <3>3, <2>2, Zenon
  <2> QED BY <2>1, <2>2
<1>10. ringqLen(c) = ringqLen(r) - n
  BY <1>2, <1>3
<1> QED BY <1>7, <1>8, <1>9, <1>10, Zenon

-----------------------------------------------------------------------------
(* The functions of ringq.c, one by one.                                   *)

(* ringqOpen makes an empty queue. *)
LEMMA OpenProp ==
  ASSUME NEW size \in 0..(2 * MaxLen), NEW max \in Int
  PROVE  IsRingq(ringqOpen(size, max)) /\ Contents(ringqOpen(size, max)) = <<>>
<1> DEFINE k == getBinBlockSize(size)
           r == ringqOpen(size, max)
<1>1. k \in Nat /\ k > 0
  BY BlockAssumption
<1>2. r = [buf |-> [i \in 0..(k - 1) |-> IF i = 0 THEN NUL ELSE JUNK],
           buflen |-> k, servp |-> 0, endp |-> 0,
           increment |-> k, maxsize |-> max]
  BY Zenon DEF ringqOpen
<1> HIDE DEF k, r
<1>3. IsRingq(r)
  BY <1>1, <1>2 DEF IsRingq, Cell
<1>4. ringqLen(r) = 0
  BY <1>2 DEF ringqLen
<1> QED BY <1>3, <1>4 DEF Contents, r

(* ringqFlush, and with it ringqClose, empties it. *)
LEMMA FlushProp ==
  ASSUME NEW r, IsRingq(r)
  PROVE  IsRingq(ringqFlush(r)) /\ Contents(ringqFlush(r)) = <<>>
<1> DEFINE b == [r.buf EXCEPT ![0] = NUL]
           c == [r EXCEPT !.servp = 0, !.endp = 0, !.buf = b]
<1>1. b \in [0..(r.buflen - 1) -> Cell] /\ 0 \in 0..(r.buflen - 1)
  BY Offsets DEF Cell
<1> HIDE DEF b
<1>2. Remade(c, r, b, 0, 0)
  BY <1>1, RemadeExcept, Zenon
<1>3. ringqFlush(r) = c
  BY DEF ringqFlush, b
<1> HIDE DEF c
<1>4. ringqLen(c) = 0
  BY <1>2 DEF ringqLen, Remade
<1> QED BY <1>2, <1>3, <1>4 DEF Contents, Remade

(* The terminator of ringqAddNull goes to the free cell. *)
LEMMA AddNullProp ==
  ASSUME NEW r, IsRingq(r)
  PROVE  /\ IsRingq(ringqAddNull(r))
         /\ Contents(ringqAddNull(r)) = Contents(r)
<1> DEFINE b == [r.buf EXCEPT ![r.endp] = NUL]
           c == [r EXCEPT !.buf = b]
<1>0. /\ r.buflen \in Nat /\ r.servp \in 0..(r.buflen - 1)
      /\ r.endp \in 0..(r.buflen - 1) /\ 0 \in Nat
      /\ r.buf \in [0..(r.buflen - 1) -> Cell]
      /\ LenOf(r.buflen, r.servp, r.endp) + 0 < r.buflen
      /\ r.endp + 0 <= r.buflen
      /\ ringqLen(r) = LenOf(r.buflen, r.servp, r.endp)
  BY Offsets, Room, SMTT(30)
<1>1. b \in [0..(r.buflen - 1) -> Cell]
  BY <1>0 DEF Cell
<1>2. \A j \in 0..(r.buflen - 1) : j # r.endp => b[j] = r.buf[j]
  BY <1>0
<1>3. ringqAddNull(r) = c
  BY DEF ringqAddNull
<1> HIDE DEF b
<1>4. Remade(c, r, b, r.servp, r.endp)
  BY <1>0, <1>1, RemadeExcept, Zenon
<1> HIDE DEF c
<1>5. IsRingq(c) /\ c.buflen = r.buflen /\ c.servp = r.servp /\ c.buf = b
      /\ c.endp = r.endp
  BY <1>4, Zenon DEF Remade
<1>6. ringqLen(c) = ringqLen(r)
  BY <1>5, Zenon DEF ringqLen
<1>7. ASSUME NEW i \in 1..ringqLen(r) PROVE At(c, i) = At(r, i)
  <2> DEFINE j == Pos(r.buflen, r.servp, i)
  <2>1. j \in 0..(r.buflen - 1) /\ j # r.endp
    BY <1>0, PutOld, Zenon
  <2>2. b[j] = r.buf[j]
    BY <2>1, <1>2, Zenon
  <2> QED BY <2>2, <1>5, Offsets, Zenon
<1> QED BY <1>3, <1>5, <1>6, <1>7, Zenon DEF Contents

(* An iteration of ringqPutBlk appends what it copies. *)
LEMMA CopyInProp ==
  ASSUME NEW r, IsRingq(r), NEW t \in Seq(Byte), NEW n \in 0..Len(t),
         n <= ringqPutBlkMax(r)
  PROVE  /\ IsRingq(CopyIn(r, t, n))
         /\ Contents(CopyIn(r, t, n)) = Contents(r) \o SubSeq(t, 1, n)
<1> DEFINE b == [i \in 0..(r.buflen - 1) |->
                   IF i >= r.endp /\ i < r.endp + n THEN t[i - r.endp + 1]
                   ELSE r.buf[i]]
           e == WrapAt(r.buflen, r.endp + n)
           c == [r EXCEPT !.buf = b, !.endp = e]
<1>1. e \in 0..(r.buflen - 1)
  BY Offsets, Room, SMTT(30) DEF WrapAt
<1>2. b \in [0..(r.buflen - 1) -> Cell]
  <2> SUFFICES ASSUME NEW i \in 0..(r.buflen - 1)
               PROVE  b[i] \in Cell
    BY Zenon
  <2>1. CASE i >= r.endp /\ i < r.endp + n
    <3>1. i - r.endp + 1 \in 1..Len(t)
      BY <2>1, Offsets
    <3> QED BY <2>1, <3>1 DEF Cell
  <2>2. CASE ~(i >= r.endp /\ i < r.endp + n)
    BY <2>2, Offsets
  <2> QED BY <2>1, <2>2
<1>3. Laid(b, r, t, n)
  BY Zenon DEF Laid
<1>4. CopyIn(r, t, n) = c
  BY Zenon DEF CopyIn, Wrap, WrapAt
<1> HIDE DEF b, e
<1>5. Remade(c, r, b, r.servp, e)
  BY <1>1, <1>2, RemadeExcept, Zenon
<1> HIDE DEF c
<1>6. Contents(c) = Contents(r) \o SubSeq(t, 1, n)
  BY <1>3, <1>5, Appends, Zenon DEF e
<1> QED BY <1>4, <1>5, <1>6, Zenon DEF Remade

(* A sequence is its own longest part. *)
LEMMA WholeSubSeq ==
  ASSUME NEW S, NEW t \in Seq(S)
  PROVE  SubSeq(t, 1, Len(t)) = t
OBVIOUS

(* Putting one byte is copying a block of one. *)
LEMMA Put1Prop ==
  ASSUME NEW r, IsRingq(r), NEW x \in Byte, 1 <= ringqPutBlkMax(r)
  PROVE  /\ IsRingq(Put1(r, x))
         /\ Contents(Put1(r, x)) = Contents(r) \o <<x>>
<1> DEFINE b == [r.buf EXCEPT ![r.endp] = x]
           e == WrapAt(r.buflen, r.endp + 1)
           c == [r EXCEPT !.buf = b, !.endp = e]
<1>1. e \in 0..(r.buflen - 1)
  BY Offsets, Room, SMTT(30) DEF WrapAt
<1>2. b \in [0..(r.buflen - 1) -> Cell]
  BY Offsets DEF Cell
<1> DEFINE t == <<x>>
<1>t. t \in Seq(Byte) /\ Len(t) = 1 /\ t[1] = x /\ 1 \in 0..Len(t)
  OBVIOUS
<1> HIDE DEF t
<1>3. Laid(b, r, t, 1)
  <2> SUFFICES ASSUME NEW i \in 0..(r.buflen - 1)
               PROVE  b[i] = IF i >= r.endp /\ i < r.endp + 1
                             THEN t[i - r.endp + 1] ELSE r.buf[i]
    BY Zenon DEF Laid
  <2>1. CASE i = r.endp
    <3>1. i >= r.endp /\ i < r.endp + 1 /\ i - r.endp + 1 = 1
      BY <2>1, Offsets
    <3>2. b[i] = x
      BY <2>1, Offsets
    <3> QED BY <3>1, <3>2, <1>t, Zenon
  <2>2. CASE i # r.endp
    <3>1. ~(i >= r.endp /\ i < r.endp + 1)
      BY <2>2, Offsets
    <3>2. b[i] = r.buf[i]
      BY <2>2, Offsets
    <3> QED BY <3>1, <3>2, Zenon
  <2> QED BY <2>1, <2>2
<1>4. Put1(r, x) = c
  BY DEF Put1, Wrap, WrapAt
<1> HIDE DEF b, e
<1>5. Remade(c, r, b, r.servp, e)
  BY <1>1, <1>2, RemadeExcept, Zenon
<1> HIDE DEF c
<1>6. Contents(c) = Contents(r) \o SubSeq(t, 1, 1)
  BY <1>t, <1>3, <1>5, Appends, Zenon DEF e
<1>7. SubSeq(t, 1, 1) = t
  BY <1>t, WholeSubSeq
<1> QED BY <1>4, <1>5, <1>6, <1>7, Zenon DEF Remade, t

(* A caller that fills the cells itself and calls ringqPutBlkAdj gets what *)
(* ringqPutBlk gives.                                                      *)
LEMMA PutBlkAdjProp ==
  ASSUME NEW r, IsRingq(r), NEW t \in Seq(Byte), Len(t) <= ringqPutBlkMax(r)
  PROVE  /\ IsRingq(ringqPutBlkAdj(Filled(r, t, Len(t)), Len(t)))
         /\ Contents(ringqPutBlkAdj(Filled(r, t, Len(t)), Len(t)))
              = Contents(r) \o t
<1> DEFINE n == Len(t)
           b == [i \in 0..(r.buflen - 1) |->
                   IF i >= r.endp /\ i < r.endp + n THEN t[i - r.endp + 1]
                   ELSE r.buf[i]]
           f == Filled(r, t, n)
           e == WrapAt(r.buflen, r.endp + n)
           p == IF r.endp + n >= r.buflen THEN r.endp + n - r.buflen
                ELSE r.endp + n
           c == [f EXCEPT !.endp = e]
<1>0. n \in Nat /\ n \in 0..n /\ n <= ringqPutBlkMax(r)
  OBVIOUS
<1>1. e \in 0..(r.buflen - 1) /\ p = e /\ ~(p >= r.buflen)
  <2>1. /\ r.buflen \in Nat /\ r.endp \in 0..(r.buflen - 1)
        /\ r.endp + n <= r.buflen /\ r.buflen > 0
    BY Offsets, Room, <1>0
  <2>2. e \in 0..(r.buflen - 1)
    BY <2>1, <1>0 DEF WrapAt
  <2> QED BY <2>1, <2>2, <1>0, AdjOffsets, Zenon
<1>2. b \in [0..(r.buflen - 1) -> Cell]
  <2> SUFFICES ASSUME NEW i \in 0..(r.buflen - 1)
               PROVE  b[i] \in Cell
    BY Zenon
  <2>1. CASE i >= r.endp /\ i < r.endp + n
    <3>1. i - r.endp + 1 \in 1..Len(t)
      BY <2>1, Offsets
    <3> QED BY <2>1, <3>1 DEF Cell
  <2>2. CASE ~(i >= r.endp /\ i < r.endp + n)
    BY <2>2, Offsets
  <2> QED BY <2>1, <2>2
<1>3. Laid(b, r, t, n)
  BY Zenon DEF Laid
<1>4. f = [r EXCEPT !.buf = b]
  BY Zenon DEF Filled
<1> HIDE DEF b, e, f, n, p
<1>6. Remade(f, r, b, r.servp, r.endp)
  BY <1>2, <1>4, Offsets, RemadeExcept, Zenon
<1>7. IsRingq(f) /\ f.buflen = r.buflen /\ f.buf = b /\ f.servp = r.servp
      /\ f.endp = r.endp
  BY <1>6, Zenon DEF Remade
<1>8. Remade(c, f, b, r.servp, e)
  BY <1>1, <1>2, <1>7, RemadeExcept, Zenon
<1>9. Remade(c, r, b, r.servp, e)
  BY <1>7, <1>8, Zenon DEF Remade
<1>10. ringqPutBlkAdj(f, n) = c
  BY <1>1, <1>7, Zenon DEF ringqPutBlkAdj, p
<1> HIDE DEF c
<1>11. Contents(c) = Contents(r) \o SubSeq(t, 1, n)
  BY <1>0, <1>3, <1>9, Appends, Zenon DEF e, n
<1>12. SubSeq(t, 1, n) = t
  BY WholeSubSeq DEF n
<1> QED BY <1>9, <1>10, <1>11, <1>12, Zenon DEF Remade, f, n

(* ringqInsertc puts its byte in front. *)
LEMMA InsertProp ==
  ASSUME NEW r, IsRingq(r), NEW x \in Byte, 1 <= ringqPutBlkMax(r)
  PROVE  /\ IsRingq(Insert1(r, x))
         /\ Contents(Insert1(r, x)) = <<x>> \o Contents(r)
<1> DEFINE p == Before(r.buflen, r.servp)
           b == [r.buf EXCEPT ![p] = x]
           c == [r EXCEPT !.buf = b, !.servp = p]
           k == LenOf(r.buflen, r.servp, r.endp)
<1>1. /\ r.buflen \in Nat /\ r.servp \in 0..(r.buflen - 1)
      /\ r.endp \in 0..(r.buflen - 1) /\ k \in Nat
      /\ ringqLen(r) = k /\ k + 1 < r.buflen
      /\ r.buf \in [0..(r.buflen - 1) -> Cell]
  BY Offsets, Room, SMTT(30)
<1>4. Insert1(r, x) = c
  BY Zenon DEF Insert1, Before
<1>2. /\ p \in 0..(r.buflen - 1) /\ LenOf(r.buflen, p, r.endp) = k + 1
      /\ Pos(r.buflen, p, 1) = p
  BY <1>1, InsertLen, Zenon
<1>o. ASSUME NEW i \in 1..k
      PROVE  /\ Pos(r.buflen, p, i + 1) = Pos(r.buflen, r.servp, i)
             /\ Pos(r.buflen, r.servp, i) # p
             /\ Pos(r.buflen, r.servp, i) \in 0..(r.buflen - 1)
  BY <1>1, InsertOld, Zenon
<1>3. b \in [0..(r.buflen - 1) -> Cell] /\ b[p] = x
      /\ \A j \in 0..(r.buflen - 1) : j # p => b[j] = r.buf[j]
  BY <1>1, <1>2 DEF Cell
<1> HIDE DEF b, k, p
<1>5. Remade(c, r, b, p, r.endp)
  BY <1>1, <1>2, <1>3, RemadeExcept, Zenon
<1> HIDE DEF c
<1>6. IsRingq(c) /\ c.buflen = r.buflen /\ c.servp = p /\ c.buf = b
      /\ c.endp = r.endp
  BY <1>5, Zenon DEF Remade
<1>7. /\ ringqLen(c) = LenOf(c.buflen, c.servp, c.endp)
      /\ \A i : At(c, i) = c.buf[Pos(c.buflen, c.servp, i)]
      /\ \A i : At(r, i) = r.buf[Pos(r.buflen, r.servp, i)]
  BY <1>6, Offsets, Zenon
<1>8. ringqLen(c) = k + 1
  BY <1>2, <1>6, <1>7, Zenon
<1>a. \A i : At(c, i) = b[Pos(r.buflen, p, i)]
  BY <1>6, <1>7, Zenon
<1>9. At(c, 1) = x
  BY <1>2, <1>3, <1>a
<1>10. ASSUME NEW i \in 1..k PROVE At(c, i + 1) = At(r, i)
  <2>1. At(c, i + 1) = b[Pos(r.buflen, r.servp, i)]
    BY <1>o, <1>a, Zenon
  <2>2. b[Pos(r.buflen, r.servp, i)] = r.buf[Pos(r.buflen, r.servp, i)]
    BY <1>o, <1>3, Zenon
  <2> QED BY <2>1, <2>2, <1>7, Zenon
<1>11. Contents(c) = [i \in 1..(k + 1) |-> At(c, i)]
  BY <1>8, Zenon DEF Contents
<1>12. Contents(r) = [i \in 1..k |-> At(r, i)]
  BY <1>1, Zenon DEF Contents
<1>13. <<x>> \o Contents(r)
         = [i \in 1..(k + 1) |-> IF i = 1 THEN x ELSE At(r, i - 1)]
  <2> DEFINE A == <<x>>
             C == Contents(r)
  <2>1. C \in Seq(Cell) /\ Len(C) = k
    BY <1>1, ContentsType, Zenon
  <2>2. A \in Seq(Cell) /\ Len(A) = 1 /\ A[1] = x
    BY DEF Cell
  <2> HIDE DEF A, C
  <2>3. A \o C = [i \in 1..(Len(A) + Len(C)) |->
                    IF i <= Len(A) THEN A[i] ELSE C[i - Len(A)]]
    BY <2>1, <2>2, Concat, Zenon
  <2>4. 1 + k = k + 1
    BY <1>1
  <2>5. ASSUME NEW i \in 1..(k + 1)
        PROVE  (IF i <= 1 THEN A[i] ELSE C[i - 1])
                 = IF i = 1 THEN x ELSE At(r, i - 1)
    <3>1. CASE i = 1
      BY <3>1, <2>2
    <3>2. CASE i # 1
      <4>1. i - 1 \in 1..k /\ ~(i <= 1)
        BY <3>2, <1>1
      <4>2. C[i - 1] = At(r, i - 1)
        BY <4>1, <1>12, Zenon DEF C
      <4> QED BY <4>1, <4>2, <3>2, Zenon
    <3> QED BY <3>1, <3>2
  <2> QED BY <2>1, <2>2, <2>3, <2>4, <2>5, Zenon DEF A, C
<1>14. ASSUME NEW i \in 1..(k + 1)
       PROVE  At(c, i) = IF i = 1 THEN x ELSE At(r, i - 1)
  <2>1. CASE i = 1
    BY <2>1, <1>9
  <2>2. CASE i # 1
    <3>1. i - 1 \in 1..k /\ (i - 1) + 1 = i
      BY <2>2, <1>1
    <3> QED BY <3>1, <2>2, <1>10
  <2> QED BY <2>1, <2>2
<1> QED BY <1>4, <1>6, <1>11, <1>13, <1>14, Zenon

(* One straight-line copy out of the queue. *)
LEMMA SkipProp ==
  ASSUME NEW r, IsRingq(r), NEW n \in 0..ringqGetBlkMax(r)
  PROVE  /\ Remade(Skip(r, n), r, r.buf, WrapAt(r.buflen, r.servp + n), r.endp)
         /\ ringqLen(Skip(r, n)) = ringqLen(r) - n
         /\ Contents(r) = [i \in 1..n |-> r.buf[r.servp + i - 1]]
                            \o Contents(Skip(r, n))
<1> DEFINE s == WrapAt(r.buflen, r.servp + n)
           c == [r EXCEPT !.servp = s]
<1>1. s \in 0..(r.buflen - 1)
  BY Offsets, Room, SMTT(30) DEF WrapAt
<1>2. Skip(r, n) = c
  BY Zenon DEF Skip, Wrap, WrapAt
<1> HIDE DEF s
<1>3. Remade(c, r, r.buf, s, r.endp)
  BY <1>1, Offsets, RemadeExcept, Zenon
<1> HIDE DEF c
<1> QED BY <1>2, <1>3, Removes, Zenon DEF s

(* ringqGetc takes the first byte. *)
LEMMA GetcProp ==
  ASSUME NEW r, IsRingq(r), r.servp # r.endp
  PROVE  /\ IsRingq(ringqGetc(r))
         /\ Contents(r) = <<r.buf[r.servp]>> \o Contents(ringqGetc(r))
<1>1. 1 \in 0..ringqGetBlkMax(r)
  BY Room
<1>2. ringqGetc(r) = Skip(r, 1)
  BY Zenon DEF ringqGetc, Skip
<1>3. [i \in 1..1 |-> r.buf[r.servp + i - 1]] = <<r.buf[r.servp]>>
  BY Offsets
<1> QED BY <1>1, <1>2, <1>3, SkipProp, Zenon DEF Remade

(* ringqGetBlkAdj takes what its caller has copied. *)
LEMMA GetBlkAdjProp ==
  ASSUME NEW r, IsRingq(r), NEW n \in 0..ringqGetBlkMax(r)
  PROVE  /\ IsRingq(ringqGetBlkAdj(r, n))
         /\ ringqLen(ringqGetBlkAdj(r, n)) = ringqLen(r) - n
         /\ Contents(r) = [i \in 1..n |-> r.buf[r.servp + i - 1]]
                            \o Contents(ringqGetBlkAdj(r, n))
<1>1. /\ r.buflen \in Nat /\ r.servp \in 0..(r.buflen - 1) /\ n \in Nat
      /\ r.servp + n <= r.buflen /\ r.buflen > 0
  BY Offsets, Room, SMTT(30)
<1>2. ringqGetBlkAdj(r, n) = Skip(r, n)
  BY <1>1, AdjOffsets, Zenon DEF ringqGetBlkAdj, Skip, Wrap, WrapAt
<1> QED BY <1>2, SkipProp, Zenon DEF Remade

(* The two copies of ringqGetBlk hand over the first bytes of the queue. *)
LEMMA GetBlkProp ==
  ASSUME NEW r, IsRingq(r), NEW size \in Nat
  PROVE  /\ IsRingq(ringqGetBlk(r, size)) /\ Copied(r, size) \in Seq(Cell)
         /\ Contents(r) = Copied(r, size) \o Contents(ringqGetBlk(r, size))
<1> DEFINE a == FirstCopy(r, size)
           m == Skip(r, a)
           b == SecondCopy(r, size)
           c == Skip(m, b)
           A == [i \in 1..a |-> r.buf[r.servp + i - 1]]
           B == [i \in 1..b |-> m.buf[m.servp + i - 1]]
<1>1. a \in 0..ringqGetBlkMax(r) /\ a \in Nat /\ size - a \in Nat
  BY Room DEF FirstCopy, Lesser
<1>2. IsRingq(m) /\ m.buf = r.buf
  BY <1>1, SkipProp, Zenon DEF Remade
<1>3. Contents(r) = A \o Contents(m)
  BY <1>1, SkipProp, Zenon
<1>4. b = Lesser(ringqGetBlkMax(m), size - a)
  BY Zenon DEF SecondCopy
<1>5. b \in 0..ringqGetBlkMax(m) /\ b \in Nat
  <2>1. ringqGetBlkMax(m) \in Nat
    BY <1>2, Room, Zenon
  <2> HIDE DEF m, a, b
  <2> QED BY <2>1, <1>1, <1>4 DEF Lesser
<1>6. IsRingq(c) /\ Contents(m) = B \o Contents(c)
  BY <1>2, <1>5, SkipProp, Zenon DEF Remade
<1>7. A \in Seq(Cell)
  BY <1>1, StraightLine, Zenon
<1>8. B \in Seq(Cell)
  BY <1>2, <1>5, StraightLine, Zenon
<1>9. Copied(r, size) = [i \in 1..(a + b) |-> IF i <= a THEN r.buf[r.servp + i - 1]
                                              ELSE r.buf[m.servp + i - a - 1]]
  BY Zenon DEF Copied
<1>10. ringqGetBlk(r, size) = c
  BY Zenon DEF ringqGetBlk
<1>11. Contents(c) \in Seq(Cell)
  BY <1>6, ContentsType, Zenon
<1> HIDE DEF m, a, b, c
<1>12. Copied(r, size) = A \o B
  <2>1. Len(A) = a /\ Len(B) = b
    BY <1>1, <1>5
  <2>2. A \o B = [i \in 1..(a + b) |-> IF i <= a THEN r.buf[r.servp + i - 1]
                                       ELSE m.buf[m.servp + (i - a) - 1]]
    BY <1>1, <1>5, <1>7, <1>8, <2>1, SMTT(30)
  <2> QED BY <2>2, <1>9, <1>2, Zenon
<1> HIDE DEF A, B
<1>13. A \o B \in Seq(Cell) /\ A \o (B \o Contents(c)) = (A \o B) \o Contents(c)
  BY <1>7, <1>8, <1>11
<1> QED BY <1>3, <1>6, <1>10, <1>12, <1>13, Zenon

(* Asked for all of the data, ringqGetBlk hands it over. *)
LEMMA CopiedAll ==
  ASSUME NEW r, IsRingq(r)
  PROVE  Copied(r, ringqLen(r)) = Contents(r)
<1> DEFINE k == ringqLen(r)
           a == FirstCopy(r, k)
           m == Skip(r, a)
           b == SecondCopy(r, k)
           c == Skip(m, b)
<1>1. k \in Nat /\ ringqGetBlkMax(r) \in Nat /\ ringqGetBlkMax(r) <= k
  BY Room
<1>2. a = ringqGetBlkMax(r) /\ a \in 0..ringqGetBlkMax(r) /\ k - a \in Nat
  BY <1>1 DEF FirstCopy, Lesser
<1>3. /\ IsRingq(m) /\ m.buflen = r.buflen /\ m.servp = WrapAt(r.buflen, r.servp + a)
      /\ ringqLen(m) = k - a
  BY <1>2, SkipProp, Zenon DEF Remade
<1>4. ringqGetBlkMax(m) = k - a
  <2>1. a = Lesser(r.buflen - r.servp, k)
    BY <1>2, Zenon DEF ringqGetBlkMax
  <2>2. ringqGetBlkMax(m) = Lesser(r.buflen - m.servp, k - a)
    BY <1>3, Zenon DEF ringqGetBlkMax
  <2>3. /\ r.buflen \in Nat /\ r.servp \in 0..(r.buflen - 1)
        /\ r.endp \in 0..(r.buflen - 1) /\ k = LenOf(r.buflen, r.servp, r.endp)
    BY Offsets, Zenon
  <2> HIDE DEF k, a, m
  <2>4. Lesser(r.buflen - m.servp, k - a) = k - a
    BY <2>1, <2>3, <1>3, TwoCopies
  <2> QED BY <2>2, <2>4, Zenon
<1>5. b = k - a /\ b \in 0..ringqGetBlkMax(m)
  <2>1. b = Lesser(ringqGetBlkMax(m), k - a)
    BY Zenon DEF SecondCopy
  <2> HIDE DEF k, a, m, b
  <2> QED BY <2>1, <1>2, <1>4 DEF Lesser
<1>6. IsRingq(c) /\ ringqLen(c) = (k - a) - b
  BY <1>3, <1>5, SkipProp, Zenon DEF Remade
<1>7. Contents(c) = <<>>
  <2> HIDE DEF k, a, b, c
  <2>1. ringqLen(c) = 0
    BY <1>2, <1>5, <1>6
  <2> QED BY <2>1 DEF Contents
<1>8. Copied(r, k) \in Seq(Cell) /\ Contents(r) = Copied(r, k) \o <<>>
  BY <1>1, <1>7, GetBlkProp, Zenon DEF ringqGetBlk
<1> QED BY <1>8

(* ringqGrow keeps the contents and makes room. *)
LEMMA GrowProp ==
  ASSUME NEW r, IsRingq(r), CanGrow(r)
  PROVE  /\ IsRingq(ringqGrow(r)) /\ Contents(ringqGrow(r)) = Contents(r)
         /\ 1 <= ringqPutBlkMax(ringqGrow(r))
<1> DEFINE k == ringqLen(r)
           d == Contents(r)
           size == r.buflen + r.increment
           inc == getBinBlockSize(2 * r.increment)
           b == [i \in 0..(size - 1) |-> IF i < Len(d) THEN d[i + 1] ELSE JUNK]
           g == ringqGrow(r)
<1>1. g = [buf |-> b, buflen |-> size, servp |-> 0, endp |-> k,
           increment |-> inc, maxsize |-> r.maxsize]
  <2> DEFINE data == Copied(r, ringqLen(r))
  <2>1. g = [buf |-> [i \in 0..(size - 1) |->
                        IF i < Len(data) THEN data[i + 1] ELSE JUNK],
             buflen |-> size, servp |-> 0, endp |-> k,
             increment |-> inc, maxsize |-> r.maxsize]
    BY Zenon DEF ringqGrow
  <2>2. data = d
    BY CopiedAll
  <2> HIDE DEF data, d, g, inc, size, k
  <2> QED BY <2>1, <2>2
<1>2. d \in Seq(Cell) /\ Len(d) = k /\ \A i \in 1..k : d[i] = At(r, i)
  BY ContentsType, Zenon
<1>3. /\ r.buflen \in Nat /\ r.increment \in Nat \ {0} /\ r.maxsize \in Int
      /\ k \in 0..(r.buflen - 1) /\ r.buflen + r.increment <= MaxLen
  BY Offsets, Room DEF CanGrow, IsRingq
<1>4. inc \in Nat \ {0}
  <2>1. 2 * r.increment \in 0..(2 * MaxLen)
    BY <1>3, RingAssumption
  <2> QED BY <2>1, BlockAssumption, Zenon
<1>5. d = [i \in 1..k |-> d[i]]
  BY <1>2
<1> HIDE DEF k, d, inc, g
<1>6. b \in [0..(size - 1) -> Cell] /\ \A i \in 1..k : b[i - 1] = d[i]
  BY <1>2, <1>3 DEF Cell
<1>7. size \in Nat \ {0} /\ k < size - 1
  BY <1>3
<1> HIDE DEF b, size
<1>8. IsRingq(g)
  BY <1>1, <1>3, <1>4, <1>6, <1>7 DEF IsRingq
<1>9. ringqLen(g) = k
  BY <1>1, <1>3 DEF ringqLen
<1>10. ASSUME NEW i \in 1..k PROVE At(g, i) = d[i]
  <2>1. g.servp = 0 /\ g.buflen = size /\ g.buf = b
    BY <1>1
  <2>2. i \in Int /\ 0 + i <= size /\ 0 + i - 1 = i - 1
    BY <1>3, <1>7
  <2> QED BY <2>1, <2>2, <1>6, Zenon DEF At
<1>11. Contents(g) = d
  BY <1>5, <1>9, <1>10, Zenon DEF Contents
<1>12. 1 <= ringqPutBlkMax(g)
  BY <1>1, <1>3, <1>7, <1>9 DEF ringqPutBlkMax, Lesser
<1> QED BY <1>8, <1>11, <1>12 DEF g, d

(* The parts of a sequence over T are sequences over T. *)
LEMMA ConcatParts ==
  ASSUME NEW S, NEW T, NEW a \in Seq(S), NEW c \in Seq(S), a \o c \in Seq(T)
  PROVE  a \in Seq(T) /\ c \in Seq(T)
<1>1. ASSUME NEW i \in 1..Len(a) PROVE a[i] \in T
  <2>1. i \in 1..Len(a \o c) /\ (a \o c)[i] = a[i]
    OBVIOUS
  <2> QED BY <2>1
<1>2. ASSUME NEW i \in 1..Len(c) PROVE c[i] \in T
  <2>1. Len(a) + i \in 1..Len(a \o c) /\ (a \o c)[Len(a) + i] = c[i]
    OBVIOUS
  <2> QED BY <2>1
<1> QED BY <1>1, <1>2

(* Whatever leaves a queue of bytes is bytes. *)
LEMMA Taken ==
  ASSUME NEW r, IsRingq(r), NEW c, IsRingq(c), Contents(r) \in Seq(Byte),
         NEW a \in Seq(Cell), Contents(r) = a \o Contents(c)
  PROVE  a \in Seq(Byte) /\ Contents(c) \in Seq(Byte)
BY ConcatParts, ContentsType

=============================================================================
