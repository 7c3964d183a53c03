-------------------------- MODULE RingQueueProofs --------------------------
(***************************************************************************)
(* Proofs about the ring queue and its owner, for every set of bytes,      *)
(* every buffer size and every block length: no call damages the queue, it *)
(* implements ByteQueue, and the loop of ringqPutBlk makes progress.       *)
(***************************************************************************)
EXTENDS RingQueueCalls, RingQueueLemmas

(* Beside the types: only an open queue is being put into. *)
Inv == TypeOK /\ (~open => todo = <<>> /\ ~str)

(* What is appended lengthens a sequence and keeps its beginning. *)
LEMMA Appended ==
  ASSUME NEW p \in Seq(Byte), NEW t \in Seq(Byte)
  PROVE  /\ p \o t \in Seq(Byte) /\ SubSeq(p \o t, 1, Len(p)) = p
         /\ t # <<>> => Len(p \o t) > Len(p)
<1>1. p \o t \in Seq(Byte) /\ Len(p \o t) = Len(p) + Len(t)
  OBVIOUS
<1>2. SubSeq(p \o t, 1, Len(p)) = p
  OBVIOUS
<1>3. t # <<>> => Len(t) > 0
  OBVIOUS
<1> QED BY <1>1, <1>2, <1>3

(* A queue with room, grown if need be, has the same contents. *)
LEMMA RoomyProp ==
  ASSUME IsRingq(rq), NEW r \in Roomy
  PROVE  /\ IsRingq(r) /\ Contents(r) = Contents(rq)
         /\ 1 <= ringqPutBlkMax(r)
<1>1. CASE ringqPutBlkMax(rq) >= 1
  <2>1. r = rq
    BY <1>1 DEF Roomy
  <2> QED BY <2>1, <1>1, Room
<1>2. CASE ~(ringqPutBlkMax(rq) >= 1)
  <2>1. CanGrow(rq) /\ r = ringqGrow(rq)
    BY <1>2, Zenon DEF Roomy
  <2> QED BY <2>1, GrowProp, Zenon
<1> QED BY <1>1, <1>2

(* ringqOpen establishes the invariant. *)
LEMMA InitInv == Init => Inv /\ Abstract!Init
<1> SUFFICES ASSUME Init PROVE Inv /\ Abstract!Init
  OBVIOUS
<1>1. PICK size \in InitSizes, max \in MaxSizes : rq = ringqOpen(size, max)
  BY Zenon DEF Init
<1>2. IsRingq(rq) /\ Contents(rq) = <<>>
  BY <1>1, OpenProp, CallsAssumption
<1>3. open = TRUE /\ todo = <<>> /\ str = FALSE /\ ret = <<>>
  BY Zenon DEF Init
<1>4. <<>> \in Seq(Byte)
  OBVIOUS
<1> QED BY <1>2, <1>3, <1>4, Zenon DEF Inv, TypeOK, Abstract!Init

(* Every call keeps the invariant and is a step of ByteQueue. *)
LEMMA StepProp ==
  ASSUME Inv, Next
  PROVE  Inv' /\ Abstract!Next
<1>1. /\ IsRingq(rq) /\ Contents(rq) \in Seq(Byte)
      /\ open \in BOOLEAN /\ str \in BOOLEAN
      /\ todo \in Seq(Byte) /\ ret \in Seq(Byte)
      /\ ~open => todo = <<>> /\ ~str
  BY Zenon DEF Inv, TypeOK
<1>e. <<>> \in Seq(Byte)
  OBVIOUS
<1>s. ASSUME IsRingq(rq'), Contents(rq') \in Seq(Byte), ret' \in Seq(Byte),
             Idle, UNCHANGED <<open, todo, str>>
      PROVE  Inv'
  BY <1>1, <1>s, Zenon DEF Inv, TypeOK, Idle
<1>t. Idle => open /\ todo = <<>> /\ ~str
  BY Zenon DEF Idle
<1>2. ASSUME OpenAgain PROVE Inv' /\ Abstract!Next
  <2>1. PICK size \in InitSizes, max \in MaxSizes : rq' = ringqOpen(size, max)
    BY <1>2, Zenon DEF OpenAgain
  <2>2. IsRingq(rq') /\ Contents(rq') = <<>>
    BY <2>1, OpenProp, CallsAssumption
  <2>3. ~open /\ open' = TRUE /\ ret' = <<>> /\ todo' = todo /\ str' = str
    BY <1>2, Zenon DEF OpenAgain
  <2>4. Inv'
    BY <1>1, <1>e, <2>2, <2>3, Zenon DEF Inv, TypeOK
  <2>5. Abstract!Drop
    BY <1>1, <2>2, <2>3, Zenon DEF Abstract!Drop
  <2> QED BY <2>4, <2>5, Zenon DEF Abstract!Next
<1>3. ASSUME ringqClose PROVE Inv' /\ Abstract!Next
  <2>1. /\ Idle /\ open' = FALSE /\ rq' = ringqFlush(rq) /\ ret' = <<>>
        /\ todo' = todo /\ str' = str
    BY <1>3, Zenon DEF ringqClose
  <2>2. IsRingq(rq') /\ Contents(rq') = <<>>
    BY <1>1, <2>1, FlushProp, Zenon
  <2>3. Inv'
    BY <1>1, <1>e, <1>t, <2>1, <2>2, Zenon DEF Inv, TypeOK
  <2>4. Abstract!Drop
    BY <1>t, <2>1, <2>2, Zenon DEF Abstract!Drop
  <2> QED BY <2>3, <2>4, Zenon DEF Abstract!Next
<1>4. ASSUME Flush PROVE Inv' /\ Abstract!Next
  <2>1. /\ Idle /\ rq' = ringqFlush(rq) /\ ret' = <<>>
        /\ UNCHANGED <<open, todo, str>>
    BY <1>4, Zenon DEF Flush, Only
  <2>2. IsRingq(rq') /\ Contents(rq') = <<>>
    BY <1>1, <2>1, FlushProp, Zenon
  <2>3. Inv'
    BY <1>s, <1>e, <2>1, <2>2, Zenon
  <2>4. Abstract!Drop
    BY <1>t, <2>1, <2>2, Zenon DEF Abstract!Drop
  <2> QED BY <2>3, <2>4, Zenon DEF Abstract!Next
<1>5. ASSUME AddNull PROVE Inv' /\ Abstract!Next
  <2>1. /\ Idle /\ rq' = ringqAddNull(rq) /\ ret' = <<>>
        /\ UNCHANGED <<open, todo, str>>
    BY <1>5, Zenon DEF AddNull, Only
  <2>2. IsRingq(rq') /\ Contents(rq') = Contents(rq)
    BY <1>1, <2>1, AddNullProp, Zenon
  <2>3. Inv'
    BY <1>1, <1>s, <1>e, <2>1, <2>2, Zenon
  <2>4. <<>> \o Contents(rq) = Contents(rq)
    BY <1>1
  <2>5. Abstract!Take
    BY <1>t, <2>1, <2>2, <2>4, Zenon DEF Abstract!Take
  <2> QED BY <2>3, <2>5, Zenon DEF Abstract!Next
<1>6. ASSUME Putc PROVE Inv' /\ Abstract!Next
  <2>1. PICK r \in Roomy, x \in Byte : Only(Put1(r, x))
    BY <1>6, Zenon DEF Putc
  <2>2. Idle /\ rq' = Put1(r, x) /\ ret' = <<>> /\ UNCHANGED <<open, todo, str>>
    BY <1>6, <2>1, Zenon DEF Putc, Only
  <2>3. IsRingq(rq') /\ Contents(rq') = Contents(rq) \o <<x>>
    BY <1>1, <2>2, RoomyProp, Put1Prop, Zenon
  <2>4. <<x>> \in Seq(Byte) /\ <<x>> # <<>>
    OBVIOUS
  <2>5. /\ Contents(rq') \in Seq(Byte) /\ Len(Contents(rq')) > Len(Contents(rq))
        /\ SubSeq(Contents(rq'), 1, Len(Contents(rq))) = Contents(rq)
    BY <1>1, <2>3, <2>4, Appended, ZenonT(60)
  <2>6. Inv'
    BY <1>s, <1>e, <2>2, <2>3, <2>5, Zenon
  <2>7. Abstract!Put
    BY <1>t, <2>2, <2>5, Zenon DEF Abstract!Put
  <2> QED BY <2>6, <2>7, Zenon DEF Abstract!Next
<1>7. ASSUME Insertc PROVE Inv' /\ Abstract!Next
  <2>1. PICK r \in Roomy, x \in Byte : Only(Insert1(r, x))
    BY <1>7, Zenon DEF Insertc
  <2>2. Idle /\ rq' = Insert1(r, x) /\ ret' = <<>> /\ UNCHANGED <<open, todo, str>>
    BY <1>7, <2>1, Zenon DEF Insertc, Only
  <2>3. IsRingq(rq') /\ Contents(rq') = <<x>> \o Contents(rq)
    BY <1>1, <2>2, RoomyProp, InsertProp, Zenon
  <2>4. <<x>> \o Contents(rq) \in Seq(Byte)
    BY <1>1
  <2>5. Inv'
    BY <1>s, <1>e, <2>2, <2>3, <2>4, Zenon
  <2>6. Abstract!PutBack
    BY <1>t, <2>2, <2>3, Zenon DEF Abstract!PutBack
  <2> QED BY <2>5, <2>6, Zenon DEF Abstract!Next
<1>8. ASSUME Getc PROVE Inv' /\ Abstract!Next
  <2>1. /\ Idle /\ rq.servp # rq.endp /\ rq' = ringqGetc(rq)
        /\ ret' = <<rq.buf[rq.servp]>> /\ UNCHANGED <<open, todo, str>>
    BY <1>8, Zenon DEF Getc
  <2>2. IsRingq(rq') /\ Contents(rq) = ret' \o Contents(rq')
    BY <1>1, <2>1, GetcProp, Zenon
  <2>3. ret' \in Seq(Cell)
    BY <1>1, <2>1, Offsets
  <2>4. ret' \in Seq(Byte) /\ Contents(rq') \in Seq(Byte)
    BY <1>1, <2>2, <2>3, Taken, Zenon
  <2>5. Inv'
    BY <1>s, <2>1, <2>2, <2>4, Zenon
  <2>6. Abstract!Take
    BY <1>t, <2>1, <2>2, Zenon DEF Abstract!Take
  <2> QED BY <2>5, <2>6, Zenon DEF Abstract!Next
<1>9. ASSUME GetBlk PROVE Inv' /\ Abstract!Next
  <2>1. PICK n \in 0..(rq.buflen - 1) :
          rq' = ringqGetBlk(rq, n) /\ ret' = Copied(rq, n)
    BY <1>9, Zenon DEF GetBlk
  <2>2. Idle /\ UNCHANGED <<open, todo, str>>
    BY <1>9, Zenon DEF GetBlk
  <2>3. n \in Nat
    OBVIOUS
  <2>4. /\ IsRingq(rq') /\ ret' \in Seq(Cell)
        /\ Contents(rq) = ret' \o Contents(rq')
    BY <1>1, <2>1, <2>3, GetBlkProp, Zenon
  <2>5. ret' \in Seq(Byte) /\ Contents(rq') \in Seq(Byte)
    BY <1>1, <2>4, Taken, Zenon
  <2>6. Inv'
    BY <1>s, <2>2, <2>4, <2>5, Zenon
  <2>7. Abstract!Take
    BY <1>t, <2>2, <2>4, Zenon DEF Abstract!Take
  <2> QED BY <2>6, <2>7, Zenon DEF Abstract!Next
<1>10. ASSUME GetBlkAdj PROVE Inv' /\ Abstract!Next
  <2>1. PICK n \in 1..ringqGetBlkMax(rq) :
          /\ rq' = ringqGetBlkAdj(rq, n)
          /\ ret' = [i \in 1..n |-> rq.buf[rq.servp + i - 1]]
    BY <1>10, Zenon DEF GetBlkAdj
  <2>2. Idle /\ UNCHANGED <<open, todo, str>>
    BY <1>10, Zenon DEF GetBlkAdj
  <2>3. n \in 0..ringqGetBlkMax(rq)
    BY <1>1, Room
  <2>4. /\ IsRingq(rq') /\ ret' \in Seq(Cell)
        /\ Contents(rq) = ret' \o Contents(rq')
    BY <1>1, <2>1, <2>3, GetBlkAdjProp, StraightLine, Zenon
  <2>5. ret' \in Seq(Byte) /\ Contents(rq') \in Seq(Byte)
    BY <1>1, <2>4, Taken, Zenon
  <2>6. Inv'
    BY <1>s, <2>2, <2>4, <2>5, Zenon
  <2>7. Abstract!Take
    BY <1>t, <2>2, <2>4, Zenon DEF Abstract!Take
  <2> QED BY <2>6, <2>7, Zenon DEF Abstract!Next
<1>b. ASSUME NEW t \in Block PROVE t \in Seq(Byte) /\ t # <<>> /\ Len(t) > 0
  <2>1. PICK n \in 1..MaxBlock : t \in [1..n -> Byte]
    BY Zenon DEF Block
  <2> QED BY <2>1
<1>11. ASSUME PutBlkAdj PROVE Inv' /\ Abstract!Next
  <2>1. PICK t \in Block : /\ Len(t) <= ringqPutBlkMax(rq)
                           /\ Only(ringqPutBlkAdj(Filled(rq, t, Len(t)), Len(t)))
    BY <1>11, Zenon DEF PutBlkAdj
  <2>2. /\ Idle /\ rq' = ringqPutBlkAdj(Filled(rq, t, Len(t)), Len(t))
        /\ ret' = <<>> /\ UNCHANGED <<open, todo, str>>
    BY <1>11, <2>1, Zenon DEF PutBlkAdj, Only
  <2>3. IsRingq(rq') /\ Contents(rq') = Contents(rq) \o t
    BY <1>1, <1>b, <2>1, <2>2, PutBlkAdjProp, Zenon
  <2>4. /\ Contents(rq') \in Seq(Byte) /\ Len(Contents(rq')) > Len(Contents(rq))
        /\ SubSeq(Contents(rq'), 1, Len(Contents(rq))) = Contents(rq)
    BY <1>1, <1>b, <2>3, Appended, Zenon
  <2>5. Inv'
    BY <1>s, <1>e, <2>2, <2>3, <2>4, Zenon
  <2>6. Abstract!Put
    BY <1>t, <2>2, <2>4, Zenon DEF Abstract!Put
  <2> QED BY <2>5, <2>6, Zenon DEF Abstract!Next
<1>12. ASSUME Call PROVE Inv' /\ Abstract!Next
  <2>1. /\ Idle /\ todo' \in Block /\ str' \in BOOLEAN /\ ret' = <<>>
        /\ rq' = rq /\ open' = open
    BY <1>12, Zenon DEF Call
  <2>2. todo' \in Seq(Byte)
    BY <1>b, <2>1, Zenon
  <2>3. Inv'
    BY <1>1, <1>e, <1>t, <2>1, <2>2, Zenon DEF Inv, TypeOK
  <2>4. Abstract!Call
    BY <1>t, <2>1, <2>2, Zenon DEF Abstract!Call
  <2> QED BY <2>3, <2>4, Zenon DEF Abstract!Next
<1>13. ASSUME PutBlkStep PROVE Inv' /\ Abstract!Next
  <2> DEFINE m(r) == Lesser(ringqPutBlkMax(r), Len(todo))
  <2>1. PICK r \in Roomy : /\ rq' = CopyIn(r, todo, m(r))
                           /\ todo' = SubSeq(todo, m(r) + 1, Len(todo))
    BY <1>13, Zenon DEF PutBlkStep
  <2>2. todo # <<>> /\ ret' = <<>> /\ open' = open /\ str' = str
    BY <1>13, Zenon DEF PutBlkStep
  <2> DEFINE n == m(r)
  <2>3. IsRingq(r) /\ Contents(r) = Contents(rq) /\ 1 <= ringqPutBlkMax(r)
    BY <1>1, RoomyProp, Zenon
  <2>4. ringqPutBlkMax(r) \in Nat /\ Len(todo) \in Nat /\ Len(todo) > 0
    BY <1>1, <2>2, <2>3, Room
  <2>5. n \in 0..Len(todo) /\ n <= ringqPutBlkMax(r) /\ 1 <= n
    BY <2>3, <2>4 DEF Lesser
  <2>6. rq' = CopyIn(r, todo, n) /\ todo' = SubSeq(todo, n + 1, Len(todo))
    BY <2>1, Zenon
  <2> HIDE DEF n
  <2>7. IsRingq(rq') /\ Contents(rq') = Contents(rq) \o SubSeq(todo, 1, n)
    BY <1>1, <2>3, <2>5, <2>6, CopyInProp, ZenonT(60)
  <2>8. /\ SubSeq(todo, 1, n) \in Seq(Byte) /\ todo' \in Seq(Byte)
        /\ SubSeq(todo, 1, n) \o todo' = todo /\ Len(todo') < Len(todo)
    BY <1>1, <2>5, <2>6
  <2>9. /\ Contents(rq') \in Seq(Byte)
        /\ Contents(rq') \o todo' = Contents(rq) \o todo
    <3> DEFINE p == Contents(rq)
               a == SubSeq(todo, 1, n)
               z == todo'
    <3>1. p \in Seq(Byte) /\ a \in Seq(Byte) /\ z \in Seq(Byte)
      BY <1>1, <2>8, Zenon
    <3> HIDE DEF p, a, z
    <3>2. p \o a \in Seq(Byte) /\ (p \o a) \o z = p \o (a \o z)
      BY <3>1
    <3> QED BY <3>2, <2>7, <2>8, Zenon DEF p, a, z
  <2>10. Inv'
    BY <1>1, <1>e, <2>2, <2>7, <2>8, <2>9, Zenon DEF Inv, TypeOK
  <2>11. Abstract!Transfer
    BY <2>2, <2>8, <2>9, Zenon DEF Abstract!Transfer
  <2> QED BY <2>10, <2>11, Zenon DEF Abstract!Next
<1>14. ASSUME PutBlkBreak PROVE Inv' /\ Abstract!Next
  <2>1. /\ todo' = <<>> /\ ret' = <<>> /\ rq' = rq /\ open' = open /\ str' = str
    BY <1>14, Zenon DEF PutBlkBreak
  <2>2. Inv'
    BY <1>1, <1>e, <2>1, Zenon DEF Inv, TypeOK
  <2>3. Abstract!GiveUp
    BY <2>1, Zenon DEF Abstract!GiveUp
  <2> QED BY <2>2, <2>3, Zenon DEF Abstract!Next
<1>15. ASSUME PutStrEnd PROVE Inv' /\ Abstract!Next
  <2>1. /\ todo = <<>> /\ str /\ str' = FALSE /\ rq' = ringqAddNull(rq)
        /\ ret' = <<>> /\ open' = open /\ todo' = todo
    BY <1>15, Zenon DEF PutStrEnd
  <2>2. IsRingq(rq') /\ Contents(rq') = Contents(rq)
    BY <1>1, <2>1, AddNullProp, Zenon
  <2>3. Inv'
    BY <1>1, <1>e, <2>1, <2>2, Zenon DEF Inv, TypeOK
  <2>4. <<>> \o Contents(rq) = Contents(rq)
    BY <1>1
  <2>5. Abstract!Take
    BY <2>1, <2>2, <2>4, Zenon DEF Abstract!Take
  <2> QED BY <2>3, <2>5, Zenon DEF Abstract!Next
<1> QED
  BY <1>2, <1>3, <1>4, <1>5, <1>6, <1>7, <1>8, <1>9, <1>10, <1>11, <1>12,
     <1>13, <1>14, <1>15, Zenon DEF Next, Loop

(* The invariant is inductive. *)
LEMMA InvStep == Inv /\ [Next]_vars => Inv'
<1>1. ASSUME Inv, UNCHANGED vars PROVE Inv'
  <2>1. rq' = rq /\ open' = open /\ todo' = todo /\ str' = str /\ ret' = ret
    BY <1>1, Zenon DEF vars
  <2> QED BY <1>1, <2>1, Zenon DEF Inv, TypeOK
<1> QED BY <1>1, StepProp, Zenon

(* Whatever the order of the calls, the pointers of the queue stay inside  *)
(* its buffer, and its data is bytes that were put in (ringq.c).           *)
THEOREM NeverDamaged == Spec => []TypeOK
<1>3. Inv => TypeOK
  BY Zenon DEF Inv
<1> QED BY InitInv, InvStep, <1>3, PTL DEF Spec

(* The ring queue implements the queue of bytes, for every sequence of     *)
(* calls of ringqPutBlk, ringqGetBlk and the other functions.              *)
THEOREM ImplementsByteQueue == Spec => IsByteQueue
<1>3. Inv /\ [Next]_vars => [Abstract!Next]_<<Contents(rq), todo, ret>>
  <2>1. UNCHANGED vars => UNCHANGED <<Contents(rq), todo, ret>>
    BY Zenon DEF vars
  <2> QED BY <2>1, StepProp, Zenon
<1>4. Init => Abstract!Init
  BY InitInv, Zenon
<1> QED BY InitInv, InvStep, <1>3, <1>4, PTL DEF Spec, IsByteQueue, Abstract!Spec

(* Every iteration of the loop of ringqPutBlk puts something in or is the  *)
(* last one: a grown queue has room, and a queue with room takes a byte.   *)
THEOREM PutsAlwaysProgress == Spec => PutsProgress
<1>3. Inv /\ [Next]_vars => [todo # <<>> => Len(todo') < Len(todo)]_vars
  <2> SUFFICES ASSUME Inv, Next, todo # <<>>
               PROVE  Len(todo') < Len(todo)
    BY Zenon
  <2>1. todo \in Seq(Byte) /\ IsRingq(rq) /\ (~open => todo = <<>>)
    BY Zenon DEF Inv, TypeOK
  <2>2. Len(todo) \in Nat /\ Len(todo) > 0 /\ Len(<<>>) = 0
    BY <2>1
  <2>3. PutBlkStep \/ PutBlkBreak
    BY <2>1, Zenon DEF Next, Loop, OpenAgain, ringqClose, Flush, AddNull, Putc,
       Insertc, Getc, GetBlk, GetBlkAdj, PutBlkAdj, Call, PutStrEnd, Idle
  <2>4. CASE PutBlkBreak
    <3>1. todo' = <<>>
      BY <2>4, Zenon DEF PutBlkBreak
    <3> QED BY <3>1, <2>2
  <2>5. CASE PutBlkStep
    <3>1. PICK r \in Roomy :
            todo' = SubSeq(todo, Lesser(ringqPutBlkMax(r), Len(todo)) + 1,
                           Len(todo))
      BY <2>5, Zenon DEF PutBlkStep
    <3>2. 1 <= ringqPutBlkMax(r) /\ ringqPutBlkMax(r) \in Nat
      BY <2>1, RoomyProp, Room, Zenon
    <3> QED BY <3>1, <3>2, <2>1, <2>2 DEF Lesser
  <2> QED BY <2>3, <2>4, <2>5
<1> QED BY InitInv, InvStep, <1>3, PTL DEF Spec, PutsProgress
=============================================================================
