-------------------------- MODULE RingQueueCalls --------------------------
(***************************************************************************)
(* One ring queue and its owner, who calls the functions of ringq.c in any *)
(* order.  A call is one step, except for the loop of ringqPutBlk, of      *)
(* which every iteration is a step: the queue may have to grow in the      *)
(* middle of a block.                                                      *)
(***************************************************************************)
EXTENDS RingQueue

CONSTANTS
  InitSizes,   \* the values of initSize given to ringqOpen
  MaxSizes,    \* the values of maxsize given to ringqOpen
  MaxBlock     \* the longest block put in at once

ASSUME CallsAssumption ==
  InitSizes \subseteq 0..(2 * MaxLen) /\ MaxSizes \subseteq Int /\ MaxBlock \in Nat

VARIABLES
  rq,    \* the queue
  open,  \* between ringqOpen and ringqClose
  todo,  \* what the ringqPutBlk in progress has yet to copy
  str,   \* it was called by ringqPutStr
  ret    \* the bytes the last call has given to its caller

vars == <<rq, open, todo, str, ret>>

Block == UNION {[1..n -> Byte] : n \in 1..MaxBlock}

(* The queue is never damaged, whatever the order of the calls: its data   *)
(* lies between pointers inside the buffer, and is data that was put in,   *)
(* not what memory held before or a terminator.                            *)
TypeOK ==
  /\ IsRingq(rq) /\ Contents(rq) \in Seq(Byte)
  /\ open \in BOOLEAN /\ str \in BOOLEAN
  /\ todo \in Seq(Byte) /\ ret \in Seq(Byte)

Init ==
  /\ \E size \in InitSizes, max \in MaxSizes : rq = ringqOpen(size, max)
  /\ open = TRUE /\ todo = <<>> /\ str = FALSE /\ ret = <<>>

Idle == open /\ todo = <<>> /\ ~str

(* A call that only changes the queue. *)
Only(r) == rq' = r /\ ret' = <<>> /\ UNCHANGED <<open, todo, str>>

(* The queue with room for another byte: as it is, or grown. *)
Roomy == IF ringqPutBlkMax(rq) >= 1 THEN {rq}
         ELSE IF CanGrow(rq) THEN {ringqGrow(rq)} ELSE {}

OpenAgain ==
  /\ ~open /\ open' = TRUE /\ ret' = <<>>
  /\ \E size \in InitSizes, max \in MaxSizes : rq' = ringqOpen(size, max)
  /\ UNCHANGED <<todo, str>>

ringqClose ==
  /\ Idle /\ open' = FALSE /\ rq' = ringqFlush(rq) /\ ret' = <<>>
  /\ UNCHANGED <<todo, str>>

Flush == Idle /\ Only(ringqFlush(rq))

AddNull == Idle /\ Only(ringqAddNull(rq))

(* Without room ringqPutc and ringqInsertc return -1. *)
Putc == Idle /\ \E r \in Roomy, c \in Byte : Only(Put1(r, c))

Insertc == Idle /\ \E r \in Roomy, c \in Byte : Only(Insert1(r, c))

Getc ==
  /\ Idle /\ rq.servp # rq.endp
  /\ rq' = ringqGetc(rq) /\ ret' = <<rq.buf[rq.servp]>>
  /\ UNCHANGED <<open, todo, str>>

GetBlk ==
  /\ Idle
  /\ \E n \in 0..(rq.buflen - 1) : rq' = ringqGetBlk(rq, n) /\ ret' = Copied(rq, n)
  /\ UNCHANGED <<open, todo, str>>

(* An owner that copies data itself, as sock.c does: in a straight line    *)
(* from servp or to endp, at most what ringqGetBlkMax or ringqPutBlkMax    *)
(* allows.                                                                 *)
GetBlkAdj ==
  /\ Idle
  /\ \E n \in 1..ringqGetBlkMax(rq) :
       /\ rq' = ringqGetBlkAdj(rq, n)
       /\ ret' = [i \in 1..n |-> rq.buf[rq.servp + i - 1]]
  /\ UNCHANGED <<open, todo, str>>

PutBlkAdj ==
  Idle /\ \E s \in Block :
            /\ Len(s) <= ringqPutBlkMax(rq)
            /\ Only(ringqPutBlkAdj(Filled(rq, s, Len(s)), Len(s)))

(* ringqPutBlk or ringqPutStr is called. *)
Call == /\ Idle /\ todo' \in Block /\ str' \in BOOLEAN /\ ret' = <<>>
        /\ UNCHANGED <<rq, open>>

(* An iteration of the loop of ringqPutBlk. *)
PutBlkStep ==
  /\ todo # <<>>
  /\ \E r \in Roomy :
       LET n == Lesser(ringqPutBlkMax(r), Len(todo))
       IN rq' = CopyIn(r, todo, n) /\ todo' = SubSeq(todo, n + 1, Len(todo))
  /\ ret' = <<>> /\ UNCHANGED <<open, str>>

(* The break of the loop: the rest of the block is not put in. *)
PutBlkBreak ==
  /\ todo # <<>> /\ ringqPutBlkMax(rq) < 1
  /\ todo' = <<>> /\ ret' = <<>> /\ UNCHANGED <<rq, open, str>>

(* The rest of ringqPutStr. *)
PutStrEnd ==
  /\ todo = <<>> /\ str /\ str' = FALSE
  /\ rq' = ringqAddNull(rq) /\ ret' = <<>> /\ UNCHANGED <<open, todo>>

Loop == PutBlkStep \/ PutBlkBreak \/ PutStrEnd

Next == \/ OpenAgain \/ ringqClose \/ Flush \/ AddNull \/ Putc \/ Insertc
        \/ Getc \/ GetBlk \/ GetBlkAdj \/ PutBlkAdj \/ Call \/ Loop

Spec == Init /\ [][Next]_vars

-----------------------------------------------------------------------------
(* Properties.                                                             *)

Abstract == INSTANCE ByteQueue WITH q <- Contents(rq)

(* The ring is a queue of bytes: whatever the order of calls, wrapping,    *)
(* growing in the middle of a block and the terminator written behind the  *)
(* data (ringqGrow, ringqPutBlk, ringqPutStr) lose, repeat or reorder      *)
(* nothing, and a reader gets what leaves the queue.                       *)
IsByteQueue == Abstract!Spec

(* The loop of ringqPutBlk ends: an iteration puts at least one byte in,   *)
(* even when the queue is full and ringqGrow has to make the room, or it   *)
(* is the last one.                                                        *)
PutsProgress == [][todo # <<>> => Len(todo') < Len(todo)]_vars
=============================================================================
