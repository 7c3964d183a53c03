----------------------------- MODULE ByteQueue -----------------------------
(***************************************************************************)
(* What a ring queue promises: a sequence of bytes.  A block that is being *)
(* put in goes to the end of the sequence piece by piece, in order and     *)
(* without gaps; bytes leave at the front, and the caller gets exactly     *)
(* those; a single byte may be put back in front.                          *)
(***************************************************************************)
EXTENDS Naturals, Sequences

CONSTANT Byte

VARIABLES
  q,     \* the bytes in the queue
  todo,  \* the bytes of the block being put in that are not in q yet
  ret    \* the bytes the last call has returned

Init == q = <<>> /\ todo = <<>> /\ ret = <<>>

Call == todo = <<>> /\ todo' \in Seq(Byte) /\ q' = q /\ ret' = <<>>

Transfer == /\ q' \o todo' = q \o todo /\ Len(todo') < Len(todo)
            /\ ret' = <<>>

GiveUp == todo' = <<>> /\ q' = q /\ ret' = <<>>

Put == /\ todo = <<>> /\ todo' = todo /\ ret' = <<>>
       /\ q' \in Seq(Byte) /\ Len(q') > Len(q) /\ SubSeq(q', 1, Len(q)) = q

PutBack == /\ todo = <<>> /\ todo' = todo /\ ret' = <<>>
           /\ \E c \in Byte : q' = <<c>> \o q

Take == todo = <<>> /\ todo' = todo /\ ret' \o q' = q

Drop == todo = <<>> /\ todo' = todo /\ q' = <<>> /\ ret' = <<>>

Next == Call \/ Transfer \/ GiveUp \/ Put \/ PutBack \/ Take \/ Drop

Spec == Init /\ [][Next]_<<q, todo, ret>>
=============================================================================
