------------------------------ MODULE MsgQueue ------------------------------
(* What a message buffer promises: messages are received in the order in   *)
(* which they were sent; clearing discards the oldest ones and never the   *)
(* newest; disposing discards them all.                                    *)
EXTENDS Sequences

CONSTANT Elem

VARIABLE queue

QInit == queue = <<>>

Send(e) == queue' = Append(queue, e)
RemoveOldest == queue # <<>> /\ queue' = Tail(queue)

QNext == RemoveOldest \/ \E e \in Elem : Send(e)

QSpec == QInit /\ [][QNext]_queue
=============================================================================
