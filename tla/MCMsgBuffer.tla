---------------------------- MODULE MCMsgBuffer ----------------------------
(* Instances of MsgBuffer for TLC: the constants are model values. *)
EXTENDS MsgBuffer
=============================================================================
