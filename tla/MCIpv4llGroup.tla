--------------------------- MODULE MCIpv4llGroup ---------------------------
(* Instances of Ipv4llGroup for TLC. *)
EXTENDS Ipv4llGroup, TLC

Pool1 == <<{1, 2, 3}>>
Draw1 == <<{1, 2}>>

Pool2 == <<{1, 2}, {3}>>
Draw2 == <<{1, 2}, {3}>>

PoolU == <<{1, 2}>>

Units == Permutations(Host)
=============================================================================
