---------------------------- MODULE AddressClaim ----------------------------
(* What address claiming promises the units of a network segment: a unit   *)
(* takes an address only while no other unit has it.                       *)
EXTENDS FiniteSets

CONSTANTS Host, Addr

VARIABLE own   \* own[h]: the addresses unit h uses

AInit == own = [h \in Host |-> {}]

Acquire(h, a) ==
  /\ \A k \in Host : a \notin own[k]
  /\ own' = [own EXCEPT ![h] = @ \cup {a}]

Release(h, S) == own' = [own EXCEPT ![h] = @ \ S]

ANext ==
  \E h \in Host : \/ \E a \in Addr : Acquire(h, a)
                  \/ \E S \in SUBSET own[h] : Release(h, S)

ASpec == AInit /\ [][ANext]_own
=============================================================================
