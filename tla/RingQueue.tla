----------------------------- MODULE RingQueue -----------------------------
(***************************************************************************)
(* The ring queue of the web server (src/webs/src/src/ringq.c) as          *)
(* operators on a record.  buf is the memory of the queue, cells           *)
(* 0..buflen-1; servp and endp are offsets into it.  A cell holds a byte,  *)
(* NUL, or JUNK, what balloc happened to return.                           *)
(***************************************************************************)
EXTENDS Integers, Sequences

CONSTANTS
  Byte,      \* the values of the bytes callers store
  NUL,       \* the terminator '\0' written behind the data
  JUNK,      \* the content of memory nobody has written yet
  B_SHIFT,   \* the smallest block has 2^B_SHIFT bytes
  MaxLen     \* balloc has no block of more than MaxLen bytes

Cell == Byte \cup {NUL, JUNK}
Lesser(a, b) == IF a <= b THEN a ELSE b

(* getBinBlockSize: the loop counts the bits of size >> B_SHIFT in q. *)
getBinBlockSize(size) ==
  LET rest == size \div 2^B_SHIFT
      q == CHOOSE n \in 0..size : rest < 2^n /\ (n = 0 \/ 2^(n - 1) <= rest)
  IN 2^(B_SHIFT + q)

ASSUME RingAssumption ==
  /\ NUL \notin Byte /\ JUNK \notin Byte
  /\ B_SHIFT \in Nat /\ MaxLen \in Nat

(* A block is never empty.  (A fact about powers of two that the provers   *)
(* do not know; TLC evaluates it for the sizes of an instance.)            *)
ASSUME BlockAssumption ==
  \A size \in 0..(2 * MaxLen) : getBinBlockSize(size) \in Nat \ {0}

(* Every ring queue that is not damaged.  One cell always stays free.      *)
IsRingq(r) ==
  /\ r \in [buf : {r.buf}, buflen : Nat \ {0}, servp : Nat, endp : Nat,
            increment : Nat \ {0}, maxsize : Int]
  /\ r.buf \in [0..(r.buflen - 1) -> Cell]
  /\ r.servp < r.buflen /\ r.endp < r.buflen

-----------------------------------------------------------------------------
(* ringqOpen, ringqFlush (also the end of ringqClose), ringqAddNull.       *)

ringqOpen(initSize, max) ==
  LET size == getBinBlockSize(initSize)
  IN [buf |-> [i \in 0..(size - 1) |-> IF i = 0 THEN NUL ELSE JUNK],
      buflen |-> size, servp |-> 0, endp |-> 0,
      increment |-> size, maxsize |-> max]

ringqFlush(r) == [r EXCEPT !.servp = 0, !.endp = 0, !.buf[0] = NUL]

ringqAddNull(r) == [r EXCEPT !.buf[r.endp] = NUL]

(* ringqLen and RINGQ_LEN. *)
ringqLen(r) ==
  IF r.servp > r.endp THEN r.buflen + (r.endp - r.servp)
  ELSE r.endp - r.servp

(* Mutant: the last free cell is used, so that a full queue looks empty. *)
ringqPutBlkMax_full(r) == Lesser(r.buflen - r.endp, r.buflen - ringqLen(r))

ringqPutBlkMax(r) == Lesser(r.buflen - r.endp, r.buflen - ringqLen(r) - 1)

ringqGetBlkMax(r) == Lesser(r.buflen - r.servp, ringqLen(r))

(* A pointer that has reached endbuf goes back to buf. *)
Wrap(r, p) == IF p >= r.buflen THEN 0 ELSE p

(* The data of the queue, first byte first. *)
At(r, i) == IF r.servp + i <= r.buflen THEN r.buf[r.servp + i - 1]
            ELSE r.buf[r.servp + i - 1 - r.buflen]
Contents(r) == [i \in 1..ringqLen(r) |-> At(r, i)]

-----------------------------------------------------------------------------
(* Taking data out.                                                        *)

(* Mutant: servp is left at endbuf. *)
Skip_nowrap(r, n) == [r EXCEPT !.servp = @ + n]

(* One straight-line copy out of the queue: n <= ringqGetBlkMax(r). *)
Skip(r, n) == [r EXCEPT !.servp = Wrap(r, @ + n)]

(* The lengths of the copies of ringqGetBlk.  The second one starts at buf *)
(* and takes what is left; a third finds nothing to copy.                  *)
FirstCopy(r, size) == Lesser(ringqGetBlkMax(r), size)
SecondCopy(r, size) ==
  Lesser(ringqGetBlkMax(Skip(r, FirstCopy(r, size))), size - FirstCopy(r, size))

ringqGetBlk(r, size) ==
  Skip(Skip(r, FirstCopy(r, size)), SecondCopy(r, size))

(* What ringqGetBlk has stored in the caller's buffer. *)
Copied(r, size) ==
  LET a == FirstCopy(r, size)
      b == SecondCopy(r, size)
      q == Skip(r, a).servp
  IN [i \in 1..(a + b) |-> IF i <= a THEN r.buf[r.servp + i - 1]
                           ELSE r.buf[q + i - a - 1]]

ringqGetc(r) == [r EXCEPT !.servp = Wrap(r, @ + 1)]

(* Mutant: off by one, servp is left at endbuf. *)
ringqGetBlkAdj_late(r, n) ==
  LET p == IF r.servp + n > r.buflen THEN r.servp + n - r.buflen
           ELSE r.servp + n
  IN [r EXCEPT !.servp = p]

(* The caller has copied n bytes itself.  A size that leaves the pointer   *)
(* behind the end empties the queue.                                       *)
ringqGetBlkAdj(r, n) ==
  LET p == IF r.servp + n >= r.buflen THEN r.servp + n - r.buflen
           ELSE r.servp + n
  IN IF p >= r.buflen THEN ringqFlush(r) ELSE [r EXCEPT !.servp = p]

-----------------------------------------------------------------------------
(* Putting data in.                                                        *)

(* One straight-line copy of the first n bytes of s to endp. *)
CopyIn(r, s, n) ==
  [r EXCEPT !.buf = [i \in 0..(r.buflen - 1) |->
                       IF i >= r.endp /\ i < r.endp + n THEN s[i - r.endp + 1]
                       ELSE r.buf[i]],
            !.endp = Wrap(r, @ + n)]

(* Putting c when there is room. *)
Put1(r, c) == [r EXCEPT !.buf[r.endp] = c, !.endp = Wrap(r, @ + 1)]

(* Inserting c at the front when there is room. *)
Insert1(r, c) ==
  LET p == (IF r.servp <= 0 THEN r.buflen ELSE r.servp) - 1
  IN [r EXCEPT !.buf[p] = c, !.servp = p]

(* The caller copies the n bytes s to endp, then calls ringqPutBlkAdj. *)
Filled(r, s, n) ==
  [r EXCEPT !.buf = [i \in 0..(r.buflen - 1) |->
                       IF i >= r.endp /\ i < r.endp + n THEN s[i - r.endp + 1]
                       ELSE r.buf[i]]]
ringqPutBlkAdj(r, n) ==
  LET p == IF r.endp + n >= r.buflen THEN r.endp + n - r.buflen
           ELSE r.endp + n
  IN IF p >= r.buflen THEN ringqFlush(r) ELSE [r EXCEPT !.endp = p]

(* ringqGrow refuses when buflen has reached maxsize, and when balloc      *)
(* fails, which it may always do and does for more than MaxLen bytes.      *)
CanGrow(r) == /\ r.maxsize < 0 \/ r.buflen < r.maxsize
              /\ r.buflen + r.increment <= MaxLen

(* Mutant: the fields of the queue are not updated for the larger block,   *)
(* so that a grown queue is as full as before.                             *)
ringqGrow_same(r) ==
  [r EXCEPT !.buf = [i \in 0..(r.buflen - 1) |->
                       IF i < ringqLen(r) THEN At(r, i + 1) ELSE JUNK],
            !.servp = 0, !.endp = ringqLen(r)]

(* ringqGrow: the data is moved to the start of a larger block by          *)
(* ringqGetBlk, and counted in again by ringqPutBlk.                       *)
ringqGrow(r) ==
  LET data == Copied(r, ringqLen(r))
      size == r.buflen + r.increment
  IN [buf |-> [i \in 0..(size - 1) |->
                 IF i < Len(data) THEN data[i + 1] ELSE JUNK],
      buflen |-> size, servp |-> 0, endp |-> ringqLen(r),
      increment |-> getBinBlockSize(2 * r.increment), maxsize |-> r.maxsize]
=============================================================================
