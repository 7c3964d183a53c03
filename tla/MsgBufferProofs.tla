-------------------------- MODULE MsgBufferProofs --------------------------
(* The message buffer is a proper list in every state of every instance,   *)
(* a first-in first-out queue, and it wakes a reader that waits alone.     *)
EXTENDS MsgBuffer, Sequences, WellFoundedInduction, TLAPS

(* The list with one more element at its end. *)
Longer(q, e) == [i \in 1..(num + 1) |-> IF i <= num THEN q[i] ELSE e]

(* The list without its first element. *)
Shorter(q) == [i \in 1..(num - 1) |-> q[i + 1]]

(* A step that appends element e to the list. *)
AppendStep(e) ==
  /\ owner' = [owner EXCEPT ![e] = "buffer"]
  /\ last' = e /\ num' = num + 1
  /\ first' = IF num = 0 THEN e ELSE first
  /\ next' = IF num = 0 THEN [next EXCEPT ![e] = NULL]
                        ELSE [next EXCEPT ![e] = NULL, ![last] = e]

(* A step that takes the first of the elements off the list. *)
RemoveStep ==
  /\ num > 0
  /\ \E o \in {"free"} \cup Thread : owner' = [owner EXCEPT ![first] = o]
  /\ num' = num - 1
  /\ first' = IF num = 1 THEN NULL ELSE next[first]
  /\ last' = IF num = 1 THEN NULL ELSE last
  /\ next' = next

(* An element put at the end makes a longer list (put_msg_to_buffer). *)
LEMMA AppendKeeps ==
  ASSUME TypeOK, NEW q \in [1..num -> Elem], IsList(q),
         NEW e \in Elem, owner[e] # "buffer", AppendStep(e)
  PROVE  \E r \in [1..num' -> Elem] : r = Longer(q, e) /\ IsList(r)'
<1>1. q \in [1..num -> Elem] /\ IsList(q)
  OBVIOUS
<1>2. /\ num \in Nat /\ num' = num + 1 /\ next \in [Elem -> Elem \cup {NULL}]
      /\ owner \in [Elem -> {"free", "buffer"} \cup Thread] /\ NULL \notin Elem
  BY ThreadAssumption DEF TypeOK, AppendStep
<1>3. PICK r \in [1..num' -> Elem] : r = Longer(q, e)
  <2>1. Longer(q, e) \in [1..(num + 1) -> Elem]
    BY <1>1, <1>2 DEF Longer
  <2>2. QED
    BY <2>1, <1>2
<1>4. /\ \A i \in 1..num : r[i] = q[i] /\ q[i] \in Elem /\ q[i] # e
      /\ r[num + 1] = e
  <2>1. \A i \in 1..num : owner[q[i]] = "buffer" /\ q[i] \in Elem
    BY <1>1, <1>2 DEF IsList, Range
  <2>2. QED
    BY <2>1, <1>2, <1>3 DEF Longer
<1>5. first' = r[1]
  BY <1>1, <1>2, <1>4 DEF AppendStep, IsList
<1>6. last' = r[num']
  BY <1>2, <1>4 DEF AppendStep
<1>7. \A i \in 1..num' : next'[r[i]] = IF i = num' THEN NULL ELSE r[i + 1]
  <2> TAKE i \in 1..num'
  <2>1. CASE i = num + 1
    <3>1. next'[e] = NULL
      <4>1. num # 0 => last \in Elem /\ last # e
        BY <1>1, <1>2, <1>4 DEF IsList
      <4>2. QED
        BY <4>1, <1>2 DEF AppendStep
    <3>2. QED
      BY <2>1, <3>1, <1>2, <1>4
  <2>2. CASE i < num
    <3>1. i \in 1..num /\ i + 1 \in 1..num /\ num \in 1..num /\ num # 0 /\ i # num
      BY <2>2, <1>2
    <3>2. q[i] # last
      BY <3>1, <1>1, <1>2 DEF IsList, IsInjective
    <3>3. next'[q[i]] = next[q[i]]
      BY <3>1, <3>2, <1>2, <1>4 DEF AppendStep
    <3>4. next[q[i]] = q[i + 1]
      BY <3>1, <1>1 DEF IsList
    <3>5. QED
      BY <3>1, <3>3, <3>4, <1>2, <1>4
  <2>3. CASE i = num
    <3>1. num \in 1..num /\ num # 0
      BY <2>3, <1>2
    <3>2. last = q[num] /\ q[num] \in Elem /\ q[num] # e
      BY <3>1, <1>1, <1>4 DEF IsList
    <3>3. next'[q[num]] = e
      BY <3>1, <3>2, <1>2 DEF AppendStep
    <3>4. QED
      BY <2>3, <3>1, <3>3, <1>2, <1>4
  <2>4. QED
    BY <2>1, <2>2, <2>3, <1>2
<1>8. IsInjective(r)
  <2>1. DOMAIN r = 1..(num + 1) /\ DOMAIN q = 1..num
    BY <1>1, <1>2, <1>3
  <2>2. SUFFICES ASSUME NEW a \in 1..(num + 1), NEW b \in 1..(num + 1), r[a] = r[b]
                 PROVE  a = b
    BY <2>1 DEF IsInjective
  <2>3. \A x, y \in 1..num : q[x] = q[y] => x = y
    BY <1>1, <2>1 DEF IsList, IsInjective
  <2>4. \A x \in 1..(num + 1) : x \in 1..num \/ x = num + 1
    BY <1>2
  <2>5. QED
    BY <2>2, <2>3, <2>4, <1>4
<1>9. Range(r) = {x \in Elem : owner'[x] = "buffer"}
  <2>1. DOMAIN r = 1..(num + 1) /\ DOMAIN q = 1..num
    BY <1>1, <1>2, <1>3
  <2>2. Range(r) = Range(q) \cup {e}
    <3>1. \A x \in 1..(num + 1) : x \in 1..num \/ x = num + 1
      BY <1>2
    <3>2. 1..num \subseteq 1..(num + 1) /\ num + 1 \in 1..(num + 1)
      BY <1>2
    <3>3. QED
      BY <2>1, <3>1, <3>2, <1>4 DEF Range
  <2>3. QED
    BY <2>2, <1>1, <1>2 DEF IsList, AppendStep
<1>10. IsList(r)'
  BY <1>2, <1>5, <1>6, <1>7, <1>8, <1>9 DEF IsList
<1>11. QED
  BY <1>3, <1>10

(* Taking the first element away makes a shorter list (get_msg_from_buffer *)
(* and its timed form, the loop of clear_msg_buffer, dispose_msg_buffer).  *)
LEMMA RemoveKeeps ==
  ASSUME TypeOK, NEW q \in [1..num -> Elem], IsList(q), RemoveStep
  PROVE  \E r \in [1..num' -> Elem] : r = Shorter(q) /\ IsList(r)'
<1>1. q \in [1..num -> Elem] /\ IsList(q)
  OBVIOUS
<1>2. /\ num \in Nat /\ num > 0 /\ num' = num - 1 /\ num' \in Nat
      /\ owner \in [Elem -> {"free", "buffer"} \cup Thread] /\ next' = next
  BY DEF TypeOK, RemoveStep
<1>3. PICK r \in [1..num' -> Elem] : r = Shorter(q)
  <2>1. Shorter(q) \in [1..(num - 1) -> Elem]
    BY <1>1, <1>2 DEF Shorter
  <2>2. QED
    BY <2>1, <1>2
<1>4. \A i \in 1..num' : i + 1 \in 1..num /\ r[i] = q[i + 1]
  BY <1>2, <1>3 DEF Shorter
<1>5. first = q[1] /\ 1 \in 1..num /\ first \in Elem
  BY <1>1, <1>2 DEF IsList
<1>6. first' = IF num' = 0 THEN NULL ELSE r[1]
  <2>1. num = 1 => first' = NULL
    BY DEF RemoveStep
  <2>2. num # 1 => first' = q[2] /\ 1 \in 1..num'
    BY <1>1, <1>2, <1>5 DEF RemoveStep, IsList
  <2>3. QED
    BY <2>1, <2>2, <1>2, <1>4
<1>7. last' = IF num' = 0 THEN NULL ELSE r[num']
  <2>1. num # 1 => last' = q[num] /\ num' \in 1..num'
    BY <1>1, <1>2 DEF RemoveStep, IsList
  <2>2. num = 1 => last' = NULL
    BY DEF RemoveStep
  <2>3. QED
    BY <2>1, <2>2, <1>2, <1>4
<1>8. \A i \in 1..num' : next'[r[i]] = IF i = num' THEN NULL ELSE r[i + 1]
  <2> TAKE i \in 1..num'
  <2>1. next[q[i + 1]] = IF i + 1 = num THEN NULL ELSE q[(i + 1) + 1]
    BY <1>1, <1>4 DEF IsList
  <2>2. i # num' => i + 1 \in 1..num'
    BY <1>2
  <2>3. QED
    BY <2>1, <2>2, <1>2, <1>4
<1>9. \A x, y \in 1..num : q[x] = q[y] => x = y
  BY <1>1 DEF IsList, IsInjective
<1>10. IsInjective(r)
  <2>1. DOMAIN r = 1..num'
    BY <1>2, <1>3 DEF Shorter
  <2>2. QED
    BY <2>1, <1>2, <1>4, <1>9 DEF IsInjective
<1>11. Range(r) = {x \in Elem : owner'[x] = "buffer"}
  <2>1. DOMAIN r = 1..num' /\ DOMAIN q = 1..num
    BY <1>1, <1>2, <1>3
  <2>2. Range(r) = Range(q) \ {first}
    <3>1. ASSUME NEW x \in Range(r) PROVE x \in Range(q) /\ x # first
      <4>1. PICK i \in 1..num' : x = r[i]
        BY <2>1 DEF Range
      <4>2. i + 1 \in 1..num /\ x = q[i + 1] /\ i + 1 # 1
        BY <4>1, <1>2, <1>4
      <4>3. QED
        BY <4>2, <2>1, <1>5, <1>9 DEF Range
    <3>2. ASSUME NEW x \in Range(q), x # first PROVE x \in Range(r)
      <4>1. PICK j \in 1..num : x = q[j]
        BY <2>1 DEF Range
      <4>2. j # 1
        BY <4>1, <3>2, <1>5
      <4>3. j - 1 \in 1..num' /\ (j - 1) + 1 = j
        BY <4>2, <1>2
      <4>4. x = r[j - 1]
        BY <4>1, <4>3, <1>4
      <4>5. QED
        BY <4>3, <4>4, <2>1 DEF Range
    <3>3. QED
      BY <3>1, <3>2
  <2>3. {x \in Elem : owner'[x] = "buffer"} = {x \in Elem : owner[x] = "buffer"} \ {first}
    <3>1. PICK o \in {"free"} \cup Thread : owner' = [owner EXCEPT ![first] = o]
      BY DEF RemoveStep
    <3>2. o # "buffer"
      BY ThreadAssumption
    <3>3. QED
      BY <3>1, <3>2, <1>2, <1>5
  <2>4. QED
    BY <2>2, <2>3, <1>1 DEF IsList
<1>12. IsList(r)'
  BY <1>6, <1>7, <1>8, <1>10, <1>11 DEF IsList
<1>13. QED
  BY <1>3, <1>12

(* Neither the list nor who owns its elements changes. *)
ListSame ==
  /\ UNCHANGED <<first, last, num, next>>
  /\ \A e \in Elem : owner'[e] = "buffer" <=> owner[e] = "buffer"

LEMMA SameKeeps ==
  ASSUME NEW q \in [1..num -> Elem], IsList(q), ListSame
  PROVE  q \in [1..num' -> Elem] /\ IsList(q)'
BY DEF IsList, ListSame

(* What a step may do to the list. *)
ListStep ==
  \/ ListSame
  \/ RemoveStep
  \/ \E e \in Elem : owner[e] # "buffer" /\ AppendStep(e)

LEMMA ListKeeps ==
  ASSUME TypeOK, ListIntact, ListStep
  PROVE  ListIntact'
<1>1. PICK q \in [1..num -> Elem] : IsList(q)
  BY DEF ListIntact
<1>2. CASE ListSame
  BY <1>1, <1>2, SameKeeps DEF ListIntact
<1>3. CASE RemoveStep
  BY <1>1, <1>3, RemoveKeeps DEF ListIntact
<1>4. ASSUME NEW e \in Elem, owner[e] # "buffer", AppendStep(e)
      PROVE  ListIntact'
  BY <1>1, <1>4, AppendKeeps DEF ListIntact
<1>5. QED
  BY <1>2, <1>3, <1>4 DEF ListStep

(* What the pointers of a list tell. *)
LEMMA ListFacts ==
  ASSUME TypeOK, ListIntact
  PROVE  /\ num = 0 => first = NULL /\ last = NULL
                        /\ \A e \in Elem : owner[e] # "buffer"
         /\ num > 0 => first \in Elem /\ last \in Elem
         /\ num > 0 => (first = last <=> num = 1)
         /\ num > 1 => next[first] \in Elem
<1>1. PICK q \in [1..num -> Elem] : IsList(q)
  BY DEF ListIntact
<1>2. num \in Nat
  BY DEF TypeOK
<1>3. ASSUME num = 0 PROVE \A e \in Elem : owner[e] # "buffer"
  <2>1. Range(q) = {}
    BY <1>1, <1>3 DEF Range
  <2>2. QED
    BY <2>1, <1>1 DEF IsList
<1>4. ASSUME num > 0
      PROVE  /\ first = q[1] /\ last = q[num] /\ 1 \in 1..num /\ num \in 1..num
             /\ q[1] \in Elem /\ q[num] \in Elem
  BY <1>1, <1>2, <1>4 DEF IsList
<1>5. ASSUME num > 0 PROVE first = last <=> num = 1
  BY <1>1, <1>2, <1>4, <1>5 DEF IsList, IsInjective
<1>6. ASSUME num > 1 PROVE next[first] \in Elem
  <2>1. 1 \in 1..num /\ 2 \in 1..num /\ num # 1 /\ num > 0
    BY <1>2, <1>6
  <2>2. QED
    BY <2>1, <1>1, <1>4 DEF IsList
<1>7. QED
  BY <1>1, <1>3, <1>4, <1>5, <1>6 DEF IsList

(* The list of an initialised buffer is empty and intact. *)
LEMMA EmptyIntact ==
  ASSUME num = 0, first = NULL, last = NULL,
         \A e \in Elem : owner[e] # "buffer"
  PROVE  ListIntact
<1>1. 1..num = {}
  OBVIOUS
<1>2. [i \in 1..num |-> NULL] \in [1..num -> Elem]
  BY <1>1
<1>3. PICK q \in [1..num -> Elem] : q = [i \in 1..num |-> NULL]
  BY <1>2
<1>4. DOMAIN q = {} /\ Range(q) = {}
  BY <1>1, <1>3 DEF Range
<1>5. IsInjective(q)
  BY <1>4 DEF IsInjective
<1>6. IsList(q)
  BY <1>1, <1>4, <1>5 DEF IsList
<1>7. QED
  BY <1>6 DEF ListIntact

-----------------------------------------------------------------------------

LEMMA InitInv == Init => BufferInv
<1> SUFFICES ASSUME Init PROVE BufferInv
  OBVIOUS
<1>1. TypeOK
  BY DEF Init, TypeOK, Place
<1>2. LoopsAlone
  BY ThreadAssumption DEF Init, LoopsAlone
<1>3. ListIntact
  <2>1. \A e \in Elem : owner[e] # "buffer"
    BY DEF Init
  <2>2. QED
    BY <2>1, EmptyIntact DEF Init
<1>4. QED
  BY <1>1, <1>2, <1>3 DEF BufferInv

(* Every step restores the invariant: it appends an element, takes one off *)
(* the front, or leaves the list as it is.                                 *)
LEMMA StepProp == BufferInv /\ [Next]_vars => TypeOK' /\ LoopsAlone' /\ ListStep
<1> DEFINE Kept == TypeOK' /\ LoopsAlone' /\ ListStep
<1> SUFFICES ASSUME BufferInv, [Next]_vars PROVE Kept
  OBVIOUS
<1>0. /\ TypeOK /\ LoopsAlone /\ ListIntact /\ NULL \notin Elem /\ NULL \notin Thread
      /\ num \in Nat /\ "free" \notin Thread /\ "buffer" \notin Thread
  BY ThreadAssumption DEF BufferInv, TypeOK
<1>f. /\ num = 0 => /\ first = NULL /\ last = NULL
                    /\ \A e \in Elem : owner[e] # "buffer"
      /\ num > 0 => first \in Elem /\ last \in Elem
      /\ num > 0 => (first = last <=> num = 1)
      /\ num > 1 => next[first] \in Elem
  BY <1>0, ListFacts
<1>1. CASE msg_buffer_init
  <2>1. TypeOK'
    BY <1>0, <1>1 DEF msg_buffer_init, TypeOK
  <2>2. LoopsAlone'
    BY <1>0, <1>1, <1>f DEF msg_buffer_init, LoopsAlone
  <2>3. ListSame
    BY <1>0, <1>1, <1>f DEF msg_buffer_init, LoopsAlone, ListSame
  <2>4. QED
    BY <1>0, <2>1, <2>2, <2>3 DEF ListStep
<1>2. ASSUME NEW t \in Thread, NEW e \in Elem, send_msg_to_buffer(t, e)
      PROVE  Kept
  <2>1. /\ Calls(t) /\ owner[e] \in {"free", t} /\ put_msg_to_buffer(e)
        /\ owner[e] # "buffer" /\ mutex = NULL /\ mutex' = NULL /\ live /\ live'
    BY <1>0, <1>2 DEF send_msg_to_buffer, put_msg_to_buffer, Calls
  <2>2. /\ pc' \in [Thread -> Place]
        /\ \A s \in Thread : pc'[s] \notin {"clear", "dispose"}
    <3>1. \A s \in Thread : pc[s] \notin {"clear", "dispose"}
      BY <1>0, <2>1 DEF LoopsAlone, Calls
    <3>2. pc' = pc \/ \E s \in Thread : Wake(s)
      BY <2>1 DEF put_msg_to_buffer, Signal
    <3>3. QED
      BY <1>0, <3>1, <3>2 DEF TypeOK, Wake, Place
  <2>3. AppendStep(e)
    BY <1>0, <1>f, <2>1 DEF put_msg_to_buffer, AppendStep
  <2>4. TypeOK'
    BY <1>0, <1>f, <2>1, <2>2, <2>3 DEF TypeOK, AppendStep
  <2>5. LoopsAlone'
    BY <1>0, <2>1, <2>2 DEF LoopsAlone
  <2>6. QED
    BY <2>1, <2>3, <2>4, <2>5 DEF ListStep
<1>3. ASSUME NEW t \in Thread, NEW e \in Elem, free_tmsg_element(t, e)
      PROVE  Kept
  <2>1. TypeOK'
    BY <1>0, <1>3 DEF free_tmsg_element, TypeOK
  <2>2. LoopsAlone'
    BY <1>0, <1>3 DEF free_tmsg_element, LoopsAlone
  <2>3. ListSame
    BY <1>0, <1>3 DEF free_tmsg_element, ListSame, TypeOK
  <2>4. QED
    BY <1>0, <2>1, <2>2, <2>3 DEF ListStep
(* A reader takes an element, or leaves the list alone; in both cases only *)
(* its own place changes, and no loop holds the mutex.                     *)
<1>4. ASSUME NEW t \in Thread, NEW p \in {"idle", "get_wait", "timed_wait"},
             pc' = [pc EXCEPT ![t] = p], mutex = NULL,
             \A s \in Thread : pc[s] # "dispose",
             \/ num > 0 /\ Take(t)
             \/ UNCHANGED <<first, last, num, owner>>,
             UNCHANGED <<live, next, mutex>>
      PROVE  Kept
  <2>1. CASE UNCHANGED <<first, last, num, owner>>
    <3>1. TypeOK'
      BY <1>0, <1>4, <2>1 DEF TypeOK, Place
    <3>2. LoopsAlone'
      BY <1>0, <1>4, <2>1 DEF TypeOK, LoopsAlone
    <3>3. ListSame
      BY <1>4, <2>1 DEF ListSame
    <3>4. QED
      BY <1>0, <3>1, <3>2, <3>3 DEF ListStep
  <2>2. CASE num > 0 /\ Take(t)
    <3>1. RemoveStep
      <4>1. \E o \in {"free"} \cup Thread : owner' = [owner EXCEPT ![first] = o]
        BY <2>2 DEF Take
      <4>2. num' = num - 1
        BY <2>2 DEF Take
      <4>3. QED
        BY <1>4, <2>2, <4>1, <4>2 DEF Take, RemoveStep
    <3>2. TypeOK'
      BY <1>0, <1>f, <1>4, <2>2, <3>1 DEF TypeOK, Place, RemoveStep
    <3>3. LoopsAlone'
      BY <1>0, <1>4, <2>2 DEF TypeOK, LoopsAlone
    <3>4. QED
      BY <1>0, <3>1, <3>2, <3>3 DEF ListStep
  <2>3. QED
    BY <1>4, <2>1, <2>2
<1>5. ASSUME NEW t \in Thread, Calls(t) \/ pc[t] \in {"get_woken", "timed_woken"}
      PROVE  \A s \in Thread : pc[s] # "dispose"
  BY <1>0, <1>5 DEF Calls, LoopsAlone
<1>6. ASSUME NEW t \in Thread, get_msg_from_buffer(t)
      PROVE  Kept
  <2>1. /\ mutex = NULL /\ UNCHANGED <<live, next, mutex>>
        /\ \A s \in Thread : pc[s] # "dispose"
    BY <1>5, <1>6 DEF get_msg_from_buffer, Calls
  <2>2. \/ /\ pc' = [pc EXCEPT ![t] = "get_wait"]
           /\ UNCHANGED <<first, last, num, owner>>
        \/ num > 0 /\ pc' = [pc EXCEPT ![t] = "idle"] /\ Take(t)
    BY <1>0, <1>6 DEF get_msg_from_buffer
  <2>3. QED
    BY <1>4, <2>1, <2>2
<1>7. ASSUME NEW t \in Thread, get_msg_from_buffer_timeout(t)
      PROVE  Kept
  <2>1. /\ mutex = NULL /\ UNCHANGED <<live, next, mutex>>
        /\ \A s \in Thread : pc[s] # "dispose"
    BY <1>5, <1>7 DEF get_msg_from_buffer_timeout, Calls
  <2>2. \/ /\ \E p \in {"idle", "timed_wait"} : pc' = [pc EXCEPT ![t] = p]
           /\ UNCHANGED <<first, last, num, owner>>
        \/ num > 0 /\ pc' = [pc EXCEPT ![t] = "idle"] /\ Take(t)
    BY <1>7 DEF get_msg_from_buffer_timeout
  <2>3. QED
    BY <1>4, <2>1, <2>2
<1>8. ASSUME NEW t \in Thread, WakesUp(t)
      PROVE  Kept
  <2>1. TypeOK'
    BY <1>0, <1>8 DEF WakesUp, Wake, TypeOK, Place
  <2>2. LoopsAlone'
    BY <1>0, <1>8 DEF WakesUp, Wake, Sleeping, TypeOK, LoopsAlone
  <2>3. ListSame
    BY <1>8 DEF WakesUp, ListSame
  <2>4. QED
    BY <1>0, <2>1, <2>2, <2>3 DEF ListStep
<1>9. ASSUME NEW t \in Thread, clear_msg_buffer(t)
      PROVE  Kept
  <2>1. TypeOK'
    BY <1>0, <1>9 DEF clear_msg_buffer, TypeOK, Place
  <2>2. LoopsAlone'
    BY <1>0, <1>9 DEF clear_msg_buffer, Calls, TypeOK, LoopsAlone
  <2>3. ListSame
    BY <1>9 DEF clear_msg_buffer, ListSame
  <2>4. QED
    BY <1>0, <2>1, <2>2, <2>3 DEF ListStep
<1>10. ASSUME NEW t \in Thread, ClearStep(t)
       PROVE  Kept
  <2>1. mutex = t /\ mutex # NULL /\ num > 0 /\ pc[t] \in {"clear", "dispose"}
    BY <1>0, <1>10 DEF ClearStep, LoopsAlone
  <2>2. CASE first # last /\ FreeFirst
    <3>1. num > 1
      BY <1>0, <1>f, <2>1, <2>2
    <3>2. RemoveStep
      <4>1. \E o \in {"free"} \cup Thread : owner' = [owner EXCEPT ![first] = o]
        BY <2>2 DEF FreeFirst
      <4>2. num > 0 /\ num # 1
        BY <1>0, <3>1
      <4>3. QED
        BY <2>2, <4>1, <4>2 DEF FreeFirst, RemoveStep
    <3>3. TypeOK'
      BY <1>0, <1>f, <2>2, <3>1 DEF FreeFirst, TypeOK
    <3>4. LoopsAlone'
      BY <1>0, <2>1, <2>2, <3>1 DEF FreeFirst, LoopsAlone
    <3>5. QED
      BY <1>0, <3>2, <3>3, <3>4 DEF ListStep
  <2>3. CASE first = last
    <3>1. /\ num' = 1 /\ num = 1 /\ mutex' = NULL
          /\ pc' = [pc EXCEPT ![t] = IF @ = "clear" THEN "idle" ELSE @]
          /\ UNCHANGED <<live, first, last, next, owner>>
      BY <1>0, <1>f, <1>10, <2>1, <2>3 DEF ClearStep
    <3>2. TypeOK'
      BY <1>0, <3>1 DEF TypeOK, Place
    <3>3. LoopsAlone'
      BY <1>0, <2>1, <2>3, <3>1 DEF TypeOK, LoopsAlone
    <3>4. ListSame
      BY <3>1 DEF ListSame
    <3>5. QED
      BY <1>0, <3>2, <3>3, <3>4 DEF ListStep
  <2>4. QED
    BY <1>10, <2>2, <2>3 DEF ClearStep
<1>11. ASSUME NEW t \in Thread, dispose_msg_buffer(t)
       PROVE  Kept
  <2>1. TypeOK'
    BY <1>0, <1>11 DEF dispose_msg_buffer, TypeOK, Place
  <2>2. LoopsAlone'
    BY <1>0, <1>f, <1>11 DEF dispose_msg_buffer, Calls, TypeOK, LoopsAlone
  <2>3. ListSame
    BY <1>11 DEF dispose_msg_buffer, ListSame
  <2>4. QED
    BY <1>0, <2>1, <2>2, <2>3 DEF ListStep
<1>12. ASSUME NEW t \in Thread, DisposeEnd(t)
       PROVE  Kept
  <2>1. pc[t] = "dispose" /\ mutex = NULL /\ mutex' = NULL /\ first = last
    BY <1>0, <1>12 DEF DisposeEnd, LoopsAlone
  <2>2. /\ pc' = [pc EXCEPT ![t] = "idle"]
        /\ \A s \in Thread : pc'[s] = "idle"
        /\ live' = FALSE
    BY <1>0, <1>12, <2>1 DEF DisposeEnd, TypeOK, LoopsAlone
  <2>3. CASE last # NULL
    <3>1. num = 1
      BY <1>0, <1>f, <2>1, <2>3
    <3>2. RemoveStep /\ num' = 0
      BY <1>12, <2>1, <2>3, <3>1 DEF DisposeEnd, RemoveStep
    <3>3. TypeOK'
      <4>1. pc' \in [Thread -> Place]
        BY <1>0, <2>2 DEF TypeOK, Place
      <4>2. owner' \in [Elem -> {"free", "buffer"} \cup Thread]
        BY <1>0, <1>12, <2>3 DEF DisposeEnd, TypeOK
      <4>3. /\ first' = NULL /\ last' = NULL /\ num' = 0 /\ 0 \in Nat
            /\ live' = FALSE /\ next' = next /\ mutex' = mutex
        BY <1>12, <2>3 DEF DisposeEnd
      <4>4. QED
        BY <1>0, <4>1, <4>2, <4>3 DEF TypeOK
    <3>4. LoopsAlone'
      BY <2>1, <2>2, <3>2 DEF LoopsAlone
    <3>5. QED
      BY <1>0, <3>2, <3>3, <3>4 DEF ListStep
  <2>4. CASE last = NULL
    <3>1. num = 0
      BY <1>0, <1>f, <2>4
    <3>2. UNCHANGED <<owner, first, last, num, next, mutex>>
      BY <1>12, <2>4 DEF DisposeEnd
    <3>3. TypeOK'
      BY <1>0, <2>2, <3>2 DEF TypeOK, Place
    <3>4. LoopsAlone'
      BY <2>1, <2>2, <3>1, <3>2 DEF LoopsAlone
    <3>5. QED
      BY <1>0, <3>2, <3>3, <3>4 DEF ListStep, ListSame
  <2>5. QED
    BY <2>3, <2>4
<1>13. CASE UNCHANGED vars
  <2>1. TypeOK' /\ LoopsAlone'
    BY <1>0, <1>13 DEF vars, TypeOK, LoopsAlone
  <2>2. ListSame
    BY <1>13 DEF vars, ListSame
  <2>3. QED
    BY <1>0, <2>1, <2>2 DEF ListStep
<1>14. QED
  BY <1>1, <1>2, <1>3, <1>6, <1>7, <1>8, <1>9, <1>10, <1>11, <1>12, <1>13 DEF Next

LEMMA StepInv == BufferInv /\ [Next]_vars => BufferInv'
BY StepProp, ListKeeps DEF BufferInv

(* In every state, whatever calls are in progress, the buffer is a list of *)
(* num elements from first to last that holds exactly the elements it owns *)
(* (the pointer updates of put, get, clear and dispose under the mutex).   *)
THEOREM BufferCorrect == Spec => []BufferInv
<1>1. QED
  BY InitInv, StepInv, PTL DEF Spec

-----------------------------------------------------------------------------
(* The refinement of the abstract queue.                                   *)

(* A set of natural numbers that is not empty has a least element. *)
LEMMA LeastNatural ==
  ASSUME NEW T \in SUBSET Nat, T # {}
  PROVE  \E m \in T : \A k \in T : m <= k
<1> DEFINE R == OpToRel(<, Nat)
<1>1. IsWellFoundedOn(R, Nat)
  BY NatLessThanWellFounded, Zenon
<1>2. \A a, b \in Nat : a < b => <<a, b>> \in R
  BY DEF OpToRel
<1> HIDE DEF R
<1>3. PICK m \in T : \A y \in T : ~(<<y, m>> \in R)
  BY <1>1, WFMin
<1>4. ASSUME NEW k \in T PROVE m <= k
  <2>1. m \in Nat /\ k \in Nat /\ ~(k < m)
    BY <1>2, <1>3
  <2>2. QED
    BY <2>1
<1>5. QED
  BY <1>3, <1>4

(* Every place of a chain but the last is linked to the one after it. *)
Linked(q, n, link) == \A i \in 1..n : i # n => q[i + 1] = link[q[i]]

(* Two chains of the same length with the same start and the same links    *)
(* are equal: a least place where they differ has a place before it.       *)
LEMMA ChainUnique ==
  ASSUME NEW n \in Nat, NEW link,
         NEW q \in [1..n -> Elem], NEW r \in [1..n -> Elem],
         n # 0 => q[1] = r[1], Linked(q, n, link), Linked(r, n, link)
  PROVE  q = r
<1> DEFINE Differ == {i \in 1..n : q[i] # r[i]}
<1>1. CASE Differ = {}
  BY <1>1
<1>2. CASE Differ # {}
  <2>1. Differ \in SUBSET Nat
    OBVIOUS
  <2>2. PICK m \in Differ : \A k \in Differ : m <= k
    BY <1>2, <2>1, LeastNatural
  <2>3. m \in 1..n /\ q[m] # r[m] /\ m # 1 /\ n # 0
    BY <2>2
  <2>4. m - 1 \in 1..n /\ m - 1 # n /\ (m - 1) + 1 = m /\ ~(m <= m - 1)
    BY <2>3
  <2>5. q[m - 1] = r[m - 1]
    BY <2>2, <2>4
  <2>6. q[m] = link[q[m - 1]] /\ r[m] = link[r[m - 1]]
    BY <2>4 DEF Linked
  <2>7. QED
    BY <2>3, <2>5, <2>6
<1>3. QED
  BY <1>1, <1>2

(* A list is the only one: the pointers determine the messages. *)
LEMMA MessagesAre ==
  ASSUME num \in Nat, NEW q \in [1..num -> Elem], IsList(q)
  PROVE  Messages = q
<1>1. Messages \in [1..num -> Elem] /\ IsList(Messages)
  BY DEF Messages
<1>2. ASSUME NEW r \in [1..num -> Elem], IsList(r) PROVE r = q
  <2>1. num # 0 => r[1] = q[1]
    BY <1>2 DEF IsList
  <2>2. Linked(r, num, next) /\ Linked(q, num, next)
    BY <1>2 DEF IsList, Linked
  <2>3. QED
    BY <1>2, <2>1, <2>2, ChainUnique, Zenon
<1>3. QED
  BY <1>1, <1>2

LEMMA MessagesWillBe ==
  ASSUME num' \in Nat, NEW q \in [1..num' -> Elem], IsList(q)'
  PROVE  Messages' = q
<1>1. Messages' \in [1..num' -> Elem] /\ IsList(Messages)'
  BY DEF Messages
<1>2. ASSUME NEW r \in [1..num' -> Elem], IsList(r)' PROVE r = q
  <2>1. num' # 0 => r[1] = q[1]
    BY <1>2 DEF IsList
  <2>2. Linked(r, num', next') /\ Linked(q, num', next')
    BY <1>2 DEF IsList, Linked
  <2>3. QED
    BY <1>2, <2>1, <2>2, ChainUnique, Zenon
<1>3. QED
  BY <1>1, <1>2

LEMMA SequenceIsFunction ==
  ASSUME NEW s \in Seq(Elem)
  PROVE  s \in [1..Len(s) -> Elem]
OBVIOUS

(* The list as a sequence: putting appends, and what is taken is the head. *)
LEMMA AsSequence ==
  ASSUME num \in Nat, NEW q \in [1..num -> Elem]
  PROVE  /\ q \in Seq(Elem) /\ Len(q) = num
         /\ \A e \in Elem : Longer(q, e) = Append(q, e)
         /\ num > 0 => q # <<>> /\ Shorter(q) = Tail(q)
         /\ num = 0 => q = <<>>
<1>1. q \in Seq(Elem) /\ Len(q) = num
  OBVIOUS
<1>2. ASSUME NEW e \in Elem PROVE Longer(q, e) = Append(q, e)
  <2>1. Append(q, e) \in Seq(Elem) /\ Len(Append(q, e)) = num + 1
    BY <1>1
  <2>2. Append(q, e) \in [1..(num + 1) -> Elem]
    BY <2>1, SequenceIsFunction, Zenon
  <2>3. Longer(q, e) \in [1..(num + 1) -> Elem]
    BY DEF Longer
  <2>4. ASSUME NEW i \in 1..(num + 1) PROVE Longer(q, e)[i] = Append(q, e)[i]
    BY <1>1 DEF Longer
  <2>5. QED
    BY <2>2, <2>3, <2>4
<1>3. ASSUME num > 0 PROVE q # <<>> /\ Shorter(q) = Tail(q)
  <2>1. q # <<>> /\ Tail(q) \in Seq(Elem) /\ Len(Tail(q)) = num - 1 /\ num - 1 \in Nat
    BY <1>1, <1>3
  <2>2. Tail(q) \in [1..(num - 1) -> Elem]
    BY <2>1, SequenceIsFunction, Zenon
  <2>3. Shorter(q) \in [1..(num - 1) -> Elem]
    BY <1>3 DEF Shorter
  <2>4. ASSUME NEW i \in 1..(num - 1) PROVE Shorter(q)[i] = Tail(q)[i]
    BY <1>1, <2>1 DEF Shorter
  <2>5. QED
    BY <2>1, <2>2, <2>3, <2>4
<1>4. ASSUME num = 0 PROVE q = <<>>
  BY <1>1, <1>4
<1>5. QED
  BY <1>1, <1>2, <1>3, <1>4

(* A step is a step of the abstract queue, or leaves the messages alone. *)
LEMMA QueueStep ==
  ASSUME TypeOK, ListIntact, num' \in Nat, ListStep
  PROVE  Queue!QNext \/ Messages' = Messages
<1>1. PICK q \in [1..num -> Elem] : IsList(q)
  BY DEF ListIntact
<1>2. num \in Nat
  BY DEF TypeOK
<1>3. Messages = q
  BY <1>1, <1>2, MessagesAre
<1>4. CASE ListSame
  <2>1. q \in [1..num' -> Elem] /\ IsList(q)'
    BY <1>1, <1>4, SameKeeps
  <2>2. Messages' = q
    BY <2>1, MessagesWillBe
  <2>3. QED
    BY <1>3, <2>2
<1>5. CASE RemoveStep
  <2>1. PICK r \in [1..num' -> Elem] : r = Shorter(q) /\ IsList(r)'
    BY <1>1, <1>5, RemoveKeeps
  <2>2. Messages' = r
    BY <2>1, MessagesWillBe
  <2>3. q # <<>> /\ r = Tail(q)
    BY <1>2, <1>5, <2>1, AsSequence DEF RemoveStep
  <2>4. QED
    BY <1>3, <2>2, <2>3 DEF Queue!QNext, Queue!RemoveOldest
<1>6. ASSUME NEW e \in Elem, owner[e] # "buffer", AppendStep(e)
      PROVE  Queue!QNext
  <2>1. PICK r \in [1..num' -> Elem] : r = Longer(q, e) /\ IsList(r)'
    BY <1>1, <1>6, AppendKeeps
  <2>2. Messages' = r
    BY <2>1, MessagesWillBe
  <2>3. r = Append(q, e)
    BY <1>2, <2>1, AsSequence
  <2>4. QED
    BY <1>3, <2>2, <2>3 DEF Queue!QNext, Queue!Send
<1>7. QED
  BY <1>4, <1>5, <1>6 DEF ListStep

(* Messages are received in the order they were sent, and clear and        *)
(* dispose discard only from the front: the linked list of put, get, clear *)
(* and dispose implements the abstract queue for any threads and elements. *)
THEOREM ImplementsQueue == Spec => FirstInFirstOut
<1>1. Init => Queue!QInit
  <2> SUFFICES ASSUME Init PROVE Messages = <<>>
    BY DEF Queue!QInit
  <2>1. BufferInv /\ num = 0
    BY InitInv DEF Init
  <2>2. PICK q \in [1..num -> Elem] : IsList(q)
    BY <2>1 DEF BufferInv, ListIntact
  <2>3. Messages = q /\ q = <<>>
    BY <2>1, <2>2, MessagesAre, AsSequence
  <2>4. QED
    BY <2>3
<1>2. BufferInv /\ [Next]_vars => [Queue!QNext]_Messages
  <2> SUFFICES ASSUME BufferInv, [Next]_vars
               PROVE  Queue!QNext \/ Messages' = Messages
    OBVIOUS
  <2>1. TypeOK /\ ListIntact /\ TypeOK' /\ ListStep
    BY StepProp DEF BufferInv
  <2>2. num' \in Nat
    BY <2>1 DEF TypeOK
  <2>3. QED
    BY <2>1, <2>2, QueueStep
<1>3. QED
  BY <1>1, <1>2, BufferCorrect, PTL DEF Spec, FirstInFirstOut, Queue!QSpec

-----------------------------------------------------------------------------
(* A reader that waits alone.                                              *)

(* No thread but t waits for a message. *)
Alone(t) == \A s \in Thread \ {t} : ~Sleeping(s)

(* Reader t sleeps only while there is no message. *)
Served(t) == pc[t] = "get_wait" => num = 0

(* No step leaves a reader asleep that waits alone: the put that ends      *)
(* num = 0 signals, and the signal can only be for that reader.            *)
LEMMA ServedStep ==
  ASSUME NEW t \in Thread, BufferInv, Alone(t), Served(t), [Next]_vars
  PROVE  Served(t)'
<1> SUFFICES ASSUME pc'[t] = "get_wait" PROVE num' = 0
  BY DEF Served
<1>1. /\ num \in Nat /\ pc \in [Thread -> Place] /\ LoopsAlone
      /\ NULL \notin Thread /\ (pc[t] = "get_wait" => num = 0)
  BY ThreadAssumption DEF BufferInv, TypeOK, Served
<1>2. CASE msg_buffer_init
  BY <1>2 DEF msg_buffer_init
<1>3. ASSUME NEW s \in Thread, NEW e \in Elem, send_msg_to_buffer(s, e)
      PROVE  FALSE
  <2>1. pc' = pc \/ Signal
    BY <1>3 DEF send_msg_to_buffer, put_msg_to_buffer
  <2>2. pc[t] = "get_wait"
    BY <1>1, <2>1 DEF Signal, Wake
  <2>3. first = last
    BY <1>1, <2>2, ListFacts DEF BufferInv
  <2>4. Signal
    BY <1>1, <1>3, <2>2, <2>3 DEF send_msg_to_buffer, put_msg_to_buffer
  <2>5. PICK u \in Thread : Sleeping(u) /\ Wake(u)
    BY <2>2, <2>4 DEF Signal, Sleeping
  <2>6. u = t
    BY <2>5 DEF Alone
  <2>7. QED
    BY <1>1, <2>5, <2>6 DEF Wake
<1>4. ASSUME NEW s \in Thread, NEW e \in Elem, free_tmsg_element(s, e)
      PROVE  num' = 0
  BY <1>1, <1>4 DEF free_tmsg_element
<1>5. ASSUME NEW s \in Thread, get_msg_from_buffer(s)
      PROVE  num' = 0
  <2>1. CASE num = 0
    BY <1>5, <2>1 DEF get_msg_from_buffer
  <2>2. CASE num # 0
    BY <1>1, <1>5, <2>2 DEF get_msg_from_buffer
  <2>3. QED
    BY <2>1, <2>2
<1>6. ASSUME NEW s \in Thread, get_msg_from_buffer_timeout(s)
      PROVE  num' = 0
  <2>1. \E p \in {"idle", "timed_wait"} : pc' = [pc EXCEPT ![s] = p]
    BY <1>6 DEF get_msg_from_buffer_timeout
  <2>2. num = 0
    BY <1>1, <2>1
  <2>3. QED
    BY <1>6, <2>2 DEF get_msg_from_buffer_timeout
<1>7. ASSUME NEW s \in Thread, WakesUp(s)
      PROVE  num' = 0
  BY <1>1, <1>7 DEF WakesUp, Wake
<1>8. ASSUME NEW s \in Thread, clear_msg_buffer(s) \/ dispose_msg_buffer(s)
      PROVE  num' = 0
  BY <1>1, <1>8 DEF clear_msg_buffer, dispose_msg_buffer
<1>9. ASSUME NEW s \in Thread, ClearStep(s)
      PROVE  num' = 0
  <2>1. num > 0
    BY <1>1, <1>9 DEF ClearStep, LoopsAlone
  <2>2. pc[t] = "get_wait"
    BY <1>1, <1>9 DEF ClearStep, FreeFirst
  <2>3. QED
    BY <1>1, <2>1, <2>2
<1>10. ASSUME NEW s \in Thread, DisposeEnd(s)
       PROVE  num' = 0
  BY <1>1, <1>10 DEF DisposeEnd
<1>11. CASE UNCHANGED vars
  BY <1>1, <1>11 DEF vars
<1>12. QED
  BY <1>2, <1>3, <1>4, <1>5, <1>6, <1>7, <1>8, <1>9, <1>10, <1>11 DEF Next

(* A reader that is the only one to wait is never asleep while there is a  *)
(* message, so it is not left asleep: the one signal of put_msg_to_buffer, *)
(* for the first message of an empty buffer, is enough for it.             *)
THEOREM LoneReaderNotified == Spec => OnlyReaderNotified
<1> SUFFICES ASSUME NEW t \in Reader
             PROVE  Spec => ([](\A s \in Thread \ {t} : ~Sleeping(s)) =>
                      ((pc[t] = "get_wait" /\ num > 0)
                         ~> (pc[t] # "get_wait" \/ num = 0)))
  BY DEF OnlyReaderNotified
<1>1. t \in Thread
  BY ThreadAssumption
<1>2. Init => Served(t)
  BY DEF Init, Served
<1>3. BufferInv /\ (\A s \in Thread \ {t} : ~Sleeping(s)) /\ Served(t) /\ [Next]_vars
        => Served(t)'
  BY <1>1, ServedStep DEF Alone
<1>4. BufferInv /\ Served(t) => ~(pc[t] = "get_wait" /\ num > 0)
  BY DEF Served, BufferInv, TypeOK
<1>5. QED
  BY <1>2, <1>3, <1>4, BufferCorrect, PTL DEF Spec
=============================================================================
