----------------------------- MODULE MsgBuffer -----------------------------
(***************************************************************************)
(* The message buffer of msg_process.c: a linked list of elements under a  *)
(* mutex, with readers that block on the condition not_empty, for ever or  *)
(* for a time.                                                             *)
(*                                                                         *)
(* A critical section is one step, except that every iteration of the loop *)
(* of clear_msg_buffer is a step of its own with the mutex held.  A reader *)
(* that is woken has yet to get the mutex back.  Memory is a set of cells: *)
(* malloc gives a free cell, and each cell in use belongs to the buffer or *)
(* to a thread.                                                            *)
(*                                                                         *)
(* Callers keep to what the interface asks for: they put and free elements *)
(* they own, leave alone the element clear_msg_buffer returns, which stays *)
(* in the buffer, and dispose of a buffer that no call is using.           *)
(***************************************************************************)
EXTENDS Integers, FiniteSets, Functions

CONSTANTS
  Thread,    \* the threads that share the buffer
  Reader,    \* those that call get
  Timed,     \* those that call get_timeout
  Elem,      \* the memory cells of elements
  NULL

ASSUME ThreadAssumption ==
  /\ Reader \subseteq Thread /\ Timed \subseteq Thread
  /\ NULL \notin Elem /\ NULL \notin Thread
  /\ {"free", "buffer"} \cap Thread = {}

VARIABLES
  live,      \* the buffer is initialised and not disposed of
  first, last, num,
  next,      \* next[e]: e->next
  owner,     \* owner[e]: "free", "buffer", or the thread that has e
  mutex,     \* the thread that is in the loop of clear_msg_buffer
  pc         \* where each thread is

vars == <<live, first, last, num, next, owner, mutex, pc>>

Place == {"idle", "get_wait", "get_woken", "timed_wait", "timed_woken",
          "clear", "dispose"}

(* The pointers point to cells, and cells have an owner. *)
TypeOK ==
  /\ live \in BOOLEAN
  /\ first \in Elem \cup {NULL} /\ last \in Elem \cup {NULL}
  /\ num \in Nat
  /\ next \in [Elem -> Elem \cup {NULL}]
  /\ owner \in [Elem -> {"free", "buffer"} \cup Thread]
  /\ mutex \in Thread \cup {NULL}
  /\ pc \in [Thread -> Place]

-----------------------------------------------------------------------------

Init ==
  /\ live = FALSE
  /\ first = NULL /\ last = NULL /\ num = 0
  /\ next = [e \in Elem |-> NULL]
  /\ owner = [e \in Elem |-> "free"]
  /\ mutex = NULL
  /\ pc = [t \in Thread |-> "idle"]

msg_buffer_init ==
  /\ ~live
  /\ live' = TRUE
  /\ first' = NULL /\ last' = NULL /\ num' = 0
  /\ UNCHANGED <<next, owner, mutex, pc>>

(* Thread t starts a call.  Nobody does while the buffer is disposed of. *)
Calls(t) ==
  /\ live /\ mutex = NULL /\ pc[t] = "idle"
  /\ \A s \in Thread : pc[s] # "dispose"

Sleeping(t) == pc[t] \in {"get_wait", "timed_wait"}

Wake(t) ==
  pc' = [pc EXCEPT ![t] = IF @ = "get_wait" THEN "get_woken" ELSE "timed_woken"]

(* Mutant: the signal is forgotten. *)
Signal_none == UNCHANGED pc

(* pthread_cond_signal: wakes one of the threads that wait, if any. *)
Signal ==
  \/ \E t \in Thread : Sleeping(t) /\ Wake(t)
  \/ (\A t \in Thread : ~Sleeping(t)) /\ UNCHANGED pc

(* Mutant: the link of an element that was in the buffer before is kept. *)
put_msg_to_buffer_stale(e) ==
  /\ owner' = [owner EXCEPT ![e] = "buffer"]
  /\ last' = e
  /\ num' = num + 1
  /\ IF num = 0 THEN first' = e /\ Signal /\ UNCHANGED next
                ELSE next' = [next EXCEPT ![last] = e] /\ UNCHANGED <<first, pc>>
  /\ UNCHANGED <<live, mutex>>

(* Mutant: the element is put before the others. *)
put_msg_to_buffer_front(e) ==
  /\ owner' = [owner EXCEPT ![e] = "buffer"]
  /\ next' = [next EXCEPT ![e] = first]
  /\ first' = e
  /\ num' = num + 1
  /\ IF num = 0 THEN last' = e /\ Signal ELSE UNCHANGED <<last, pc>>
  /\ UNCHANGED <<live, mutex>>

(* put_msg_to_buffer: only the first message of an empty buffer wakes a    *)
(* reader.                                                                 *)
put_msg_to_buffer(e) ==
  /\ owner' = [owner EXCEPT ![e] = "buffer"]
  /\ last' = e
  /\ num' = num + 1
  /\ \/ /\ first = last /\ num = 0
        /\ next' = [next EXCEPT ![e] = NULL]
        /\ first' = e
        /\ Signal
     \/ /\ ~(first = last /\ num = 0)
        /\ next' = [next EXCEPT ![e] = NULL, ![last] = e]
        /\ UNCHANGED <<first, pc>>
  /\ UNCHANGED <<live, mutex>>

(* A message is sent in a new element (send_msg_to_buffer and _ex; nothing *)
(* happens when malloc fails), or in one the sender got before.            *)
send_msg_to_buffer(t, e) ==
  /\ Calls(t) /\ owner[e] \in {"free", t}
  /\ put_msg_to_buffer(e)

(* The element a reader takes from the front. *)
Take(t) ==
  /\ owner' = [owner EXCEPT ![first] = t]
  /\ IF num = 1 THEN first' = NULL /\ last' = NULL /\ num' = 0
                ELSE first' = next[first] /\ num' = num - 1 /\ UNCHANGED last

(* get_msg_from_buffer, from the call or from pthread_cond_wait. *)
get_msg_from_buffer(t) ==
  /\ t \in Reader
  /\ Calls(t) \/ (pc[t] = "get_woken" /\ mutex = NULL)
  /\ \/ num = 0 /\ pc' = [pc EXCEPT ![t] = "get_wait"]
                /\ UNCHANGED <<first, last, num, owner>>
     \/ num # 0 /\ pc' = [pc EXCEPT ![t] = "idle"] /\ Take(t)
  /\ UNCHANGED <<live, next, mutex>>

(* Mutant: a timed reader that finds nothing waits again. *)
get_msg_from_buffer_timeout_again(t) ==
  /\ t \in Timed
  /\ Calls(t) \/ (pc[t] = "timed_woken" /\ mutex = NULL)
  /\ \/ num = 0 /\ pc' = [pc EXCEPT ![t] = "timed_wait"]
                /\ UNCHANGED <<first, last, num, owner>>
     \/ num > 0 /\ pc' = [pc EXCEPT ![t] = "idle"] /\ Take(t)
  /\ UNCHANGED <<live, next, mutex>>

(* get_msg_from_buffer_timeout up to pthread_cond_timedwait, and after it: *)
(* a message that is there is taken even if the time is over.              *)
get_msg_from_buffer_timeout(t) ==
  /\ t \in Timed
  /\ \/ /\ Calls(t) /\ num = 0
        /\ pc' = [pc EXCEPT ![t] = "timed_wait"]
        /\ UNCHANGED <<first, last, num, owner>>
     \/ /\ Calls(t) \/ (pc[t] = "timed_woken" /\ mutex = NULL)
        /\ num > 0
        /\ pc' = [pc EXCEPT ![t] = "idle"] /\ Take(t)
     \/ /\ pc[t] = "timed_woken" /\ mutex = NULL /\ num <= 0
        /\ pc' = [pc EXCEPT ![t] = "idle"]
        /\ UNCHANGED <<first, last, num, owner>>
  /\ UNCHANGED <<live, next, mutex>>

(* The time is over, or a reader is woken without reason. *)
WakesUp(t) ==
  /\ Sleeping(t) /\ Wake(t)
  /\ UNCHANGED <<live, first, last, num, next, owner, mutex>>

(* clear_msg_buffer: the lock, and the loop when there is a message. *)
clear_msg_buffer(t) ==
  /\ Calls(t) /\ num > 0
  /\ mutex' = t /\ pc' = [pc EXCEPT ![t] = "clear"]
  /\ UNCHANGED <<live, first, last, num, next, owner>>

FreeFirst ==
  /\ owner' = [owner EXCEPT ![first] = "free"]
  /\ num' = num - 1
  /\ first' = next[first]
  /\ UNCHANGED <<live, last, next, mutex, pc>>

(* An iteration of its loop. *)
ClearStep(t) ==
  /\ mutex = t
  /\ \/ first # last /\ FreeFirst
     \/ /\ first = last
        /\ num' = 1
        /\ mutex' = NULL
        /\ pc' = [pc EXCEPT ![t] = IF @ = "clear" THEN "idle" ELSE @]
        /\ UNCHANGED <<live, first, last, next, owner>>

(* dispose_msg_buffer: clear first when there are several messages ...     *)
dispose_msg_buffer(t) ==
  /\ Calls(t) /\ \A s \in Thread : pc[s] = "idle"
  /\ pc' = [pc EXCEPT ![t] = "dispose"]
  /\ mutex' = IF first # last /\ num > 0 THEN t ELSE NULL
  /\ UNCHANGED <<live, first, last, num, next, owner>>

(* ... then free the one that is left, if any, and the buffer. *)
DisposeEnd(t) ==
  /\ pc[t] = "dispose" /\ mutex = NULL
  /\ live' = FALSE
  /\ pc' = [pc EXCEPT ![t] = "idle"]
  /\ IF last # NULL
     THEN /\ owner' = [owner EXCEPT ![last] = "free"]
          /\ first' = NULL /\ last' = NULL /\ num' = 0
     ELSE UNCHANGED <<owner, first, last, num>>
  /\ UNCHANGED <<next, mutex>>

free_tmsg_element(t, e) ==
  /\ pc[t] = "idle" /\ owner[e] = t
  /\ owner' = [owner EXCEPT ![e] = "free"]
  /\ UNCHANGED <<live, first, last, num, next, mutex, pc>>

Next ==
  \/ msg_buffer_init
  \/ \E t \in Thread :
       \/ \E e \in Elem : send_msg_to_buffer(t, e) \/ free_tmsg_element(t, e)
       \/ get_msg_from_buffer(t)
       \/ get_msg_from_buffer_timeout(t)
       \/ WakesUp(t)
       \/ clear_msg_buffer(t)
       \/ ClearStep(t)
       \/ dispose_msg_buffer(t)
       \/ DisposeEnd(t)

Spec == Init /\ [][Next]_vars

(* A thread that was woken gets the mutex sooner or later, although others *)
(* take it again and again; a timed wait ends; a loop under the mutex goes *)
(* on.  No thread has to call anything.                                    *)
Fairness ==
  \A t \in Thread :
    /\ SF_vars(pc[t] = "get_woken" /\ get_msg_from_buffer(t))
    /\ SF_vars(pc[t] = "timed_woken" /\ get_msg_from_buffer_timeout(t))
    /\ WF_vars(pc[t] = "timed_wait" /\ WakesUp(t))
    /\ WF_vars(ClearStep(t))

FairSpec == Spec /\ Fairness

-----------------------------------------------------------------------------
(* Properties.                                                             *)

(* The num elements from first to last, linked by next. *)
IsList(q) ==
  /\ first = IF num = 0 THEN NULL ELSE q[1]
  /\ last = IF num = 0 THEN NULL ELSE q[num]
  /\ \A i \in 1..num : next[q[i]] = IF i = num THEN NULL ELSE q[i + 1]
  /\ IsInjective(q)
  /\ Range(q) = {e \in Elem : owner[e] = "buffer"}

(* The buffer is always a proper list: num elements lead from first to     *)
(* last, none of them freed or in the hands of a reader, and no element    *)
(* the buffer owns is missing from it, whatever calls are in progress      *)
(* (the pointer updates of put, get, clear and dispose).                   *)
ListIntact == \E q \in [1..num -> Elem] : IsList(q)

(* Messages are received in the order they were sent (put at last, get at  *)
(* first), and clear discards only from the front.                         *)
Messages == CHOOSE q \in [1..num -> Elem] : IsList(q)
Queue == INSTANCE MsgQueue WITH queue <- Messages
FirstInFirstOut == Queue!QSpec

(* A timed get returns, with a message or without, although others empty   *)
(* the buffer before it gets the mutex (the single wait of                 *)
(* get_msg_from_buffer_timeout).                                           *)
TimedReturns == \A t \in Timed : pc[t] = "timed_wait" ~> pc[t] = "idle"

(* "Notify the threads blocked waiting for messages" (comment of           *)
(* put_msg_to_buffer): a reader is not left asleep while there is a        *)
(* message.                                                                *)
ReaderNotified ==
  \A t \in Reader :
    (pc[t] = "get_wait" /\ num > 0) ~> (pc[t] # "get_wait" \/ num = 0)

(* A reader that is the only one to wait for messages is not left asleep   *)
(* while there is one: put_msg_to_buffer signals when the buffer was       *)
(* empty, and that is enough for a single reader.                          *)
OnlyReaderNotified ==
  \A t \in Reader :
    [](\A s \in Thread \ {t} : ~Sleeping(s)) =>
      ((pc[t] = "get_wait" /\ num > 0) ~> (pc[t] # "get_wait" \/ num = 0))

-----------------------------------------------------------------------------
(* The inductive invariant.                                                *)

(* The mutex is held across steps by a loop that has an element to look at *)
(* and nobody else is in a call while the buffer is disposed of.           *)
LoopsAlone ==
  /\ \A t \in Thread : pc[t] = "clear" => mutex = t
  /\ mutex # NULL => num > 0 /\ pc[mutex] \in {"clear", "dispose"}
  /\ \A t \in Thread : pc[t] = "dispose" =>
       /\ \A s \in Thread \ {t} : pc[s] = "idle"
       /\ mutex = NULL => first = last
  /\ ~live => num = 0

(* Together with the list: what every call relies on and restores. *)
BufferInv == TypeOK /\ LoopsAlone /\ ListIntact
=============================================================================
