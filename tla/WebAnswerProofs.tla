--------------------------- MODULE WebAnswerProofs ---------------------------
(***************************************************************************)
(* The web server sends the answer without a gap or a repetition, and all  *)
(* of it before it closes, for every length of header and page and every   *)
(* size of the output queue, the pieces and the kernel's buffer.           *)
(***************************************************************************)
EXTENDS WebAnswer, RingQueueLemmas

-----------------------------------------------------------------------------
(* What the thread has yet to do, before and after a step.                 *)

(* What is left after a return. *)
LEMMA Tails ==
  ASSUME NEW a, NEW b, NEW c, NEW d
  PROVE  /\ Tail(<<a>>) = <<>> /\ Tail(<<a, b>>) = <<b>>
         /\ Tail(<<a, b, c>>) = <<b, c>> /\ Tail(<<a, b, c, d>>) = <<b, c, d>>
OBVIOUS

(* Sequences that agree everywhere are equal. *)
LEMMA SameSeq ==
  ASSUME NEW S, NEW z \in Seq(S), NEW w \in Seq(S), Len(z) = Len(w),
         \A i \in 1..Len(z) : z[i] = w[i]
  PROVE  z = w
OBVIOUS

(* A call puts what is to be done before what was to be done: one frame before one ... *)
LEMMA Push11 ==
  ASSUME NEW a \in Frame, NEW b \in Frame
  PROVE  <<a>> \o <<b>> = <<a, b>>
<1> DEFINE z == <<a>> \o <<b>>
           w == <<a, b>>
<1>1. z \in Seq(Frame) /\ Len(z) = 2
      /\ z[1] = a /\ z[2] = b
  OBVIOUS
<1>2. w \in Seq(Frame) /\ Len(w) = 2
      /\ w[1] = a /\ w[2] = b
  OBVIOUS
<1> HIDE DEF z, w
<1>3. \A i \in 1..Len(z) : z[i] = w[i]
  BY <1>1, <1>2
<1>4. z = w
  BY <1>1, <1>2, <1>3, SameSeq
<1> QED BY <1>4 DEF z, w

(* ... one before two ... *)
LEMMA Push12 ==
  ASSUME NEW a \in Frame, NEW b \in Frame, NEW c \in Frame
  PROVE  <<a>> \o <<b, c>> = <<a, b, c>>
<1> DEFINE z == <<a>> \o <<b, c>>
           w == <<a, b, c>>
<1>1. z \in Seq(Frame) /\ Len(z) = 3
      /\ z[1] = a /\ z[2] = b /\ z[3] = c
  OBVIOUS
<1>2. w \in Seq(Frame) /\ Len(w) = 3
      /\ w[1] = a /\ w[2] = b /\ w[3] = c
  OBVIOUS
<1> HIDE DEF z, w
<1>3. \A i \in 1..Len(z) : z[i] = w[i]
  BY <1>1, <1>2
<1>4. z = w
  BY <1>1, <1>2, <1>3, SameSeq
<1> QED BY <1>4 DEF z, w

(* ... two before one ... *)
LEMMA Push21 ==
  ASSUME NEW a \in Frame, NEW b \in Frame, NEW c \in Frame
  PROVE  <<a, b>> \o <<c>> = <<a, b, c>>
<1> DEFINE z == <<a, b>> \o <<c>>
           w == <<a, b, c>>
<1>1. z \in Seq(Frame) /\ Len(z) = 3
      /\ z[1] = a /\ z[2] = b /\ z[3] = c
  OBVIOUS
<1>2. w \in Seq(Frame) /\ Len(w) = 3
      /\ w[1] = a /\ w[2] = b /\ w[3] = c
  OBVIOUS
<1> HIDE DEF z, w
<1>3. \A i \in 1..Len(z) : z[i] = w[i]
  BY <1>1, <1>2
<1>4. z = w
  BY <1>1, <1>2, <1>3, SameSeq
<1> QED BY <1>4 DEF z, w

(* ... and two before two. *)
LEMMA Push22 ==
  ASSUME NEW a \in Frame, NEW b \in Frame, NEW c \in Frame, NEW d \in Frame
  PROVE  <<a, b>> \o <<c, d>> = <<a, b, c, d>>
<1> DEFINE z == <<a, b>> \o <<c, d>>
           w == <<a, b, c, d>>
<1>1. z \in Seq(Frame) /\ Len(z) = 4
      /\ z[1] = a /\ z[2] = b /\ z[3] = c /\ z[4] = d
  OBVIOUS
<1>2. w \in Seq(Frame) /\ Len(w) = 4
      /\ w[1] = a /\ w[2] = b /\ w[3] = c /\ w[4] = d
  OBVIOUS
<1> HIDE DEF z, w
<1>3. \A i \in 1..Len(z) : z[i] = w[i]
  BY <1>1, <1>2
<1>4. z = w
  BY <1>1, <1>2, <1>3, SameSeq
<1> QED BY <1>4 DEF z, w

(* The innermost function tells what else there is to do. *)
LEMMA Tops ==
  ASSUME stack \in AnyStack
  PROVE  /\ Running("socketWrite") =>
              \E c \in {"headerFlush", "pageFlush"} :
                stack = <<"socketWrite", c, "handled">>
         /\ Running("full") =>
              \E c \in {"headerFlush", "pageFlush"} :
                stack = <<"full", c, "handled">>
         /\ Running("close") => stack = <<"close">>
         /\ Running("header") => stack = <<"header", "handled">>
         /\ Running("headerFlush") => stack = <<"headerFlush", "handled">>
         /\ Running("page") => stack = <<"page", "handled">>
         /\ Running("pageFlush") => stack = <<"pageFlush", "handled">>
         /\ Running("pageNext") => stack = <<"pageNext", "handled">>
         /\ Running("handler") => stack = <<"handler">>
         /\ Running("handled") => stack = <<"handled">>
BY DEF AnyStack, InHeader, InPage, HeaderLoop, InLoop, InDone, Waiting,
       Writing, Running

(* The thread goes on with the same part of the answer. *)
SameKind(s, t) ==
  /\ t \in AnyStack
  /\ t \in InHeader <=> s \in InHeader
  /\ t \in InPage <=> s \in InPage
  /\ t \in HeaderLoop <=> s \in HeaderLoop
  /\ t \in InDone <=> s \in InDone

(* socketFlush returns to where it was called. *)
LEMMA FlushReturns ==
  ASSUME stack \in AnyStack, Running("socketFlush"), Return
  PROVE  /\ SameKind(stack, stack') /\ stack \notin Waiting
         /\ stack' \in Writing("headerFlush") => stack \in Writing("headerFlush")
         /\ stack' \in InDone => stack' = <<"close">>
         /\ stack' # <<>> /\ stack # <<>>
<1>1. \/ stack = <<"socketFlush", "full", "headerFlush", "handled">>
      \/ stack = <<"socketFlush", "full", "pageFlush", "handled">>
      \/ stack = <<"socketFlush", "pageNext", "handled">>
      \/ stack = <<"socketFlush", "header", "handled">>
      \/ stack = <<"socketFlush", "handler">>
      \/ stack = <<"socketFlush", "close">>
  BY DEF AnyStack, InHeader, InPage, HeaderLoop, InLoop, InDone, Waiting,
       Writing, Running
<1>2. \/ /\ stack = <<"socketFlush", "full", "headerFlush", "handled">>
         /\ stack' = <<"full", "headerFlush", "handled">>
      \/ /\ stack = <<"socketFlush", "full", "pageFlush", "handled">>
         /\ stack' = <<"full", "pageFlush", "handled">>
      \/ /\ stack = <<"socketFlush", "pageNext", "handled">>
         /\ stack' = <<"pageNext", "handled">>
      \/ /\ stack = <<"socketFlush", "header", "handled">>
         /\ stack' = <<"header", "handled">>
      \/ stack = <<"socketFlush", "handler">> /\ stack' = <<"handler">>
      \/ stack = <<"socketFlush", "close">> /\ stack' = <<"close">>
  <2>1. /\ Tail(<<"socketFlush", "full", "headerFlush", "handled">>)
             = <<"full", "headerFlush", "handled">>
        /\ Tail(<<"socketFlush", "full", "pageFlush", "handled">>)
             = <<"full", "pageFlush", "handled">>
        /\ Tail(<<"socketFlush", "pageNext", "handled">>)
             = <<"pageNext", "handled">>
        /\ Tail(<<"socketFlush", "header", "handled">>) = <<"header", "handled">>
        /\ Tail(<<"socketFlush", "handler">>) = <<"handler">>
        /\ Tail(<<"socketFlush", "close">>) = <<"close">>
    BY Tails
  <2> QED BY <1>1, <2>1, Zenon DEF Return
<1> QED BY <1>2 DEF AnyStack, InHeader, InPage, HeaderLoop, InLoop, InDone,
       Waiting, Writing, SameKind

(* socketWrite goes on for the same caller. *)
LEMMA WriteStacks ==
  ASSUME NEW c \in {"headerFlush", "pageFlush"}, NEW s, NEW t,
         s \in Writing(c), t \in Writing(c) \cup {<<c, "handled">>}
  PROVE  SameKind(s, t) /\ s \notin Waiting /\ t # <<>> /\ s # <<>>
         /\ s \notin InDone /\ t \notin InDone
         /\ (t \in Writing("headerFlush") => s \in Writing("headerFlush"))
         /\ (t = <<c, "handled">> => t \notin Writing("headerFlush"))
BY DEF AnyStack, InHeader, InPage, HeaderLoop, InLoop, InDone, Waiting,
       Writing, SameKind

(* What socketWrite does next, as the frames it leaves. *)
LEMMA WriteSteps ==
  ASSUME NEW c \in {"headerFlush", "pageFlush"}
  PROVE  /\ <<"socketFlush", "full">> \o Tail(<<"socketWrite", c, "handled">>)
              = <<"socketFlush", "full", c, "handled">>
         /\ <<"socketFlush">> \o <<"full">> = <<"socketFlush", "full">>
         /\ <<"socketWrite">> \o Tail(<<"full", c, "handled">>)
              = <<"socketWrite", c, "handled">>
         /\ Tail(<<"full", c, "handled">>) = <<c, "handled">>
         /\ Tail(<<"socketWrite", c, "handled">>) = <<c, "handled">>
<1>1. c \in Frame /\ {"handled", "full", "socketFlush", "socketWrite"} \subseteq Frame
  BY DEF Frame
<1>2. /\ Tail(<<"full", c, "handled">>) = <<c, "handled">>
      /\ Tail(<<"socketWrite", c, "handled">>) = <<c, "handled">>
  BY Tails
<1> QED BY <1>1, <1>2, Push11, Push12, Push22

-----------------------------------------------------------------------------
(* The bytes of the answer.                                                *)

(* What there is to do is made of frames. *)
LEMMA StackType == AnyStack \subseteq Seq(Frame)
BY DEF AnyStack, InHeader, InPage, HeaderLoop, InLoop, InDone, Waiting, Writing,
       Frame

(* Concatenation is associative. *)
LEMMA Assoc ==
  ASSUME NEW a \in Seq(Byte), NEW b \in Seq(Byte), NEW c \in Seq(Byte)
  PROVE  (a \o b) \o c = a \o (b \o c)
<1> DEFINE z == (a \o b) \o c
           w == a \o (b \o c)
<1>1. /\ z \in Seq(Byte) /\ w \in Seq(Byte)
      /\ Len(z) = Len(a) + Len(b) + Len(c) /\ Len(w) = Len(z)
  OBVIOUS
<1>2. ASSUME NEW i \in 1..Len(z) PROVE z[i] = w[i]
  BY <1>1
<1> HIDE DEF z, w
<1>3. z = w
  BY <1>1, <1>2, SameSeq
<1> QED BY <1>3 DEF z, w

(* The beginning of the beginning of the answer. *)
LEMMA Prefixes ==
  ASSUME NEW p \in Seq(Byte), NEW q \in Seq(Byte),
         p \o q = FirstBytes(Len(p \o q))
  PROVE  p = FirstBytes(Len(p))
<1> DEFINE z == p \o q
<1>1. /\ Len(p) \in Nat /\ Len(q) \in Nat /\ Len(z) = Len(p) + Len(q)
      /\ \A i \in 1..Len(p) : z[i] = p[i]
  OBVIOUS
<1>2. z = FirstBytes(Len(z))
  OBVIOUS
<1> HIDE DEF z
<1>3. ASSUME NEW i \in 1..Len(p) PROVE p[i] = i
  <2>1. i \in 1..Len(z)
    BY <1>1
  <2>2. FirstBytes(Len(z))[i] = i
    BY <2>1 DEF FirstBytes
  <2> QED BY <1>1, <1>2, <2>2
<1> QED BY <1>1, <1>3 DEF FirstBytes

(* A block that continues the beginning of the answer. *)
LEMMA Lengthened ==
  ASSUME NEW s \in Seq(Byte), s = FirstBytes(Len(s)), NEW t \in Seq(Byte),
         Continues(t, Len(s)), NEW n \in 0..Len(t)
  PROVE  /\ s \o SubSeq(t, 1, n) = FirstBytes(Len(s) + n)
         /\ Continues(SubSeq(t, n + 1, Len(t)), Len(s) + n)
<1>1. /\ Len(s) \in Nat /\ Len(t) \in Nat /\ n \in Nat
      /\ \A i \in 1..Len(s) : s[i] = i
      /\ \A i \in 1..Len(t) : t[i] = Len(s) + i
  BY DEF FirstBytes, Continues
<1> DEFINE u == SubSeq(t, 1, n)
           v == SubSeq(t, n + 1, Len(t))
<1>2. /\ u \in Seq(Byte) /\ Len(u) = n /\ \A i \in 1..n : u[i] = t[i]
  BY <1>1
<1>3. /\ v \in Seq(Byte) /\ Len(v) = Len(t) - n
      /\ \A i \in 1..(Len(t) - n) : v[i] = t[n + i]
  BY <1>1
<1> HIDE DEF u, v
<1>4. s \o u = FirstBytes(Len(s) + n)
  <2>1. s \o u = [i \in 1..(Len(s) + n) |-> IF i <= Len(s) THEN s[i] ELSE u[i - Len(s)]]
    BY <1>2, Concat
  <2>2. ASSUME NEW i \in 1..(Len(s) + n)
        PROVE  (IF i <= Len(s) THEN s[i] ELSE u[i - Len(s)]) = i
    BY <1>1, <1>2
  <2> QED BY <2>1, <2>2 DEF FirstBytes
<1>5. Continues(v, Len(s) + n)
  BY <1>1, <1>3 DEF Continues
<1> QED BY <1>4, <1>5 DEF u, v

-----------------------------------------------------------------------------
(* Every step keeps the invariant.                                         *)

(* A step that moves no bytes and goes on with the same part of the answer. *)
LEMMA NoBytes ==
  ASSUME BytesFit, TypeOK, file' = file, todo' = todo, wire' = wire,
         Contents(outBuf)' = Contents(outBuf), broken => broken',
         \/ wrote' = wrote
         \/ wrote' = -1 /\ broken' /\ stack' \notin Writing("headerFlush"),
         stack' \in AnyStack,
         stack' \in InHeader <=> stack \in InHeader,
         stack' \in InPage <=> stack \in InPage,
         stack' \in HeaderLoop => file <= HeaderLen,
         stack' \in Writing("headerFlush") => stack \in Writing("headerFlush")
  PROVE  BytesFit'
<1>1. Accepted' = Accepted
  BY Zenon DEF Accepted
<1>2. StreamIntact'
  BY DEF BytesFit, StreamIntact, FirstBytes
<1>3. ~broken' => Accepted' = FirstBytes(Len(Accepted'))
  BY <1>1 DEF BytesFit, FirstBytes
<1>4. Continues(todo, Len(Accepted))' <=> Continues(todo, Len(Accepted))
  BY <1>1 DEF Continues
<1>5. PositionFits'
  BY <1>1, <1>4 DEF BytesFit, PositionFits, TypeOK
<1> QED BY <1>2, <1>3, <1>5 DEF BytesFit

(* socketWrite finds the queue full. *)
LEMMA Full ==
  ASSUME AnswerInv, socketWriteFull
  PROVE  AnswerInv'
<1>0. BytesFit /\ ControlFits /\ TypeOK /\ stack \in AnyStack
  BY DEF AnswerInv, BytesFit, ControlFits
<1>1. PICK c \in {"headerFlush", "pageFlush"} :
        stack = <<"socketWrite", c, "handled">>
  BY <1>0, Tops DEF socketWriteFull
<1>2. stack' = <<"socketFlush", "full", c, "handled">>
  BY <1>1, WriteSteps, Zenon DEF socketWriteFull, CallFlush, Goto
<1>3. stack \in Writing(c) /\ stack' \in Writing(c)
  BY <1>1, <1>2 DEF Writing
<1>4. /\ SameKind(stack, stack') /\ stack \notin Waiting /\ stack' # <<>> /\ stack # <<>>
      /\ stack' \notin InDone
      /\ stack' \in Writing("headerFlush") => stack \in Writing("headerFlush")
  BY <1>3, WriteStacks
<1>5. /\ UNCHANGED <<wp, call, outBuf, block, events, kernel>>
      /\ flushing' \in BOOLEAN
  BY <1>0 DEF socketWriteFull, TypeOK, CallFlush
<1>8. BytesFit'
  BY <1>0, <1>4, <1>5, NoBytes DEF SameKind, wp, call, kernel, BytesFit,
       PositionFits
<1>9. ControlFits'
  BY <1>0, <1>4, <1>5, StackType DEF ControlFits, TypeOK, ClosedWhenSent,
       RequestedOnce,
       DoneFlushes, SameKind, wp, call, events, kernel
<1> QED BY <1>8, <1>9 DEF AnswerInv

(* After the flush socketWrite fails, stops or goes on. *)
LEMMA Flushed ==
  ASSUME AnswerInv, socketWriteFlushed
  PROVE  AnswerInv'
<1>0. BytesFit /\ ControlFits /\ TypeOK /\ stack \in AnyStack
  BY DEF AnswerInv, BytesFit, ControlFits
<1>1. PICK c \in {"headerFlush", "pageFlush"} :
        stack = <<"full", c, "handled">>
  BY <1>0, Tops DEF socketWriteFlushed
<1>2. /\ Return => stack' = <<c, "handled">>
      /\ Goto(<<"socketWrite">>) => stack' = <<"socketWrite", c, "handled">>
  BY <1>1, WriteSteps, Zenon DEF Return, Goto
<1>3. /\ UNCHANGED <<wp, todo, flushed, outBuf, block, flushing, events, kernel>>
      /\ \/ wrote' = wrote
            /\ stack' \in {<<c, "handled">>, <<"socketWrite", c, "handled">>}
         \/ wrote' = -1 /\ flushed < 0 /\ stack' = <<c, "handled">>
  BY <1>2 DEF socketWriteFlushed
<1>4. stack \in Writing(c) /\ stack' \in Writing(c) \cup {<<c, "handled">>}
  BY <1>1, <1>3 DEF Writing
<1>5. /\ SameKind(stack, stack') /\ stack \notin Waiting /\ stack' # <<>> /\ stack # <<>>
      /\ stack' \notin InDone
      /\ stack' \in Writing("headerFlush") => stack \in Writing("headerFlush")
      /\ stack' = <<c, "handled">> => stack' \notin Writing("headerFlush")
  BY <1>4, WriteStacks
<1>6. /\ \/ wrote' = wrote
         \/ wrote' = -1 /\ broken' /\ stack' \notin Writing("headerFlush")
      /\ wrote' \in Int /\ (wrote' < 0 => broken')
  BY <1>0, <1>3, <1>5 DEF ControlFits, TypeOK, kernel
<1>8. BytesFit'
  BY <1>0, <1>3, <1>5, <1>6, NoBytes DEF SameKind, BytesFit, PositionFits,
       wp, call, events, kernel
<1>9. ControlFits'
  BY <1>0, <1>3, <1>5, <1>6, StackType DEF ControlFits, TypeOK, ClosedWhenSent,
       RequestedOnce,
       DoneFlushes, SameKind, wp, call, events, kernel
<1> QED BY <1>8, <1>9 DEF AnswerInv

(* socketWrite is done. *)
LEMMA Written ==
  ASSUME AnswerInv, socketWriteEnd
  PROVE  AnswerInv'
<1>0. BytesFit /\ ControlFits /\ TypeOK /\ stack \in AnyStack
  BY DEF AnswerInv, BytesFit, ControlFits
<1>1. PICK c \in {"headerFlush", "pageFlush"} :
        stack = <<"socketWrite", c, "handled">>
  BY <1>0, Tops DEF socketWriteEnd
<1>2. stack' = <<c, "handled">>
  BY <1>1, WriteSteps, Zenon DEF socketWriteEnd, Return
<1>3. stack \in Writing(c) /\ stack' \in Writing(c) \cup {<<c, "handled">>}
  BY <1>1, <1>2 DEF Writing
<1>4. /\ SameKind(stack, stack') /\ stack \notin Waiting /\ stack' # <<>> /\ stack # <<>>
      /\ stack' \notin InDone
      /\ stack' \in Writing("headerFlush") => stack \in Writing("headerFlush")
  BY <1>3, WriteStacks
<1>5. UNCHANGED <<wp, call, outBuf, block, flushing, events, kernel>>
  BY DEF socketWriteEnd
<1>8. BytesFit'
  BY <1>0, <1>4, <1>5, NoBytes DEF SameKind, BytesFit, PositionFits,
       wp, call, events, kernel
<1>9. ControlFits'
  BY <1>0, <1>4, <1>5, StackType DEF ControlFits, TypeOK, ClosedWhenSent,
       RequestedOnce,
       DoneFlushes, SameKind, wp, call, events, kernel
<1> QED BY <1>8, <1>9 DEF AnswerInv

(* The rest of the queue is left to the event loop. *)
LEMMA FlushedLater ==
  ASSUME AnswerInv, socketFlushLater
  PROVE  AnswerInv'
<1>0. BytesFit /\ ControlFits /\ TypeOK /\ stack \in AnyStack
  BY DEF AnswerInv, BytesFit, ControlFits
<1>1. /\ SameKind(stack, stack') /\ stack \notin Waiting
      /\ stack' \in Writing("headerFlush") => stack \in Writing("headerFlush")
      /\ stack' \in InDone => stack' = <<"close">>
      /\ stack' # <<>> /\ stack # <<>>
  BY <1>0, FlushReturns DEF socketFlushLater
<1>2. /\ UNCHANGED <<wp, todo, wrote, outBuf, block, flushing, handler,
                     currentEvents, kernel>>
      /\ ~block /\ flushed' = 0
      /\ handlerMask' \in {handlerMask, handlerMask \cup {"writable"}}
      /\ saveMask' \in {saveMask, handlerMask}
  BY DEF socketFlushLater
<1>3. "readable" \notin handlerMask /\ stack \notin InDone
  BY <1>0, <1>1, <1>2 DEF ControlFits, RequestedOnce, DoneFlushes
<1>4. "readable" \notin handlerMask' /\ "readable" \notin saveMask'
  BY <1>0, <1>2, <1>3 DEF ControlFits, RequestedOnce
<1>5. handlerMask' \subseteq Event /\ saveMask' \in (SUBSET Event) \cup {None}
  BY <1>0, <1>2 DEF TypeOK, Event
<1>8. BytesFit'
  BY <1>0, <1>1, <1>2, NoBytes DEF SameKind, BytesFit, PositionFits,
       wp, call, events, kernel
<1>9. ControlFits'
  BY <1>0, <1>1, <1>2, <1>3, <1>4, <1>5, StackType DEF ControlFits, TypeOK,
       ClosedWhenSent, RequestedOnce,
       DoneFlushes, SameKind, wp, call, events, kernel
<1> QED BY <1>8, <1>9 DEF AnswerInv

(* A send fails: the peer has gone. *)
LEMMA FlushFails ==
  ASSUME AnswerInv, socketFlushError
  PROVE  AnswerInv'
<1>0. BytesFit /\ ControlFits /\ TypeOK /\ stack \in AnyStack
  BY DEF AnswerInv, BytesFit, ControlFits
<1>1. /\ SameKind(stack, stack') /\ stack \notin Waiting
      /\ stack' \in Writing("headerFlush") => stack \in Writing("headerFlush")
      /\ stack' \in InDone => stack' = <<"close">>
      /\ stack' # <<>> /\ stack # <<>>
  BY <1>0, FlushReturns DEF socketFlushError
<1>2. /\ UNCHANGED <<wp, todo, wrote, outBuf, block, flushing, events, kernel>>
      /\ broken /\ flushed' = -1
  BY DEF socketFlushError
<1>8. BytesFit'
  BY <1>0, <1>1, <1>2, NoBytes DEF SameKind, BytesFit, PositionFits,
       wp, call, events, kernel
<1>9. ControlFits'
  BY <1>0, <1>1, <1>2, StackType DEF ControlFits, TypeOK, ClosedWhenSent,
       RequestedOnce,
       DoneFlushes, SameKind, wp, call, events, kernel
<1> QED BY <1>8, <1>9 DEF AnswerInv

(* The queue is empty. *)
LEMMA FlushEnds ==
  ASSUME AnswerInv, socketFlushEnd
  PROVE  AnswerInv'
<1>0. BytesFit /\ ControlFits /\ TypeOK /\ stack \in AnyStack
  BY DEF AnswerInv, BytesFit, ControlFits
<1>1. /\ SameKind(stack, stack') /\ stack \notin Waiting
      /\ stack' \in Writing("headerFlush") => stack \in Writing("headerFlush")
      /\ stack' \in InDone => stack' = <<"close">>
      /\ stack' # <<>> /\ stack # <<>>
  BY <1>0, FlushReturns DEF socketFlushEnd
<1>2. /\ UNCHANGED <<wp, todo, wrote, block, handler, currentEvents, kernel>>
      /\ ringqLen(outBuf) = 0 /\ outBuf' = ringqFlush(outBuf)
      /\ flushing' = FALSE /\ flushed' = 0 /\ saveMask' = None
      /\ \/ handlerMask' = handlerMask
         \/ saveMask # None /\ handlerMask' = saveMask
  BY DEF socketFlushEnd, RestoreMask
<1>3. /\ IsRingq(outBuf') /\ Contents(outBuf') = <<>>
  BY <1>0, <1>2, FlushProp DEF TypeOK
<1>4. Contents(outBuf) = <<>>
  BY <1>0, <1>2, ContentsType DEF TypeOK
<1>5. "readable" \notin handlerMask' /\ "readable" \notin saveMask'
  BY <1>0, <1>1, <1>2 DEF ControlFits, RequestedOnce, None
<1>6. /\ handlerMask' \subseteq Event
      /\ saveMask' \in (SUBSET Event) \cup {None}
  <2>1. handlerMask \subseteq Event /\ saveMask \in (SUBSET Event) \cup {None}
    BY <1>0 DEF TypeOK
  <2>2. saveMask # None => saveMask \subseteq Event
    BY <2>1
  <2>3. handlerMask' \subseteq Event
    BY <1>2, <2>1, <2>2
  <2>4. saveMask' \in (SUBSET Event) \cup {None}
    BY <1>2
  <2> QED BY <2>3, <2>4
<1>7. TypeOK'
  BY <1>0, <1>1, <1>2, <1>3, <1>6, StackType, ZenonT(30) DEF TypeOK, SameKind,
       wp, kernel
<1>8. BytesFit'
  BY <1>0, <1>1, <1>2, <1>3, <1>4, NoBytes DEF SameKind, BytesFit, PositionFits,
       wp, kernel
<1>9. ControlFits'
  BY <1>0, <1>1, <1>2, <1>3, <1>5, <1>7 DEF ControlFits, ClosedWhenSent,
       RequestedOnce, DoneFlushes, SameKind, wp, kernel
<1> QED BY <1>8, <1>9 DEF AnswerInv

(* What there is to do at the ends of the functions. *)
LEMMA PlainKinds ==
  ASSUME NEW s \in InLoop
  PROVE  /\ s \in AnyStack /\ s \notin InHeader /\ s \notin InPage
         /\ s \notin HeaderLoop /\ s \notin InDone
         /\ s \notin Writing("headerFlush")
BY DEF AnyStack, InHeader, InPage, HeaderLoop, InLoop, InDone, Waiting, Writing

(* The same in the loop of websWriteBlock ... *)
LEMMA LoopKinds ==
  ASSUME NEW s \in HeaderLoop
  PROVE  /\ s \in AnyStack /\ s \notin InHeader /\ s \notin InPage
         /\ s \notin InLoop /\ s \notin InDone /\ s # <<>> /\ s \notin Waiting
         /\ s \notin Writing("headerFlush")
BY DEF AnyStack, InHeader, InPage, HeaderLoop, InLoop, InDone, Waiting, Writing

(* ... in websDone ... *)
LEMMA DoneKinds ==
  ASSUME NEW s \in InDone
  PROVE  /\ s \in AnyStack /\ s \notin InHeader /\ s \notin InPage
         /\ s \notin HeaderLoop /\ s \notin Waiting /\ s # <<>>
         /\ s \notin Writing("headerFlush")
BY DEF AnyStack, InHeader, InPage, HeaderLoop, InLoop, InDone, Waiting, Writing

(* ... while a part of the header is written ... *)
LEMMA HeaderKinds ==
  ASSUME NEW s \in InHeader
  PROVE  /\ s \in AnyStack /\ s \notin InPage /\ s \notin HeaderLoop
         /\ s \notin InDone /\ s \notin Waiting /\ s # <<>>
BY DEF AnyStack, InHeader, InPage, HeaderLoop, InLoop, InDone, Waiting, Writing

(* ... and while a piece of the page is. *)
LEMMA PageKinds ==
  ASSUME NEW s \in InPage
  PROVE  /\ s \in AnyStack /\ s \notin InHeader /\ s \notin HeaderLoop
         /\ s \notin InDone /\ s \notin Waiting /\ s # <<>>
         /\ s \notin Writing("headerFlush")
BY DEF AnyStack, InHeader, InPage, HeaderLoop, InLoop, InDone, Waiting, Writing

(* Which part of the answer each point of the functions belongs to. *)
LEMMA Members ==
  /\ {<<>>, <<"handler">>, <<"handled">>, <<"page", "handled">>,
      <<"socketFlush", "handler">>} \subseteq InLoop
  /\ <<>> \in Waiting /\ <<"handler">> \in Waiting
  /\ <<"handled">> \notin Waiting /\ <<"page", "handled">> \notin Waiting
  /\ <<"socketFlush", "handler">> \notin Waiting
  /\ {<<"header", "handled">>, <<"socketFlush", "header", "handled">>}
       \subseteq HeaderLoop
  /\ {<<"socketFlush", "close">>, <<"close">>} \subseteq InDone
  /\ <<"headerFlush", "handled">> \in InHeader
  /\ <<"socketWrite", "headerFlush", "handled">> \in InHeader
  /\ {<<"socketWrite", "pageFlush", "handled">>, <<"pageFlush", "handled">>,
      <<"socketFlush", "pageNext", "handled">>, <<"pageNext", "handled">>}
       \subseteq InPage
  /\ <<"socketFlush", "close">> # <<"close">>
BY DEF InHeader, InPage, HeaderLoop, InLoop, InDone, Waiting, Writing

(* select reports events. *)
LEMMA Selects ==
  ASSUME AnswerInv, socketSelect
  PROVE  AnswerInv'
<1>0. BytesFit /\ ControlFits /\ TypeOK /\ stack \in AnyStack
  BY DEF AnswerInv, BytesFit, ControlFits
<1>1. /\ UNCHANGED <<stack, wp, call, outBuf, block, flushing, handler,
                     handlerMask, saveMask, kernel>>
      /\ currentEvents' \subseteq Event
  BY <1>0 DEF socketSelect, TypeOK, Ready
<1>8. BytesFit'
  BY <1>0, <1>1, NoBytes DEF BytesFit, PositionFits, wp, call, kernel
<1>9. ControlFits'
  BY <1>0, <1>1 DEF ControlFits, TypeOK, ClosedWhenSent,
       RequestedOnce, DoneFlushes, wp, call, kernel
<1> QED BY <1>8, <1>9 DEF AnswerInv

(* The peer reads. *)
LEMMA PeerReads ==
  ASSUME AnswerInv, Receive
  PROVE  AnswerInv'
<1>0. BytesFit /\ ControlFits /\ TypeOK /\ stack \in AnyStack
  BY DEF AnswerInv, BytesFit, ControlFits
<1>1. /\ UNCHANGED <<stack, wp, call, outBuf, block, flushing, events, wire, broken>>
      /\ acked' \in 0..Len(wire)
  BY <1>0 DEF Receive, TypeOK
<1>8. BytesFit'
  BY <1>0, <1>1, NoBytes DEF BytesFit, PositionFits, wp, call
<1>9. ControlFits'
  BY <1>0, <1>1 DEF ControlFits, TypeOK, ClosedWhenSent,
       RequestedOnce, DoneFlushes, wp, call, events
<1> QED BY <1>8, <1>9 DEF AnswerInv

(* The peer resets the connection. *)
LEMMA PeerResets ==
  ASSUME AnswerInv, Reset
  PROVE  AnswerInv'
<1>0. BytesFit /\ ControlFits /\ TypeOK /\ stack \in AnyStack
  BY DEF AnswerInv, BytesFit, ControlFits
<1>1. /\ UNCHANGED <<stack, wp, call, outBuf, block, flushing, events, wire, acked>>
      /\ broken' = TRUE /\ state # "closed"
  BY DEF Reset
<1>8. BytesFit'
  BY <1>0, <1>1, NoBytes DEF BytesFit, PositionFits, wp, call
<1>9. ControlFits'
  BY <1>0, <1>1 DEF ControlFits, TypeOK, ClosedWhenSent,
       RequestedOnce, DoneFlushes, wp, call, events
<1> QED BY <1>8, <1>9 DEF AnswerInv

(* The handler has returned. *)
LEMMA EventEnds ==
  ASSUME AnswerInv, socketDoEventEnd
  PROVE  AnswerInv'
<1>0. BytesFit /\ ControlFits /\ TypeOK /\ stack \in AnyStack
  BY DEF AnswerInv, BytesFit, ControlFits
<1>1. /\ UNCHANGED <<wp, call, outBuf, block, flushing, handler, handlerMask,
                     saveMask, kernel>>
      /\ currentEvents' = {} /\ stack' = <<>> /\ stack = <<"handled">>
  BY <1>0, Tops DEF socketDoEventEnd
<1>2. /\ stack \in InLoop /\ stack' \in InLoop /\ stack \notin Waiting
  BY <1>1, Members
<1>8. BytesFit'
  BY <1>0, <1>1, <1>2, PlainKinds, NoBytes DEF wp, call, kernel
<1>9. ControlFits'
  BY <1>0, <1>1, <1>2, PlainKinds, StackType DEF ControlFits, TypeOK,
       ClosedWhenSent,
       RequestedOnce, DoneFlushes, wp, call, kernel
<1> QED BY <1>8, <1>9 DEF AnswerInv

(* An event is processed. *)
LEMMA EventBegins ==
  ASSUME AnswerInv, socketDoEvent
  PROVE  AnswerInv'
<1>0. BytesFit /\ ControlFits /\ TypeOK /\ stack \in AnyStack
  BY DEF AnswerInv, BytesFit, ControlFits
<1>1. /\ UNCHANGED <<wp, call, outBuf, block, events, kernel>>
      /\ state # "closed" /\ stack = <<>>
      /\ \/ stack' = <<"socketFlush", "handler">> /\ ringqLen(outBuf) > 0
         \/ stack' = <<"handler">>
      /\ flushing' \in BOOLEAN
  BY <1>0 DEF socketDoEvent, TypeOK
<1>2. /\ stack \in InLoop /\ stack' \in InLoop
      /\ stack' \notin Waiting => ringqLen(outBuf) > 0
  BY <1>1, Members
<1>3. Contents(outBuf) = <<>> => stack' \in Waiting
  BY <1>0, <1>2, ContentsType DEF TypeOK
<1>8. BytesFit'
  BY <1>0, <1>1, <1>2, PlainKinds, NoBytes DEF wp, call, kernel
<1>9. ControlFits'
  BY <1>0, <1>1, <1>2, <1>3, PlainKinds, StackType DEF ControlFits, TypeOK,
       ClosedWhenSent,
       RequestedOnce, DoneFlushes, wp, call, events, kernel
<1> QED BY <1>8, <1>9 DEF AnswerInv

(* The request has been idle for too long. *)
LEMMA TimesOut ==
  ASSUME AnswerInv, websTimeout
  PROVE  AnswerInv'
<1>0. BytesFit /\ ControlFits /\ TypeOK /\ stack \in AnyStack
  BY DEF AnswerInv, BytesFit, ControlFits
<1>1. /\ UNCHANGED <<state, file, call, outBuf, flushing, kernel>>
      /\ stack = <<>> /\ code' = 404 /\ handler' = FALSE /\ handlerMask' = {}
      /\ block' = TRUE /\ stack' = <<"socketFlush", "close">>
      /\ UNCHANGED <<saveMask, currentEvents>> /\ state # "closed"
  BY DEF websTimeout, websDone, socketDeleteHandler, socketSetBlock
<1>2. stack \in InLoop /\ stack' \in InDone /\ stack' # <<"close">>
  BY <1>1, Members
<1>8. BytesFit'
  BY <1>0, <1>1, <1>2, PlainKinds, DoneKinds, NoBytes DEF call, kernel
<1>3. TypeOK'
  <2>1. handlerMask' \subseteq Event /\ code' \in {0, 200, 404}
    BY <1>1
  <2> QED BY <1>0, <1>1, <1>2, <2>1, DoneKinds, StackType, ZenonT(30)
    DEF TypeOK, call, kernel
<1>4. RequestedOnce'
  BY <1>0, <1>1 DEF ControlFits, RequestedOnce
<1>5. DoneFlushes' /\ ClosedWhenSent'
  BY <1>0, <1>1, <1>2 DEF ControlFits, DoneFlushes, ClosedWhenSent
<1>9. ControlFits'
  BY <1>0, <1>1, <1>3, <1>4, <1>5 DEF ControlFits, call, kernel
<1> QED BY <1>8, <1>9 DEF AnswerInv

(* websDone closes the connection. *)
LEMMA Closes ==
  ASSUME AnswerInv, Close
  PROVE  AnswerInv'
<1>0. BytesFit /\ ControlFits /\ TypeOK /\ stack \in AnyStack
  BY DEF AnswerInv, BytesFit, ControlFits
<1>1. /\ UNCHANGED <<code, file, call, outBuf, block, flushing, handler, saveMask,
                     currentEvents, kernel>>
      /\ state' = "closed" /\ stack' = <<>> /\ handlerMask' = {}
      /\ stack = <<"close">>
  BY <1>0, Tops DEF Close
<1>2. stack \in InDone /\ stack' \in InLoop
  BY <1>1, Members
<1>3. ClosedWhenSent'
  <2> SUFFICES ASSUME code = 200, ~broken PROVE wire = FirstBytes(AnswerLen)
    BY <1>1 DEF ClosedWhenSent, kernel, FirstBytes
  <2>1. file = AnswerLen /\ Contents(outBuf) = <<>>
    BY <1>0, <1>1, <1>2 DEF ControlFits, DoneFlushes
  <2>2. Len(Accepted) = file /\ Accepted = FirstBytes(Len(Accepted))
    BY <1>0, <1>2, DoneKinds DEF BytesFit, PositionFits
  <2>3. wire \o <<>> = wire
    BY <1>0 DEF TypeOK
  <2>4. Accepted = wire
    BY <2>1, <2>3, Zenon DEF Accepted
  <2> QED BY <2>1, <2>2, <2>4, Zenon
<1>4. TypeOK'
  <2>1. handlerMask' \subseteq Event /\ state' \in {"begin", "header", "page", "closed"}
    BY <1>1
  <2> QED BY <1>0, <1>1, <1>2, <2>1, PlainKinds, StackType DEF TypeOK, call, kernel
<1>8. BytesFit'
  BY <1>0, <1>1, <1>2, PlainKinds, DoneKinds, NoBytes DEF call, kernel
<1>9. ControlFits'
  BY <1>0, <1>1, <1>2, <1>3, <1>4, PlainKinds DEF ControlFits, RequestedOnce,
       DoneFlushes, call, kernel
<1> QED BY <1>8, <1>9 DEF AnswerInv

(* websSocketEvent is called. *)
LEMMA Handles ==
  ASSUME AnswerInv, websSocketEvent
  PROVE  AnswerInv'
<1>0. BytesFit /\ ControlFits /\ TypeOK /\ stack \in AnyStack
  BY DEF AnswerInv, BytesFit, ControlFits
<1>1. /\ UNCHANGED <<code, file, call, outBuf, block, flushing, saveMask,
                     currentEvents, kernel>>
      /\ stack = <<"handler">>
      /\ \/ /\ "readable" \in handlerMask /\ state' = "header"
            /\ handler' = FALSE /\ handlerMask' = {}
            /\ stack' = <<"header", "handled">>
         \/ /\ UNCHANGED <<state, handler, handlerMask>>
            /\ \/ stack' = <<>>
               \/ /\ stack' \in {<<"page", "handled">>, <<"handled">>}
                  /\ handlerMask \cap currentEvents # {}
                  /\ "readable" \notin handlerMask \cap currentEvents
  <2> DEFINE mask == IF handler THEN handlerMask \cap currentEvents ELSE {}
  <2>1. stack = <<"handler">>
    BY <1>0, Tops DEF websSocketEvent
  <2>2. CASE "readable" \in mask
    BY <2>1, <2>2 DEF websSocketEvent, socketDeleteHandler
  <2>3. CASE "readable" \notin mask /\ mask = {}
    BY <2>1, <2>3 DEF websSocketEvent
  <2>4. CASE "readable" \notin mask /\ mask # {}
    BY <2>1, <2>4 DEF websSocketEvent
  <2> QED BY <2>2, <2>3, <2>4, Zenon
<1>2. stack \in InLoop /\ stack # <<>>
  BY <1>1, Members
<1>3. CASE /\ "readable" \in handlerMask /\ state' = "header"
           /\ handler' = FALSE /\ handlerMask' = {}
           /\ stack' = <<"header", "handled">>
  <2>1. stack' \in HeaderLoop /\ file <= HeaderLen
    BY <1>0, <1>3, Members, AnswerAssumption DEF ControlFits, RequestedOnce
  <2>2. handlerMask' \subseteq Event /\ state' \in {"begin", "header", "page", "closed"}
    BY <1>3
  <2>3. TypeOK'
    BY <1>0, <1>1, <1>3, <2>1, <2>2, LoopKinds, StackType, ZenonT(30)
      DEF TypeOK, call, kernel
  <2>4. BytesFit'
    BY <1>0, <1>1, <1>2, <2>1, PlainKinds, LoopKinds, NoBytes DEF call, kernel
  <2>5. ControlFits'
    BY <1>0, <1>1, <1>2, <1>3, <2>1, <2>3, LoopKinds DEF ControlFits,
       ClosedWhenSent, RequestedOnce, DoneFlushes, call, kernel
  <2> QED BY <2>4, <2>5 DEF AnswerInv
<1>4. CASE /\ UNCHANGED <<state, handler, handlerMask>>
           /\ \/ stack' = <<>>
              \/ /\ stack' \in {<<"page", "handled">>, <<"handled">>}
                 /\ handlerMask \cap currentEvents # {}
                 /\ "readable" \notin handlerMask \cap currentEvents
  <2>1. stack' \in InLoop
    BY <1>4, Members, Zenon
  <2>2. "readable" \in handlerMask => stack' = <<>>
    BY <1>0, <1>4 DEF ControlFits, RequestedOnce
  <2>3. RequestedOnce'
    BY <1>0, <1>1, <1>4, <2>2, Members DEF ControlFits, RequestedOnce
  <2>4. BytesFit'
    BY <1>0, <1>1, <1>2, <2>1, PlainKinds, NoBytes DEF call, kernel
  <2>5. ControlFits'
    BY <1>0, <1>1, <1>2, <1>4, <2>1, <2>3, PlainKinds, StackType DEF ControlFits,
       TypeOK, ClosedWhenSent, DoneFlushes, call, kernel
  <2> QED BY <2>4, <2>5 DEF AnswerInv
<1> QED BY <1>1, <1>3, <1>4, Zenon

(* websWriteDataNonBlock flushes. *)
LEMMA PageFlushes ==
  ASSUME AnswerInv, websWriteDataNonBlock
  PROVE  AnswerInv'
<1>0. BytesFit /\ ControlFits /\ TypeOK /\ stack \in AnyStack
  BY DEF AnswerInv, BytesFit, ControlFits
<1>1. /\ UNCHANGED <<wp, call, outBuf, block, events, kernel>>
      /\ stack = <<"pageFlush", "handled">> /\ flushing' \in BOOLEAN
  BY <1>0, Tops DEF websWriteDataNonBlock, CallFlush, TypeOK
<1>2. stack' = <<"socketFlush", "pageNext", "handled">>
  <2>1. <<"socketFlush">> \o <<"pageNext">> = <<"socketFlush", "pageNext">>
    BY Push11, Zenon DEF Frame
  <2>2. <<"socketFlush", "pageNext">> \o <<"handled">>
          = <<"socketFlush", "pageNext", "handled">>
    BY Push21 DEF Frame
  <2>3. Tail(<<"pageFlush", "handled">>) = <<"handled">>
    BY Tails
  <2> QED BY <1>1, <2>1, <2>2, <2>3, Zenon DEF websWriteDataNonBlock,
       CallFlush, Goto
<1>3. stack \in InPage /\ stack' \in InPage
  BY <1>1, <1>2, Members
<1>8. BytesFit'
  BY <1>0, <1>1, <1>3, PageKinds, NoBytes, SMTT(20) DEF wp, call, kernel
<1>9. ControlFits'
  BY <1>0, <1>1, <1>3, PageKinds, StackType DEF ControlFits, TypeOK, ClosedWhenSent,
       RequestedOnce, DoneFlushes, wp, call, events, kernel
<1> QED BY <1>8, <1>9 DEF AnswerInv

(* Nothing is accepted or sent: only the position has to be looked at. *)
LEMMA NothingSent ==
  ASSUME BytesFit, wire' = wire, Contents(outBuf)' = Contents(outBuf),
         broken' = broken, stack' \in AnyStack
  PROVE  Accepted' = Accepted /\ (PositionFits' => BytesFit')
<1>1. Accepted' = Accepted
  BY Zenon DEF Accepted
<1>2. StreamIntact'
  BY DEF BytesFit, StreamIntact, FirstBytes
<1>3. ~broken' => Accepted' = FirstBytes(Len(Accepted'))
  BY <1>1 DEF BytesFit, FirstBytes
<1> QED BY <1>1, <1>2, <1>3 DEF BytesFit

(* The block that is handed to socketWrite. *)
LEMMA BlockOf ==
  ASSUME NEW from \in 1..(AnswerLen + 1), NEW to \in Nat, to <= AnswerLen,
         from <= to + 1, NEW t,
         t = [i \in 1..(to - from + 1) |-> from + i - 1]
  PROVE  t \in Seq(Byte) /\ Len(t) = to - from + 1 /\ Continues(t, from - 1)
<1>1. AnswerLen \in Nat /\ 1..AnswerLen \subseteq Byte
  BY AnswerAssumption
<1>2. to - from + 1 \in Nat
  BY <1>1
<1>3. \A i \in 1..(to - from + 1) : from + i - 1 \in Byte
  BY <1>1
<1>4. t \in Seq(Byte) /\ Len(t) = to - from + 1
  BY <1>2, <1>3
<1>5. \A i \in 1..(to - from + 1) : from + i - 1 = from - 1 + i
  BY <1>1
<1> QED BY <1>4, <1>5 DEF Continues

(* websWriteBlock goes on after a write. *)
LEMMA HeaderWritten ==
  ASSUME AnswerInv, websWriteBlockFlush
  PROVE  AnswerInv'
<1>0. BytesFit /\ ControlFits /\ TypeOK /\ stack \in AnyStack
  BY DEF AnswerInv, BytesFit, ControlFits
<1>1. /\ UNCHANGED <<state, code, call, outBuf, block, events, kernel>>
      /\ stack = <<"headerFlush", "handled">> /\ flushing' \in BOOLEAN
  BY <1>0, Tops, Zenon DEF websWriteBlockFlush, CallFlush, TypeOK
<1>2. /\ Goto(<<"header">>) => stack' = <<"header", "handled">>
      /\ CallFlush(<<"header">>) => stack' = <<"socketFlush", "header", "handled">>
  <2>1. /\ <<"socketFlush">> \o <<"header">> = <<"socketFlush", "header">>
        /\ <<"header">> \o <<"handled">> = <<"header", "handled">>
    BY Push11, Zenon DEF Frame
  <2>2. <<"socketFlush", "header">> \o <<"handled">>
          = <<"socketFlush", "header", "handled">>
    BY Push21 DEF Frame
  <2>3. Tail(<<"headerFlush", "handled">>) = <<"handled">>
    BY Tails
  <2> QED BY <1>1, <2>1, <2>2, <2>3, Zenon DEF CallFlush, Goto
<1>3. stack \in InHeader /\ stack' \in HeaderLoop
  BY <1>1, <1>2, Members DEF websWriteBlockFlush
<1>4. IF wrote < 0 THEN file' = file ELSE file' = file + wrote
  BY DEF websWriteBlockFlush
<1>5. /\ file \in Nat /\ wrote \in Int /\ Len(todo) \in Nat /\ HeaderLen \in Nat
      /\ AnswerLen \in Nat /\ HeaderLen <= AnswerLen
  BY <1>0, AnswerAssumption DEF TypeOK
<1>6. /\ file' \in 0..AnswerLen /\ file' <= HeaderLen
      /\ ~broken => Len(Accepted) = file'
  BY <1>0, <1>3, <1>4, <1>5 DEF BytesFit, PositionFits, ControlFits
<1>7. PositionFits' /\ BytesFit'
  <2>1. /\ Accepted' = Accepted /\ broken' = broken
        /\ PositionFits' => BytesFit'
    BY <1>0, <1>1, <1>3, LoopKinds, NothingSent DEF kernel
  <2>2. PositionFits'
    BY <1>3, <1>6, <2>1, LoopKinds DEF PositionFits
  <2> QED BY <2>1, <2>2
<1>8. BytesFit'
  BY <1>7
<1>9. ControlFits'
  <2>1. TypeOK'
    BY <1>0, <1>1, <1>3, <1>6, LoopKinds, StackType DEF TypeOK, call, events, kernel
  <2>2. RequestedOnce' /\ DoneFlushes' /\ ClosedWhenSent'
    BY <1>0, <1>1, <1>3, LoopKinds, HeaderKinds DEF ControlFits, ClosedWhenSent,
       RequestedOnce, DoneFlushes, events, kernel
  <2> QED BY <1>0, <1>1, <2>1, <2>2 DEF ControlFits, call, kernel
<1> QED BY <1>8, <1>9 DEF AnswerInv

(* websWriteBlock writes the header, or websDefaultHandler goes on. *)
LEMMA HeaderBegins ==
  ASSUME AnswerInv, websWriteBlock
  PROVE  AnswerInv'
<1>0. BytesFit /\ ControlFits /\ TypeOK /\ stack \in AnyStack
  BY DEF AnswerInv, BytesFit, ControlFits
<1>1. /\ UNCHANGED <<flushed, outBuf, block, flushing, saveMask, currentEvents,
                     kernel>>
      /\ stack = <<"header", "handled">> /\ code' = code
  BY <1>0, Tops DEF websWriteBlock, wp
<1>2. /\ file \in Nat /\ wrote \in Int /\ HeaderLen \in Nat
      /\ AnswerLen \in Nat /\ HeaderLen <= AnswerLen
  BY <1>0, AnswerAssumption DEF TypeOK
<1>3. stack \in HeaderLoop /\ file <= HeaderLen /\ (~broken => Len(Accepted) = file)
  BY <1>0, <1>1, Members, LoopKinds DEF BytesFit, PositionFits
<1>4. CASE file < HeaderLen /\ wrote >= 0
  <2>1. /\ UNCHANGED <<wp, handler, handlerMask>> /\ wrote' = 0
        /\ todo' = [i \in 1..(HeaderLen - (file + 1) + 1) |-> (file + 1) + i - 1]
        /\ Goto(<<"socketWrite">> \o <<"headerFlush">>)
    BY <1>4 DEF websWriteBlock, CallWrite
  <2>2. stack' = <<"socketWrite", "headerFlush", "handled">>
    <3>1. <<"socketWrite">> \o <<"headerFlush">> = <<"socketWrite", "headerFlush">>
      BY Push11, Zenon DEF Frame
    <3>2. <<"socketWrite", "headerFlush">> \o <<"handled">>
            = <<"socketWrite", "headerFlush", "handled">>
      BY Push21 DEF Frame
    <3>3. Tail(<<"header", "handled">>) = <<"handled">>
      BY Tails
    <3> QED BY <1>1, <2>1, <3>1, <3>2, <3>3, Zenon DEF Goto
  <2>3. stack' \in InHeader
    BY <2>2, Members
  <2>4. /\ todo' \in Seq(Byte) /\ Len(todo') = HeaderLen - file
        /\ Continues(todo', file)
    <3>1. /\ file + 1 \in 1..(AnswerLen + 1) /\ file + 1 <= HeaderLen + 1
          /\ HeaderLen - (file + 1) + 1 = HeaderLen - file /\ (file + 1) - 1 = file
      BY <1>2, <1>4
    <3>2. /\ todo' \in Seq(Byte) /\ Len(todo') = HeaderLen - (file + 1) + 1
          /\ Continues(todo', (file + 1) - 1)
      BY <1>2, <2>1, <3>1, BlockOf, Zenon
    <3> QED BY <3>1, <3>2
  <2>5. BytesFit'
    <3>1. /\ Accepted' = Accepted /\ broken' = broken /\ file' = file
          /\ PositionFits' => BytesFit'
      BY <1>0, <1>1, <2>1, <2>3, HeaderKinds, NothingSent DEF kernel, wp
    <3>2. ~broken' => Continues(todo, Len(Accepted))'
      BY <1>3, <2>4, <3>1, Zenon DEF Continues
    <3>3. /\ stack' \in InHeader /\ stack' \notin InPage /\ stack' \notin HeaderLoop
          /\ wrote' = 0 /\ file' + 0 + Len(todo') = HeaderLen /\ file' <= HeaderLen
          /\ ~broken' => Len(Accepted') = file' + 0
      BY <1>2, <1>3, <2>1, <2>3, <2>4, <3>1, HeaderKinds
    <3>4. PositionFits'
      BY <3>2, <3>3 DEF PositionFits
    <3> QED BY <3>1, <3>4
  <2>6. TypeOK'
    BY <1>0, <1>1, <2>1, <2>3, <2>4, HeaderKinds, StackType, SMTT(20)
      DEF TypeOK, wp, kernel
  <2>7. RequestedOnce' /\ DoneFlushes' /\ ClosedWhenSent'
    BY <1>0, <1>1, <1>3, <2>1, <2>3, LoopKinds, HeaderKinds DEF ControlFits,
       ClosedWhenSent, RequestedOnce, DoneFlushes, wp, kernel
  <2>8. ControlFits'
    BY <1>0, <1>1, <2>1, <2>6, <2>7 DEF ControlFits, kernel
  <2> QED BY <2>5, <2>8 DEF AnswerInv
<1>5. CASE ~(file < HeaderLen /\ wrote >= 0)
  <2>1. /\ state' = "page" /\ file' = HeaderLen /\ handler' = TRUE
        /\ handlerMask' = {"writable"} /\ UNCHANGED <<todo, wrote>> /\ Return
    BY <1>5 DEF websWriteBlock, websSetRequestSocketHandler, socketCreateHandler
  <2>2. stack' = <<"handled">>
    BY <1>1, <2>1, Tails, Zenon DEF Return
  <2>3. stack' \in InLoop
    BY <2>2, Members
  <2>4. ~broken => file = HeaderLen
    BY <1>0, <1>2, <1>3, <1>5 DEF ControlFits
  <2>5. BytesFit'
    <3>1. /\ Accepted' = Accepted /\ broken' = broken
          /\ PositionFits' => BytesFit'
      BY <1>0, <1>1, <2>3, PlainKinds, NothingSent DEF kernel
    <3>2. PositionFits'
      BY <1>3, <2>1, <2>3, <2>4, <3>1, PlainKinds DEF PositionFits
    <3> QED BY <3>1, <3>2
  <2>6. TypeOK'
    <3>1. /\ handlerMask' \subseteq Event /\ file' \in 0..AnswerLen
          /\ state' \in {"begin", "header", "page", "closed"}
      BY <1>2, <2>1 DEF Event
    <3> QED BY <1>0, <1>1, <2>1, <2>3, <3>1, PlainKinds, StackType DEF TypeOK,
       kernel
  <2>7. RequestedOnce' /\ DoneFlushes' /\ ClosedWhenSent'
    <3>1. "readable" \notin handlerMask' /\ state' # "closed"
      BY <2>1
    <3> QED BY <1>0, <1>1, <2>3, <3>1, PlainKinds DEF ControlFits,
       ClosedWhenSent, RequestedOnce, DoneFlushes
  <2>8. ControlFits'
    BY <1>0, <1>1, <2>1, <2>6, <2>7 DEF ControlFits, kernel
  <2> QED BY <2>5, <2>8 DEF AnswerInv
<1> QED BY <1>4, <1>5

(* websDefaultWriteEvent reads a piece of the page, or ends the request. *)
LEMMA PageRead ==
  ASSUME AnswerInv, websDefaultWriteEvent
  PROVE  AnswerInv'
<1>0. BytesFit /\ ControlFits /\ TypeOK /\ stack \in AnyStack
  BY DEF AnswerInv, BytesFit, ControlFits
<1>1. /\ UNCHANGED <<state, flushed, outBuf, flushing, kernel>>
      /\ stack = <<"page", "handled">>
  BY <1>0, Tops DEF websDefaultWriteEvent
<1>2. /\ file \in Nat /\ AnswerLen \in Nat /\ file <= AnswerLen
      /\ PAGE_READ_BUFSIZE \in Nat /\ PAGE_READ_BUFSIZE > 0
  BY <1>0, AnswerAssumption DEF TypeOK
<1>3. stack \in InLoop /\ stack \notin Waiting /\ (~broken => Len(Accepted) = file)
  BY <1>0, <1>1, Members, PlainKinds DEF BytesFit, PositionFits
<1>4. CASE file < AnswerLen
  <2> DEFINE len == Lesser(PAGE_READ_BUFSIZE, AnswerLen - file)
  <2>1. /\ UNCHANGED <<code, handler, handlerMask, block, saveMask, currentEvents>>
        /\ wrote' = 0 /\ file' = file + len
        /\ todo' = [i \in 1..((file + len) - (file + 1) + 1) |-> (file + 1) + i - 1]
        /\ Goto(<<"socketWrite">> \o <<"pageFlush">>)
    BY <1>4 DEF websDefaultWriteEvent, CallWrite
  <2>2. stack' = <<"socketWrite", "pageFlush", "handled">>
    <3>1. <<"socketWrite">> \o <<"pageFlush">> = <<"socketWrite", "pageFlush">>
      BY Push11, Zenon DEF Frame
    <3>2. <<"socketWrite", "pageFlush">> \o <<"handled">>
            = <<"socketWrite", "pageFlush", "handled">>
      BY Push21, Zenon DEF Frame
    <3>3. Tail(<<"page", "handled">>) = <<"handled">>
      BY Tails
    <3> QED BY <1>1, <2>1, <3>1, <3>2, <3>3, Zenon DEF Goto
  <2>3. stack' \in InPage
    BY <2>2, Members
  <2>4. len \in Nat /\ len >= 1 /\ file + len <= AnswerLen
    BY <1>2, <1>4 DEF Lesser
  <2> HIDE DEF len
  <2>5. /\ todo' \in Seq(Byte) /\ Len(todo') = len /\ Continues(todo', file)
    <3>1. /\ file + 1 \in 1..(AnswerLen + 1) /\ file + 1 <= (file + len) + 1
          /\ (file + len) - (file + 1) + 1 = len /\ (file + 1) - 1 = file
          /\ file + len \in Nat
      BY <1>2, <1>4, <2>4
    <3>2. /\ todo' \in Seq(Byte) /\ Len(todo') = (file + len) - (file + 1) + 1
          /\ Continues(todo', (file + 1) - 1)
      BY <2>1, <2>4, <3>1, BlockOf, Zenon
    <3> QED BY <3>1, <3>2
  <2>6. BytesFit'
    <3>1. /\ Accepted' = Accepted /\ broken' = broken
          /\ PositionFits' => BytesFit'
      BY <1>0, <1>1, <2>3, PageKinds, NothingSent DEF kernel
    <3>2. ~broken' => Continues(todo, Len(Accepted))'
      BY <1>3, <2>5, <3>1 DEF Continues
    <3>3. file' = file + len /\ Len(todo') = len
      BY <2>1, <2>5, Zenon
    <3>4. Len(todo') <= file' /\ file' - Len(todo') = file
      BY <1>2, <2>4, <3>3
    <3>5. stack' \in InPage /\ stack' \notin InHeader /\ stack' \notin HeaderLoop
      BY <2>3, PageKinds
    <3>6. PositionFits'
      BY <1>3, <3>1, <3>2, <3>4, <3>5, SMTT(20) DEF PositionFits
    <3> QED BY <3>1, <3>6
  <2>7. TypeOK'
    <3>1. file' \in 0..AnswerLen
      BY <1>2, <2>1, <2>4
    <3>2. stack' \in Seq(Frame)
      BY <2>3, PageKinds, StackType, Zenon
    <3> QED BY <1>0, <1>1, <2>1, <2>5, <3>1, <3>2, SMTT(20) DEF TypeOK, kernel
  <2>8. RequestedOnce' /\ DoneFlushes' /\ ClosedWhenSent'
    BY <1>0, <1>1, <1>3, <2>1, <2>3, PlainKinds, PageKinds DEF ControlFits,
       ClosedWhenSent, RequestedOnce, DoneFlushes, kernel
  <2>9. ControlFits'
    BY <1>0, <1>1, <2>1, <2>7, <2>8 DEF ControlFits, kernel
  <2> QED BY <2>6, <2>9 DEF AnswerInv
<1>5. CASE ~(file < AnswerLen)
  <2>1. /\ UNCHANGED <<file, todo, wrote, saveMask, currentEvents>>
        /\ code' = 200 /\ handler' = FALSE /\ handlerMask' = {} /\ block' = TRUE
        /\ stack' = <<"socketFlush", "close">>
    BY <1>5 DEF websDefaultWriteEvent, websDone, socketDeleteHandler, socketSetBlock
  <2>2. stack' \in InDone /\ stack' # <<"close">> /\ file = AnswerLen
    BY <1>2, <1>5, <2>1, Members
  <2>3. BytesFit'
    BY <1>0, <1>1, <1>3, <2>1, <2>2, PlainKinds, DoneKinds, NoBytes, SMTT(20)
      DEF kernel
  <2>4. TypeOK'
    <3>1. handlerMask' \subseteq Event /\ code' \in {0, 200, 404}
      BY <2>1
    <3> QED BY <1>0, <1>1, <2>1, <2>2, <3>1, DoneKinds, StackType, ZenonT(30)
      DEF TypeOK, kernel
  <2>5. RequestedOnce'
    BY <1>0, <2>1 DEF ControlFits, RequestedOnce
  <2>6. state # "closed"
    BY <1>0, <1>1 DEF ControlFits, DoneFlushes
  <2>7. DoneFlushes' /\ ClosedWhenSent'
    BY <1>1, <2>1, <2>2, <2>6 DEF DoneFlushes, ClosedWhenSent
  <2>8. ControlFits'
    BY <1>0, <1>1, <2>1, <2>4, <2>5, <2>7 DEF ControlFits, kernel
  <2> QED BY <2>3, <2>8 DEF AnswerInv
<1> QED BY <1>4, <1>5

(* websDefaultWriteEvent goes on after a write. *)
LEMMA PageWritten ==
  ASSUME AnswerInv, websWritten
  PROVE  AnswerInv'
<1>0. BytesFit /\ ControlFits /\ TypeOK /\ stack \in AnyStack
  BY DEF AnswerInv, BytesFit, ControlFits
<1>1. /\ UNCHANGED <<state, call, outBuf, flushing, kernel>>
      /\ stack = <<"pageNext", "handled">>
  BY <1>0, Tops DEF websWritten
<1>2. /\ file \in Nat /\ AnswerLen \in Nat /\ file <= AnswerLen /\ Len(todo) \in Nat
      /\ (todo = <<>> => Len(todo) = 0)
  BY <1>0, AnswerAssumption DEF TypeOK
<1>3. /\ stack \in InPage /\ Len(todo) <= file
      /\ ~broken => Len(Accepted) = file - Len(todo)
  BY <1>0, <1>1, Members DEF BytesFit, PositionFits
<1>4. CASE wrote < 0 /\ websDone(200) /\ UNCHANGED file
  <2>1. /\ UNCHANGED <<file, saveMask, currentEvents>>
        /\ code' = 200 /\ handler' = FALSE /\ handlerMask' = {} /\ block' = TRUE
        /\ stack' = <<"socketFlush", "close">> /\ broken
    BY <1>0, <1>4 DEF websDone, socketDeleteHandler, socketSetBlock, ControlFits
  <2>2. stack' \in InDone /\ stack' # <<"close">>
    BY <2>1, Members
  <2>3. BytesFit'
    <3>1. /\ broken' = broken /\ (PositionFits' => BytesFit')
      BY <1>0, <1>1, <2>2, DoneKinds, NothingSent DEF kernel
    <3>2. PositionFits'
      BY <2>1, <2>2, <3>1, DoneKinds DEF PositionFits
    <3> QED BY <3>1, <3>2
  <2>4. TypeOK'
    <3>1. handlerMask' \subseteq Event /\ code' \in {0, 200, 404}
      BY <2>1
    <3> QED BY <1>0, <1>1, <2>1, <2>2, <3>1, DoneKinds, StackType, ZenonT(30)
      DEF TypeOK, call, kernel
  <2>5. RequestedOnce'
    BY <1>0, <2>1 DEF ControlFits, RequestedOnce
  <2>6. state # "closed"
    BY <1>0, <1>1 DEF ControlFits, DoneFlushes
  <2>7. DoneFlushes' /\ ClosedWhenSent'
    BY <1>1, <2>1, <2>2, <2>6 DEF DoneFlushes, ClosedWhenSent, kernel
  <2>8. ControlFits'
    BY <1>0, <1>1, <2>1, <2>4, <2>5, <2>7 DEF ControlFits, call, kernel
  <2> QED BY <2>3, <2>8 DEF AnswerInv
<1>5. CASE /\ UNCHANGED <<code, block, events>>
           /\ \/ file' = file - Len(todo) /\ Return
              \/ todo = <<>> /\ file' = file /\ Goto(<<"page">>)
  <2>1. /\ Return => stack' = <<"handled">>
        /\ Goto(<<"page">>) => stack' = <<"page", "handled">>
    <3>1. <<"page">> \o <<"handled">> = <<"page", "handled">>
      BY Push11, Zenon DEF Frame
    <3>2. Tail(<<"pageNext", "handled">>) = <<"handled">>
      BY Tails
    <3> QED BY <1>1, <3>1, <3>2, Zenon DEF Return, Goto
  <2>2. stack' \in InLoop
    BY <1>5, <2>1, Members
  <2>3. file' = file - Len(todo)
    BY <1>2, <1>5
  <2>4. BytesFit'
    <3>1. /\ Accepted' = Accepted /\ broken' = broken
          /\ PositionFits' => BytesFit'
      BY <1>0, <1>1, <2>2, PlainKinds, NothingSent, Zenon DEF kernel
    <3>2. stack' \notin InHeader /\ stack' \notin HeaderLoop /\ stack' \notin InPage
      BY <2>2, PlainKinds, Zenon
    <3>3. PositionFits'
      BY <1>3, <2>3, <3>1, <3>2 DEF PositionFits
    <3> QED BY <3>1, <3>3
  <2>5. TypeOK'
    <3>1. file' \in 0..AnswerLen
      BY <1>2, <1>3, <2>3
    <3> QED BY <1>0, <1>1, <1>5, <2>2, <3>1, PlainKinds, StackType DEF TypeOK, call,
              events, kernel
  <2>6. RequestedOnce' /\ DoneFlushes' /\ ClosedWhenSent'
    BY <1>0, <1>1, <1>3, <1>5, <2>2, PlainKinds, PageKinds DEF ControlFits,
       ClosedWhenSent, RequestedOnce, DoneFlushes, events, kernel
  <2>7. ControlFits'
    BY <1>0, <1>1, <2>5, <2>6 DEF ControlFits, call, kernel
  <2> QED BY <2>4, <2>7 DEF AnswerInv
<1> QED BY <1>4, <1>5 DEF websWritten, websPageSeek

(* socketWrite copies as much as fits into the output queue. *)
LEMMA Copies ==
  ASSUME AnswerInv, socketWrite
  PROVE  AnswerInv'
<1>0. BytesFit /\ ControlFits /\ TypeOK /\ stack \in AnyStack
  BY DEF AnswerInv, BytesFit, ControlFits
<1> DEFINE n == Lesser(ringqPutBlkMax(outBuf), Len(todo))
           rest == SubSeq(todo, n + 1, Len(todo))
<1>1. /\ UNCHANGED <<stack, wp, flushed, block, flushing, events, kernel>>
      /\ outBuf' = CopyIn(outBuf, todo, n) /\ todo' = rest /\ wrote' = wrote + n
  BY DEF socketWrite
<1>2. PICK c \in {"headerFlush", "pageFlush"} :
        stack = <<"socketWrite", c, "handled">>
  BY <1>0, Tops DEF socketWrite
<1>3. stack \in Writing(c)
  BY <1>2 DEF Writing
<1>4. /\ todo \in Seq(Byte) /\ IsRingq(outBuf) /\ wire \in Seq(Byte)
      /\ Contents(outBuf) \in Seq(Byte) /\ wrote \in Int /\ file \in Nat
  BY <1>0 DEF TypeOK, BytesFit
<1>5. n \in 0..Len(todo) /\ n <= ringqPutBlkMax(outBuf) /\ Len(todo) \in Nat
  <2>1. ringqPutBlkMax(outBuf) \in Nat /\ Len(todo) \in Nat
    BY <1>4, Room
  <2> QED BY <2>1 DEF Lesser
<1>6. rest \in Seq(Byte) /\ Len(rest) = Len(todo) - n
  BY <1>4, <1>5, SMTT(20)
<1> DEFINE part == SubSeq(todo, 1, n)
<1>7. part \in Seq(Byte) /\ Len(part) = n
  BY <1>4, <1>5
<1>c. IsRingq(outBuf') /\ Contents(outBuf') = Contents(outBuf) \o part
  BY <1>1, <1>4, <1>5, CopyInProp, Zenon
<1>a. Accepted' = Accepted \o part
  <2> HIDE DEF part
  <2>1. (wire \o Contents(outBuf)) \o part = wire \o (Contents(outBuf) \o part)
    BY <1>4, <1>7, Assoc, ZenonT(30)
  <2> QED BY <1>1, <1>c, <2>1, Zenon DEF Accepted, kernel
<1>t. /\ Accepted \in Seq(Byte) /\ Len(Accepted') = Len(Accepted) + n
      /\ Contents(outBuf') \in Seq(Byte)
  <2>1. Accepted \in Seq(Byte)
    BY <1>4 DEF Accepted
  <2>2. Contents(outBuf) \o part \in Seq(Byte)
    BY <1>4, <1>7
  <2>3. Len(Accepted \o part) = Len(Accepted) + n
    BY <1>7, <2>1
  <2> QED BY <1>a, <1>c, <2>1, <2>2, <2>3
<1> HIDE DEF n, rest, part
<1>k. stack \in InHeader \/ stack \in InPage
  BY <1>3 DEF InHeader, InPage
<1>b. ~broken => /\ Accepted' = FirstBytes(Len(Accepted'))
                 /\ Continues(rest, Len(Accepted) + n)
  <2> SUFFICES ASSUME ~broken PROVE /\ Accepted' = FirstBytes(Len(Accepted'))
                                   /\ Continues(rest, Len(Accepted) + n)
    OBVIOUS
  <2>1. Accepted = FirstBytes(Len(Accepted)) /\ Continues(todo, Len(Accepted))
    BY <1>0, <1>k DEF BytesFit, PositionFits
  <2>2. /\ Accepted \o part = FirstBytes(Len(Accepted) + n)
        /\ Continues(rest, Len(Accepted) + n)
    BY <1>4, <1>5, <1>t, <2>1, Lengthened, Zenon DEF part, rest
  <2> QED BY <1>a, <1>t, <2>2, Zenon
<1>p. PositionFits'
  <2>1. /\ stack' = stack /\ broken' = broken /\ file' = file
        /\ todo' = rest /\ wrote' = wrote + n
    BY <1>1 DEF wp, kernel
  <2>2. ~broken' => Continues(todo, Len(Accepted))'
    BY <1>b, <1>t, <2>1 DEF Continues
  <2>3. /\ n \in Nat /\ Len(todo) \in Nat /\ n <= Len(todo)
        /\ Len(rest) = Len(todo) - n /\ Len(Accepted) \in Nat
        /\ wrote \in Int /\ file \in Nat /\ HeaderLen \in Nat
    BY <1>4, <1>5, <1>6, <1>t, AnswerAssumption
  <2>4. CASE c = "headerFlush"
    <3>1. stack \in InHeader /\ stack \in Writing("headerFlush")
      BY <1>3, <2>4 DEF InHeader
    <3>2. /\ stack \notin InPage /\ wrote >= 0 /\ file <= HeaderLen
          /\ file + wrote + Len(todo) = HeaderLen
          /\ ~broken => Len(Accepted) = file + wrote
      BY <1>0, <2>3, <3>1, HeaderKinds DEF BytesFit, PositionFits
    <3>3. /\ wrote' >= 0 /\ file' + wrote' + Len(todo') = HeaderLen
          /\ file' <= HeaderLen /\ (~broken' => Len(Accepted') = file' + wrote')
      BY <1>t, <2>1, <2>3, <3>2, SMTT(20)
    <3>4. wrote' \in Int /\ stack' \in InHeader /\ stack' \notin InPage
      BY <2>1, <2>3, <3>1, <3>2
    <3> QED BY <2>2, <3>3, <3>4 DEF PositionFits
  <2>5. CASE c = "pageFlush"
    <3>1. stack \in InPage
      BY <1>3, <2>5 DEF InPage
    <3>2. /\ stack \notin InHeader /\ stack \notin HeaderLoop
          /\ Len(todo) <= file /\ (~broken => Len(Accepted) = file - Len(todo))
      BY <1>0, <3>1, PageKinds DEF BytesFit, PositionFits
    <3>3. Len(todo') <= file' /\ (~broken' => Len(Accepted') = file' - Len(todo'))
      BY <1>t, <2>1, <2>3, <3>2
    <3> QED BY <2>1, <2>2, <3>1, <3>2, <3>3 DEF PositionFits
  <2> QED BY <2>4, <2>5
<1>8. BytesFit'
  <2>1. StreamIntact'
    BY <1>0, <1>1 DEF BytesFit, StreamIntact, FirstBytes, kernel
  <2> QED BY <1>0, <1>1, <1>b, <1>p, <1>t, <2>1 DEF BytesFit, kernel
<1>9. ControlFits'
  <2>1. wrote' \in Int /\ (wrote' < 0 => wrote < 0)
    BY <1>1, <1>4, <1>5
  <2>2. TypeOK'
    BY <1>0, <1>1, <1>6, <1>c, <2>1 DEF TypeOK, wp, events, kernel
  <2>3. stack \notin Waiting /\ stack \notin InDone
    BY <1>3, WriteStacks
  <2>4. RequestedOnce' /\ DoneFlushes' /\ ClosedWhenSent'
    BY <1>0, <1>1, <2>3 DEF ControlFits, RequestedOnce, DoneFlushes, ClosedWhenSent,
       wp, events, kernel
  <2> QED BY <1>0, <1>1, <2>1, <2>2, <2>4 DEF ControlFits, kernel
<1> QED BY <1>8, <1>9 DEF AnswerInv

(* send takes some of the first straight line of the output queue. *)
LEMMA Sends ==
  ASSUME AnswerInv, socketDoOutput
  PROVE  AnswerInv'
<1>0. BytesFit /\ ControlFits /\ TypeOK /\ stack \in AnyStack
  BY DEF AnswerInv, BytesFit, ControlFits
<1>1. PICK n \in 1..Lesser(ringqGetBlkMax(outBuf), KernelRoom) :
        /\ wire' = wire \o [i \in 1..n |-> outBuf.buf[outBuf.servp + i - 1]]
        /\ outBuf' = ringqGetBlkAdj(outBuf, n)
  BY DEF socketDoOutput
<1>2. /\ UNCHANGED <<stack, wp, call, block, flushing, events, acked, broken>>
      /\ ~broken /\ Running("socketFlush") /\ ringqLen(outBuf) > 0
  BY DEF socketDoOutput
<1>3. /\ IsRingq(outBuf) /\ wire \in Seq(Byte) /\ Contents(outBuf) \in Seq(Byte)
      /\ acked \in 0..Len(wire)
  BY <1>0 DEF TypeOK, BytesFit
<1>4. n \in 0..ringqGetBlkMax(outBuf)
  <2>1. ringqGetBlkMax(outBuf) \in Nat
    BY <1>3, Room
  <2>2. KernelRoom \in Int
    BY <1>3, AnswerAssumption DEF KernelRoom
  <2> QED BY <1>1, <2>1, <2>2 DEF Lesser
<1> DEFINE part == [i \in 1..n |-> outBuf.buf[outBuf.servp + i - 1]]
<1>5. /\ part \in Seq(Cell) /\ IsRingq(outBuf')
      /\ Contents(outBuf) = part \o Contents(outBuf')
  BY <1>1, <1>3, <1>4, StraightLine, GetBlkAdjProp, Zenon
<1>6. wire' = wire \o part
  BY <1>1
<1> HIDE DEF part
<1>7. part \in Seq(Byte) /\ Contents(outBuf') \in Seq(Byte)
  BY <1>3, <1>5, Taken, Zenon
<1>a. Accepted' = Accepted
  <2>1. (wire \o part) \o Contents(outBuf') = wire \o (part \o Contents(outBuf'))
    BY <1>3, <1>7, Assoc, Zenon
  <2> QED BY <1>5, <1>6, <2>1, Zenon DEF Accepted
<1>w. wire' \in Seq(Byte) /\ acked' \in 0..Len(wire')
  <2>1. wire \o part \in Seq(Byte) /\ Len(wire \o part) = Len(wire) + Len(part)
    BY <1>3, <1>7
  <2>2. Len(part) \in Nat /\ Len(wire) \in Nat
    BY <1>3, <1>7
  <2> QED BY <1>2, <1>3, <1>6, <2>1, <2>2
<1>8. BytesFit'
  <2>1. Accepted = FirstBytes(Len(Accepted))
    BY <1>0, <1>2 DEF BytesFit
  <2>2. wire' \o Contents(outBuf') = FirstBytes(Len(wire' \o Contents(outBuf')))
    BY <1>a, <2>1, Zenon DEF Accepted
  <2>3. wire' = FirstBytes(Len(wire'))
    BY <1>7, <1>w, <2>2, Prefixes, Zenon
  <2>4. StreamIntact'
    BY <2>3 DEF StreamIntact, FirstBytes
  <2>5. ~broken' => Accepted' = FirstBytes(Len(Accepted'))
    BY <1>a, <2>1, Zenon
  <2>6. Continues(todo, Len(Accepted))' <=> Continues(todo, Len(Accepted))
    BY <1>2, <1>a DEF Continues, call
  <2>7. PositionFits'
    BY <1>0, <1>2, <1>a, <2>6 DEF BytesFit, PositionFits, wp, call
  <2> QED BY <1>0, <1>2, <1>7, <2>4, <2>5, <2>7 DEF BytesFit, FirstBytes
<1>9. ControlFits'
  <2>1. TypeOK'
    BY <1>0, <1>2, <1>5, <1>w DEF TypeOK, wp, call, events
  <2>2. stack # <<>> /\ stack \notin Waiting /\ stack # <<"close">>
    BY <1>2 DEF Running, Waiting
  <2>3. RequestedOnce' /\ DoneFlushes' /\ ClosedWhenSent'
    BY <1>0, <1>2, <2>2 DEF ControlFits, RequestedOnce, DoneFlushes, ClosedWhenSent,
       wp, events
  <2> QED BY <1>0, <1>2, <2>1, <2>3 DEF ControlFits, call
<1> QED BY <1>8, <1>9 DEF AnswerInv

(* A request that websAccept has just begun. *)
LEMMA Begins ==
  ASSUME Init
  PROVE  AnswerInv
<1>1. IsRingq(outBuf) /\ Contents(outBuf) = <<>>
  BY OpenProp, AnswerAssumption DEF Init
<1>2. /\ stack = <<>> /\ wire = <<>> /\ todo = <<>> /\ file = 0 /\ wrote = 0
      /\ flushed = 0 /\ state = "begin" /\ code = 0 /\ block = FALSE
      /\ flushing = FALSE /\ handler = TRUE /\ handlerMask = {"readable"}
      /\ saveMask = None /\ currentEvents = {} /\ acked = 0 /\ broken = FALSE
  BY DEF Init
<1>3. stack \in InLoop /\ stack \in Waiting
  BY <1>2, Members
<1>4. <<>> \o <<>> = <<>> /\ FirstBytes(0) = <<>> /\ Len(<<>>) = 0
  BY DEF FirstBytes
<1>5. Accepted = <<>>
  BY <1>1, <1>2, <1>4, Zenon DEF Accepted
<1>8. BytesFit
  <2>1. PositionFits
    BY <1>2, <1>3, <1>4, <1>5, PlainKinds DEF PositionFits
  <2> QED BY <1>1, <1>2, <1>3, <1>4, <1>5, <2>1, PlainKinds DEF BytesFit,
       StreamIntact
<1>9. ControlFits
  <2>1. /\ handlerMask \subseteq Event /\ saveMask \in (SUBSET Event) \cup {None}
        /\ currentEvents \subseteq Event
    BY <1>2 DEF Event
  <2>2. file \in 0..AnswerLen /\ todo \in Seq(Byte) /\ wire \in Seq(Byte)
        /\ acked \in 0..Len(wire) /\ stack \in Seq(Frame)
    BY <1>2, AnswerAssumption
  <2>3. /\ state \in {"begin", "header", "page", "closed"} /\ code \in {0, 200, 404}
        /\ wrote \in Int /\ flushed \in {0, -1}
    BY <1>2
  <2>6. /\ block \in BOOLEAN /\ flushing \in BOOLEAN /\ handler \in BOOLEAN
        /\ broken \in BOOLEAN
    BY <1>2, Zenon
  <2>7. TypeOK
    BY <1>1, <2>1, <2>2, <2>3, <2>6, Zenon DEF TypeOK
  <2>4. RequestedOnce
    BY <1>1, <1>2, <1>3 DEF RequestedOnce, None
  <2>5. DoneFlushes /\ ClosedWhenSent
    BY <1>2, <1>3, PlainKinds DEF DoneFlushes, ClosedWhenSent
  <2> QED BY <1>2, <2>4, <2>5, <2>7 DEF ControlFits
<1> QED BY <1>8, <1>9 DEF AnswerInv

(* A step that changes nothing. *)
LEMMA Stutters ==
  ASSUME AnswerInv, UNCHANGED vars
  PROVE  AnswerInv'
<1>0. BytesFit /\ ControlFits /\ TypeOK /\ stack \in AnyStack
  BY DEF AnswerInv, BytesFit, ControlFits
<1>1. /\ UNCHANGED <<stack, state, code, file, todo, wrote, flushed, outBuf>>
      /\ UNCHANGED <<block, flushing, handler, handlerMask, saveMask>>
      /\ UNCHANGED <<currentEvents, wire, acked, broken>>
  BY Zenon DEF vars
<1>2. Contents(outBuf)' = Contents(outBuf)
  BY <1>1, Zenon
<1>3. /\ stack \in HeaderLoop => file <= HeaderLen
      /\ stack' = stack /\ file' = file /\ todo' = todo /\ wrote' = wrote
      /\ wire' = wire /\ broken' = broken
  BY <1>0, <1>1 DEF BytesFit, PositionFits
<1>8. BytesFit'
  BY <1>0, <1>2, <1>3, NoBytes, Zenon
<1>9. ControlFits'
  BY <1>0, <1>1 DEF ControlFits, TypeOK, ClosedWhenSent, RequestedOnce, DoneFlushes
<1> QED BY <1>8, <1>9 DEF AnswerInv

-----------------------------------------------------------------------------
(* The theorems.                                                           *)

(* AnswerInv holds throughout: where the header or the page is read next,  *)
(* what socketWrite still has to copy, the output queue and what has been  *)
(* sent always fit together.                                               *)
THEOREM AnswerFits == Spec => []AnswerInv
<1>1. Init => AnswerInv
  BY Begins
<1>2. AnswerInv /\ [Next]_vars => AnswerInv'
  <2> SUFFICES ASSUME AnswerInv, [Next]_vars PROVE AnswerInv'
    OBVIOUS
  <2>1. CASE socketWrite \/ socketWriteFull \/ socketWriteFlushed \/ socketWriteEnd
    BY <2>1, Copies, Full, Flushed, Written, Zenon
  <2>2. CASE \/ socketDoOutput \/ socketFlushLater \/ socketFlushError
             \/ socketFlushEnd
    BY <2>2, Sends, FlushedLater, FlushFails, FlushEnds, Zenon
  <2>3. CASE Close \/ websWriteBlock \/ websWriteBlockFlush
    BY <2>3, Closes, HeaderBegins, HeaderWritten, Zenon
  <2>4. CASE websDefaultWriteEvent \/ websWriteDataNonBlock \/ websWritten
    BY <2>4, PageRead, PageFlushes, PageWritten, Zenon
  <2>5. CASE socketSelect \/ socketDoEvent \/ websSocketEvent \/ socketDoEventEnd
    BY <2>5, Selects, EventBegins, Handles, EventEnds, Zenon
  <2>6. CASE websTimeout \/ Receive \/ Reset
    BY <2>6, TimesOut, PeerReads, PeerResets, Zenon
  <2>7. CASE UNCHANGED vars
    BY <2>7, Stutters, Zenon
  <2> QED BY <2>1, <2>2, <2>3, <2>4, <2>5, <2>6, <2>7, Zenon DEF Next, Server
<1> QED BY <1>1, <1>2, PTL DEF Spec

(* The output queue stays well formed and the position in the answer       *)
(* inside it, whatever socketDoOutput sends and websDone, the handlers and *)
(* the background flush do to the connection.                              *)
THEOREM AnswerTypes == Spec => []TypeOK
<1>1. AnswerInv => TypeOK
  BY DEF AnswerInv, ControlFits
<1> QED BY <1>1, AnswerFits, PTL

(* What socketFlush has sent is the beginning of the answer, without a gap *)
(* or a repetition, whatever writes are short, however the output queue    *)
(* wraps and whoever flushes it.                                           *)
THEOREM AnswerInOrder == Spec => []StreamIntact
<1>1. AnswerInv => StreamIntact
  BY DEF AnswerInv, BytesFit
<1> QED BY <1>1, AnswerFits, PTL

(* websDone(wp, 200) closes a connection that the peer has not reset only  *)
(* when the whole answer has been sent.                                    *)
THEOREM AnswerComplete == Spec => []ClosedWhenSent
<1>1. AnswerInv => ClosedWhenSent
  BY DEF AnswerInv, ControlFits
<1> QED BY <1>1, AnswerFits, PTL

=============================================================================
