----------------------------- MODULE WebAnswer -----------------------------
(***************************************************************************)
(* How the web server answers a request for a page: the header is written  *)
(* at once (websWriteBlock), the page piece by piece whenever the socket   *)
(* is writable (websDefaultWriteEvent), through the output queue of the    *)
(* socket (sock.c, a ring queue) that is also flushed in the background by *)
(* the event loop (socketDoEvent); websDone flushes and closes.            *)
(*                                                                         *)
(* The server is one thread.  stack holds what its functions have yet to   *)
(* do, the innermost first; when it is empty the thread is in its event    *)
(* loop.  A step ends at every call of send, where the peer and the kernel *)
(* may do something in between.  The bytes of the answer are 1, 2, ...     *)
(* The header, which the code writes line by line, is one block here.      *)
(***************************************************************************)
EXTENDS RingQueue

CONSTANTS
  OutSize,       \* initSize of the output queue (SOCKET_BUFSIZ + 1)
  HeaderLen,     \* bytes of the header
  AnswerLen,     \* bytes of header and page together
  PAGE_READ_BUFSIZE,
  KernelSize,    \* room of the kernel's send buffer
  Pressure       \* the kernel may lack the memory to send (EAGAIN)

ASSUME AnswerAssumption ==
  /\ OutSize \in 1..(2 * MaxLen) /\ getBinBlockSize(OutSize) >= 2
  /\ HeaderLen \in Nat /\ AnswerLen \in Nat /\ HeaderLen <= AnswerLen
  /\ PAGE_READ_BUFSIZE \in Nat \ {0} /\ KernelSize \in Nat \ {0}
  /\ Pressure \in BOOLEAN /\ 1..AnswerLen \subseteq Byte

None == {"none"}   \* saveMask = -1

VARIABLES
  stack,          \* what the server thread has yet to do
  state,          \* wp->state; "closed" once wp and its socket are freed
  code,           \* what websDone was called with
  file,           \* bytes of the answer read from the header or the page
  todo,           \* bytes of the running socketWrite not in outBuf yet
  wrote,          \* bytesWritten of socketWrite, and what it returned
  flushed,        \* what socketFlush returned
  outBuf,
  block, flushing,      \* SOCKET_BLOCK, SOCKET_FLUSHING
  handler,              \* sp->handler is set
  handlerMask, saveMask, currentEvents,
  wire,           \* the bytes the kernel has taken
  acked,          \* how many of them the peer has
  broken          \* the peer has reset the connection

wp == <<state, code, file>>
call == <<todo, wrote, flushed>>
events == <<handler, handlerMask, saveMask, currentEvents>>
kernel == <<wire, acked, broken>>
vars == <<stack, state, code, file, todo, wrote, flushed, outBuf, block,
          flushing, handler, handlerMask, saveMask, currentEvents, wire,
          acked, broken>>

Frame == {"socketFlush", "socketWrite", "full", "header", "headerFlush",
          "page", "pageFlush", "pageNext", "handler", "handled", "close"}
Event == {"readable", "writable"}

(* The queue, the masks and the pending work are well formed. *)
TypeOK ==
  /\ stack \in Seq(Frame)
  /\ state \in {"begin", "header", "page", "closed"}
  /\ code \in {0, 200, 404}
  /\ file \in 0..AnswerLen
  /\ todo \in Seq(Byte) /\ wrote \in Int /\ flushed \in {0, -1}
  /\ IsRingq(outBuf) /\ block \in BOOLEAN /\ flushing \in BOOLEAN
  /\ handler \in BOOLEAN /\ handlerMask \subseteq Event
  /\ saveMask \in (SUBSET Event) \cup {None} /\ currentEvents \subseteq Event
  /\ wire \in Seq(Byte) /\ acked \in 0..Len(wire) /\ broken \in BOOLEAN

(* websAccept has just registered websSocketEvent for the request. *)
Init ==
  /\ stack = <<>> /\ state = "begin" /\ code = 0 /\ file = 0
  /\ todo = <<>> /\ wrote = 0 /\ flushed = 0
  /\ outBuf = ringqOpen(OutSize, OutSize) /\ block = FALSE /\ flushing = FALSE
  /\ handler = TRUE /\ handlerMask = {"readable"} /\ saveMask = None
  /\ currentEvents = {}
  /\ wire = <<>> /\ acked = 0 /\ broken = FALSE

-----------------------------------------------------------------------------
(* Calls and returns.                                                      *)

Running(f) == stack # <<>> /\ Head(stack) = f
Return == stack' = Tail(stack)
Goto(s) == stack' = s \o Tail(stack)

(* socketFlush is called, then s is to be done. *)
CallFlush(s) ==
  /\ Goto(<<"socketFlush">> \o s)
  /\ flushing' = (flushing \/ ~block)

(* socketWrite is called for bytes from..to of the answer, then s. *)
CallWrite(from, to, s) ==
  /\ Goto(<<"socketWrite">> \o s)
  /\ todo' = [i \in 1..(to - from + 1) |-> from + i - 1] /\ wrote' = 0

-----------------------------------------------------------------------------
(* sock.c and sockGen.c                                                    *)

socketCreateHandler(mask) == handler' = TRUE /\ handlerMask' = mask
socketDeleteHandler == handler' = FALSE /\ handlerMask' = {}
socketSetBlock == block' = TRUE

(* An iteration of the loop of socketWrite that finds room. *)
socketWrite ==
  /\ Running("socketWrite") /\ todo # <<>> /\ ringqPutBlkMax(outBuf) > 0
  /\ LET n == Lesser(ringqPutBlkMax(outBuf), Len(todo))
     IN /\ outBuf' = CopyIn(outBuf, todo, n)
        /\ todo' = SubSeq(todo, n + 1, Len(todo))
        /\ wrote' = wrote + n
  /\ UNCHANGED <<stack, wp, flushed, block, flushing, events, kernel>>

socketWriteFull ==
  /\ Running("socketWrite") /\ todo # <<>> /\ ringqPutBlkMax(outBuf) = 0
  /\ CallFlush(<<"full">>)
  /\ UNCHANGED <<wp, call, outBuf, block, events, kernel>>

(* After the flush: an error, another iteration, or a short write. *)
socketWriteFlushed ==
  /\ Running("full")
  /\ \/ /\ flushed < 0 /\ wrote' = -1 /\ Return
     \/ /\ flushed >= 0 /\ UNCHANGED wrote
        /\ IF ringqPutBlkMax(outBuf) = 0 /\ ~block THEN Return
           ELSE Goto(<<"socketWrite">>)
  /\ UNCHANGED <<wp, todo, flushed, outBuf, block, flushing, events, kernel>>

socketWriteEnd ==
  /\ Running("socketWrite") /\ todo = <<>> /\ Return
  /\ UNCHANGED <<wp, call, outBuf, block, flushing, events, kernel>>

KernelRoom == KernelSize - (Len(wire) - acked)

(* socketFlush: send takes some of the first straight line of data (it is  *)
(* called again when a signal interrupts it) ...                           *)
socketDoOutput ==
  /\ Running("socketFlush") /\ ringqLen(outBuf) > 0 /\ ~broken
  /\ \E n \in 1..Lesser(ringqGetBlkMax(outBuf), KernelRoom) :
       /\ wire' = wire \o [i \in 1..n |-> outBuf.buf[outBuf.servp + i - 1]]
       /\ outBuf' = ringqGetBlkAdj(outBuf, n)
  /\ UNCHANGED <<stack, wp, call, block, flushing, events, acked, broken>>

(* ... or would block: the flush goes on in the background ...             *)
socketFlushLater ==
  /\ Running("socketFlush") /\ ringqLen(outBuf) > 0 /\ ~broken /\ ~block
  /\ KernelRoom = 0 \/ Pressure
  /\ IF saveMask = None
     THEN saveMask' = handlerMask /\ handlerMask' = handlerMask \cup {"writable"}
     ELSE UNCHANGED <<saveMask, handlerMask>>
  /\ flushed' = 0 /\ Return
  /\ UNCHANGED <<wp, todo, wrote, outBuf, block, flushing, handler,
                 currentEvents, kernel>>

(* ... or fails.                                                           *)
socketFlushError ==
  /\ Running("socketFlush") /\ ringqLen(outBuf) > 0 /\ broken
  /\ flushed' = -1 /\ Return
  /\ UNCHANGED <<wp, todo, wrote, outBuf, block, flushing, events, kernel>>

(* Mutant: the interest registered for the flush is removed, the user's    *)
(* with it.                                                                *)
RestoreMask_lost == saveMask' = None /\ handlerMask' = {}

(* socketFlush registers the user's interest again. *)
RestoreMask ==
  /\ saveMask' = None
  /\ handlerMask' = IF saveMask # None THEN saveMask ELSE handlerMask

socketFlushEnd ==
  /\ Running("socketFlush") /\ ringqLen(outBuf) = 0
  /\ outBuf' = ringqFlush(outBuf) /\ flushing' = FALSE
  /\ RestoreMask
  /\ flushed' = 0 /\ Return
  /\ UNCHANGED <<wp, todo, wrote, block, handler, currentEvents, kernel>>

-----------------------------------------------------------------------------
(* webs.c, handler.c and default.c                                         *)

(* Mutant: the socket is not made blocking before the last flush. *)
websDone_nonblock(c) ==
  /\ code' = c
  /\ socketDeleteHandler
  /\ stack' = <<"socketFlush", "close">>
  /\ UNCHANGED <<block, saveMask, currentEvents>>

(* websDone without keep-alive, which is not compiled in: the handler is   *)
(* deleted and the socket made blocking for the last flush.  Its callers   *)
(* have nothing to do afterwards, since the socket is gone.                *)
websDone(c) ==
  /\ code' = c
  /\ socketDeleteHandler /\ socketSetBlock
  /\ stack' = <<"socketFlush", "close">>
  /\ UNCHANGED <<saveMask, currentEvents>>

(* The rest of websDone: socketCloseConnection and websFree. *)
Close ==
  /\ Running("close") /\ state' = "closed" /\ stack' = <<>>
  /\ handlerMask' = {}
  /\ UNCHANGED <<code, file, call, outBuf, block, flushing, handler, saveMask,
                 currentEvents, kernel>>

websSetRequestSocketHandler == socketCreateHandler({"writable"})

(* The loop of websWriteBlock, for the header; at its end, or when the     *)
(* write has failed, websDefaultHandler arranges for the page to be        *)
(* written whenever the socket is writable.                                *)
websWriteBlock ==
  /\ Running("header")
  /\ IF file < HeaderLen /\ wrote >= 0
     THEN /\ CallWrite(file + 1, HeaderLen, <<"headerFlush">>)
          /\ UNCHANGED <<wp, handler, handlerMask>>
     ELSE /\ state' = "page" /\ file' = HeaderLen
          /\ websSetRequestSocketHandler
          /\ Return /\ UNCHANGED <<code, todo, wrote>>
  /\ UNCHANGED <<flushed, outBuf, block, flushing, saveMask, currentEvents,
                 kernel>>

websWriteBlockFlush ==
  /\ Running("headerFlush")
  /\ IF wrote < 0 THEN Goto(<<"header">>) /\ UNCHANGED <<file, flushing>>
     ELSE CallFlush(<<"header">>) /\ file' = file + wrote
  /\ UNCHANGED <<state, code, call, outBuf, block, events, kernel>>

(* The loop of websDefaultWriteEvent: the next piece of the page, or the   *)
(* end of it.                                                              *)
websDefaultWriteEvent ==
  /\ Running("page")
  /\ IF file < AnswerLen
     THEN LET len == Lesser(PAGE_READ_BUFSIZE, AnswerLen - file)
          IN /\ CallWrite(file + 1, file + len, <<"pageFlush">>)
             /\ file' = file + len
             /\ UNCHANGED <<code, handler, handlerMask, block, saveMask,
                            currentEvents>>
     ELSE websDone(200) /\ UNCHANGED <<file, todo, wrote>>
  /\ UNCHANGED <<state, flushed, outBuf, flushing, kernel>>

websWriteDataNonBlock ==
  /\ Running("pageFlush") /\ CallFlush(<<"pageNext">>)
  /\ UNCHANGED <<wp, call, outBuf, block, events, kernel>>

(* Mutant: after a short write the page is not read from where the write   *)
(* stopped.                                                                *)
websPageSeek_none == UNCHANGED file

(* The bytes that were not written are read again. *)
websPageSeek == file' = file - Len(todo)

websWritten ==
  /\ Running("pageNext")
  /\ \/ /\ wrote < 0 /\ websDone(200) /\ UNCHANGED file
     \/ /\ wrote >= 0 /\ todo # <<>> /\ websPageSeek /\ Return
        /\ UNCHANGED <<code, block, events>>
     \/ /\ wrote >= 0 /\ todo = <<>> /\ Goto(<<"page">>)
        /\ UNCHANGED <<code, file, block, events>>
  /\ UNCHANGED <<state, call, outBuf, flushing, kernel>>

(* websTimeout, called by the event loop when the request has been idle    *)
(* for too long.                                                           *)
websTimeout ==
  /\ stack = <<>> /\ state # "closed" /\ websDone(404)
  /\ UNCHANGED <<state, file, call, outBuf, flushing, kernel>>

-----------------------------------------------------------------------------
(* The event loop: sockGen.c                                               *)

(* What select finds: the request is there, the kernel can take data. *)
Ready == {e \in handlerMask : \/ e = "readable" /\ state = "begin"
                              \/ e = "writable" /\ (KernelRoom > 0 \/ broken)}

socketReady == handlerMask \cap currentEvents # {}

socketSelect ==
  /\ stack = <<>> /\ state # "closed" /\ ~socketReady /\ Ready # {}
  /\ currentEvents' = currentEvents \cup Ready
  /\ UNCHANGED <<stack, wp, call, outBuf, block, flushing, handler,
                 handlerMask, saveMask, kernel>>

(* socketProcess and the first part of socketDoEvent. *)
socketDoEvent ==
  /\ stack = <<>> /\ state # "closed" /\ socketReady
  /\ stack' = IF "writable" \in currentEvents /\ flushing /\ ringqLen(outBuf) > 0
              THEN <<"socketFlush", "handler">> ELSE <<"handler">>
  /\ flushing' = (flushing /\ ~("writable" \in currentEvents
                                 /\ ringqLen(outBuf) = 0))
  /\ UNCHANGED <<wp, call, outBuf, block, events, kernel>>

(* Its second part calls websSocketEvent: a request is read and handed to  *)
(* websUrlHandlerRequest, which deletes the handler, or the page goes on.  *)
websSocketEvent ==
  /\ Running("handler")
  /\ LET mask == IF handler THEN handlerMask \cap currentEvents ELSE {}
     IN IF "readable" \in mask
        THEN /\ state' = "header" /\ socketDeleteHandler
             /\ stack' = <<"header", "handled">>
        ELSE /\ UNCHANGED <<state, handler, handlerMask>>
             /\ stack' = IF mask = {} THEN <<>>
                         ELSE IF state = "page" THEN <<"page", "handled">>
                         ELSE <<"handled">>
  /\ UNCHANGED <<code, file, call, outBuf, block, flushing, saveMask,
                 currentEvents, kernel>>

socketDoEventEnd ==
  /\ Running("handled") /\ currentEvents' = {} /\ stack' = <<>>
  /\ UNCHANGED <<wp, call, outBuf, block, flushing, handler, handlerMask,
                 saveMask, kernel>>

-----------------------------------------------------------------------------
(* The peer.                                                               *)

Receive ==
  /\ ~broken /\ acked < Len(wire) /\ acked' = acked + 1
  /\ UNCHANGED <<stack, wp, call, outBuf, block, flushing, events, wire, broken>>

Reset ==
  /\ ~broken /\ state # "closed" /\ broken' = TRUE
  /\ UNCHANGED <<stack, wp, call, outBuf, block, flushing, events, wire, acked>>

-----------------------------------------------------------------------------

Server ==
  \/ socketWrite \/ socketWriteFull \/ socketWriteFlushed \/ socketWriteEnd
  \/ socketDoOutput \/ socketFlushLater \/ socketFlushError \/ socketFlushEnd
  \/ Close \/ websWriteBlock \/ websWriteBlockFlush
  \/ websDefaultWriteEvent \/ websWriteDataNonBlock \/ websWritten
  \/ socketSelect \/ socketDoEvent \/ websSocketEvent \/ socketDoEventEnd

Next == Server \/ websTimeout \/ Receive \/ Reset

Spec == Init /\ [][Next]_vars

(* The server thread runs, and a peer that is there reads what it is sent. *)
FairSpec == Spec /\ WF_vars(Server) /\ WF_vars(Receive)

-----------------------------------------------------------------------------
(* Properties.                                                             *)

(* Bytes 1..n of the answer. *)
FirstBytes(n) == [i \in 1..n |-> i]

(* The peer is sent the answer from its first byte on, without a gap or a  *)
(* repetition, whatever writes are short, however the output queue wraps   *)
(* and whoever flushes it: socketWrite tells what it took, and             *)
(* websDefaultWriteEvent reads the rest of the piece again.                *)
StreamIntact == wire = FirstBytes(Len(wire))

(* A connection that websDone(wp, 200) closes has been sent the whole      *)
(* answer, unless the peer had reset it: the last flush of websDone        *)
(* blocks until the queue is empty.                                        *)
ClosedWhenSent ==
  state = "closed" /\ code = 200 /\ ~broken => wire = FirstBytes(AnswerLen)

(* What socketWrite has accepted: sent, or in the output queue. *)
Accepted == wire \o Contents(outBuf)

(* t goes on where the first n bytes of the answer end. *)
Continues(t, n) == t = [i \in 1..Len(t) |-> n + i]

(* What the thread has yet to do while socketWrite works for c, while the  *)
(* header or a piece of the page is written, in between, and in websDone.  *)
Writing(c) == {<<"socketWrite", c, "handled">>, <<"full", c, "handled">>,
               <<"socketFlush", "full", c, "handled">>}
InHeader == Writing("headerFlush") \cup {<<"headerFlush", "handled">>}
InPage == Writing("pageFlush") \cup
          {<<"pageFlush", "handled">>, <<"socketFlush", "pageNext", "handled">>,
           <<"pageNext", "handled">>}
HeaderLoop == {<<"header", "handled">>, <<"socketFlush", "header", "handled">>}
Waiting == {<<>>, <<"handler">>}
InLoop == Waiting \cup {<<"socketFlush", "handler">>, <<"handled">>,
                       <<"page", "handled">>}
InDone == {<<"socketFlush", "close">>, <<"close">>}
AnyStack == InHeader \cup InPage \cup HeaderLoop \cup InLoop \cup InDone

(* Where the header or the page is read next fits what was accepted, and   *)
(* the rest of a block that is being written goes on from there.           *)
PositionFits ==
  /\ stack \in InHeader => IF wrote < 0 THEN stack \notin Writing("headerFlush")
                           ELSE file + wrote + Len(todo) = HeaderLen
  /\ stack \in InHeader \cup HeaderLoop => file <= HeaderLen
  /\ stack \in InPage => Len(todo) <= file
  /\ ~broken =>
       /\ stack \in InHeader => Len(Accepted) = file + wrote
       /\ stack \in InPage => Len(Accepted) = file - Len(todo)
       /\ stack \notin InHeader \cup InPage => Len(Accepted) = file
       /\ stack \in InHeader \cup InPage => Continues(todo, Len(Accepted))

(* A handler that waits for the request is only there before the answer,   *)
(* and never comes back.                                                   *)
RequestedOnce ==
  /\ "readable" \notin saveMask
  /\ "readable" \in handlerMask =>
       /\ stack \in Waiting /\ handlerMask = {"readable"}
       /\ file = 0 /\ Contents(outBuf) = <<>>

(* websDone flushes in blocking mode, and closes an empty queue. *)
DoneFlushes ==
  /\ stack \in InDone =>
       /\ block
       /\ code = 200 /\ ~broken => file = AnswerLen
       /\ stack = <<"close">> /\ ~broken => Contents(outBuf) = <<>>
  /\ state = "closed" => stack = <<>>

(* What is about the bytes ... *)
BytesFit ==
  /\ Contents(outBuf) \in Seq(Byte) /\ stack \in AnyStack
  /\ StreamIntact /\ (~broken => Accepted = FirstBytes(Len(Accepted)))
  /\ PositionFits

(* ... and about the control of the connection. *)
ControlFits ==
  /\ TypeOK /\ ClosedWhenSent /\ (wrote < 0 \/ flushed < 0 => broken)
  /\ RequestedOnce /\ DoneFlushes

(* The inductive invariant: unless the peer has gone, socketWrite has      *)
(* accepted the beginning of the answer, and the functions of webs.c and   *)
(* default.c go on from its end.                                           *)
AnswerInv == BytesFit /\ ControlFits

(* "Restore the users mask" (socketFlush): back in its event loop, with no *)
(* flush to finish, the server waits for what websAccept or                *)
(* websSetRequestSocketHandler asked for.                                  *)
UsersMaskRestored ==
  stack = <<>> /\ saveMask = None =>
    handlerMask = CASE state = "begin" -> {"readable"}
                    [] state = "page" -> {"writable"}
                    [] state = "closed" -> {}

(* Every request is answered and its connection closed, without the help   *)
(* of websTimeout.                                                         *)
Answered == <>(state = "closed")
=============================================================================
