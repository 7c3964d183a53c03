# Verification of test_core: address claiming, the message buffer, and the web server's output

This directory holds TLA+ models of parts of the repository, the TLC
configurations that check them on small instances, and proofs checked by TLAPS.
Paths below are relative to the repository; `rayautoipd` stands for
`src/rayautoipd.20210104`.

## 1. The repository

The repository collects programs for embedded network devices. Most of its
lines are unchanged copies of other projects (coreutils, iproute2, tar,
tcpdump) or single-file exercises. The parts with state of their own:

| Part | State | Operations | Meets |
|---|---|---|---|
| `rayautoipd`: claiming of group addresses (`raymarine/ipv4ll-group.c`) | per group: address in use, address wanted, conflicts, time of the last defence, preferred address | start, pick, probe, use, defend, lose, stop | ARP engine, kernel addresses, claims file |
| `rayautoipd`: ARP engine (`arp.c`) | per group: wanted address, failed address, probes sent, one timeout; per interface: packet socket | probe, announce, read, close | event loop, filter, other units |
| `rayautoipd`: filter (`bpf.c`) | addresses compiled into the socket filter | rebuild | kernel |
| `rayautoipd`: event loop (`eloop.c`) | pending timeouts and events | add, delete, run | everything above |
| `rayautoipd`: claims file | one line per group | read at start, replaced when an address is taken | power failures |
| `rayautoipd`: routes (`route.c`, `ipv4llg_recvrt`) | routing table | rebuild | kernel |
| message buffer (`src/msg_queue`) | linked list, mutex, condition | put, get, timed get, clear, dispose | threads |
| software timers (`src/mul_timer`) | array of timers | add, delete, SIGALRM handler | signals |
| web server: ring queue (`src/webs/src/src/ringq.c`) | buffer, two pointers, size and limit | open, put, insert, get, adjust, grow, flush | sockets, the string functions |
| web server: answering (`sock.c`, `sockGen.c`, `webs.c`, `default.c`) | output queue of a socket, event masks, position in the page | write, flush, handle events, finish | event loop, kernel, browser |
| web gateway (`src/webs/src/src/sock_clt.c`, `queue.c`) | two queues, requests in progress | enqueue, send, answer | web server, core_app |
| supervision (`src/core_app.sh`) | flag files | start, upgrade, restart | processes |
| LED control (`src/ledctrl`) | blink counters | timer tick | other processes |

The core is `rayautoipd`, Raymarine's fork of dhcpcd. Several units on one
Ethernet segment run it without any server. Each takes, for every configured
group, an address of the group's range that nobody else uses.

What makes it hard:

- units act at the same time, and a frame is read after the daemon's state has
  moved on;
- the packet filter is a snapshot of the addresses a daemon is interested in;
- daemons are killed and restarted while the kernel keeps their addresses;
- cables are unplugged, so that two units take the same address;
- each unit must defend its address but not for ever;
- socket calls fail halfway through an operation.

What it should guarantee: no two units use the same address; an address in use
is not taken away without need; clashes that a cable made possible are
resolved; a unit never leaks an address; what it would claim again after a
power failure is what it used.

The second part modelled is the message buffer of `src/msg_queue`, a linked
list shared by threads. It should hand out messages in the order they were
sent, never lose or free an element in use, and wake readers when there is
something to read.

The third is the output side of the web server in `src/webs`, a GoAhead. It is
one thread with an event loop. It writes an answer into a ring queue per
socket, which it flushes when it can and otherwise from the event loop. A write
may be short, a send may take a part, the queue wraps, the browser may be slow
or go away. The browser should get the answer byte for byte, all of it before
the connection is closed, and the connection should be closed.

## 2. Modules

| Module | Contents |
|---|---|
| `Ipv4llGroup` | units, their kernels, the wire and the daemons; all properties; the inductive invariants |
| `AddressClaim` | the abstract promise: an address is taken only while no unit has it |
| `MCIpv4llGroup` | address ranges and symmetry for TLC |
| `Ipv4llGroupTypes` | what each helper of the daemon changes and leaves alone; type correctness, for every instance |
| `Ipv4llGroupKept` | what holds of every single unit whatever fails: no leaked address, the right address watched, the claims file current; and when its socket lets through what contests its addresses |
| `Ipv4llGroupNetwork` | for a connected network: the kinds of step, and that each, and a step of one group, keeps the inductive invariant |
| `Ipv4llGroupUnique` | uniqueness, keeping of addresses, refinement of `AddressClaim` |
| `MsgBuffer` | the message buffer and its threads; its properties and inductive invariant |
| `MsgQueue` | the abstract promise: a first-in first-out queue that may discard its oldest elements |
| `MCMsgBuffer` | symmetry for TLC |
| `MsgBufferProofs` | the linked list is intact, implements `MsgQueue`, and a reader that waits alone is woken, for every instance |
| `RingQueue` | the functions of `ringq.c` as operators on a record |
| `RingQueueCalls` | one queue and an owner who calls them in any order; its properties |
| `ByteQueue` | the abstract promise: a sequence of bytes |
| `RingQueueLemmas` | what each function does to the data of a queue |
| `RingQueueProofs` | the ring queue is never damaged and implements `ByteQueue` |
| `WebAnswer` | a request for a page: socket, output queue (by `RingQueue`), event loop, kernel and browser; its properties and inductive invariant |
| `WebAnswerProofs` | the answer is sent in order and completely, for every instance |

`rayautoipd`, the message buffer and the web server do not interact: nothing in
the repository runs two of them together. Inside the web server `WebAnswer`
uses the operators of `RingQueue`, and its proofs the lemmas about them.
Operators whose comment starts with "Mutant" are wrong variants of the
definition that follows them. A property is worth its run when it notices one
of them put in the place of that definition.

### How `Ipv4llGroup` corresponds to the code

State. `claim`, `failed`, `probes` are fields of `struct arp_state`; `cb` and
`left` are its pending timeout and the seconds until it fires. `held`,
`conflicts`, `defended`, `since`, `down` are fields of `struct ipv4llg_state`
(`defended` and `since` are the two halves of `defend`: whether it is set, and
how long ago it was). `last` is `group->last_address`. `fd`, `filter` and `rx`
are the packet socket, its filter and its queue. `ifaddrs` is the kernel's list
of addresses, `claims` the claims file, `link` the cable, `uptime` the clock.
`proc` tells how far the start of a daemon has come.

Actions. One per callback of the event loop or step of the start:

| Action | Code |
|---|---|
| `ipv4llg_start`, `ipv4llg_start_one` | the functions of these names; one step per group |
| `ProbeTimeout`, `Probe1Timeout`, `ProbedTimeout`, `Announce1Timeout` | the timeouts `ipv4llg_probe`, `arp_probe1`, `arp_probed`, `arp_announce1` with everything they call |
| `arp_read` | `arp_read`, `arp_packet` and `ipv4llg_conflicted`: ignore the frame, defend, lose, or abandon the probe |
| `arp_read_error` | the failing branch of `arp_read`: `arp_close` |
| `ipv4llg_drop` | SIGTERM: `stop_all_interfaces` down to `ipv4llg_freedrop` and `arp_drop` |
| `Crash`, `Reboot`, `Cable`, `Tick` | the environment |

Frames have two kinds: a probe (sender 0.0.0.0) and a claim (an announcement,
or the answer of a kernel). Addresses are small numbers. The filter is the set
of addresses it compares with; 0.0.0.0 in it accepts every probe, as in the
generated byte code.

Choices worth knowing:

- Time advances in whole seconds, and only when no daemon has anything to do
  now. Within a second, due timeouts and queued frames run in any order, which
  includes the order of `eloop_start`.
- A frame reaches the kernels of the other linked units at once. Daemons read
  it later. A frame sent without carrier is lost.
- A kernel answers every probe for one of its addresses. It may or may not
  answer an announcement of an address it also has. This is external behaviour.
- Ordinary traffic of the hosts is not modelled; it could only reveal clashes
  earlier.
- A call that may fail does so when `Faults` names it: `open` (`bpf_open`),
  `send` (`bpf_send`), `read` (`bpf_read`), `addr` (`ipv4_addaddr`), `write`
  (the claims file).
- Network masks, routes, hook scripts, logging and running out of memory are
  left out.
- The configurations have `nolink`, `nodhcp` and `noipv4ll`, so a carrier
  change does nothing in the daemon and no other client uses the ARP engine.

### How `MsgBuffer` corresponds to the code

State. `first`, `last`, `num` are the fields of `struct msg_buffer` and `next`
those of the elements. `owner` says who may use a memory cell: nobody
(freed), the buffer, or the thread that got or was given the element. `mutex`
is set only while a thread is inside the loop of `clear_msg_buffer`; all other
critical sections are single steps. `pc` tells which threads are blocked on
`not_empty` and which were woken and have yet to get the mutex.

Actions have the names of the functions. `get_msg_from_buffer` and
`get_msg_from_buffer_timeout` are each the part before the wait or the part
after it. `WakesUp` is a timeout or a wake-up without a signal.
`ClearStep` is an iteration of the loop of `clear_msg_buffer`, `DisposeEnd` the
rest of `dispose_msg_buffer`. A failing `malloc` leaves everything as it was.

Callers, of which the repository has a short example only, are assumed to put
and free elements they own, to leave alone the element `clear` returns, which
stays in the buffer, and to dispose of a buffer that no call is using.

### How `RingQueue` and `RingQueueCalls` correspond to the code

A queue is a record with the fields of `ringq_t`; `servp` and `endp` are offsets
instead of pointers, and `endbuf` is `buflen`. A cell holds a byte, the
terminator, or what `balloc` left there. Every operator has the name of its
function; `CopyIn`, `Put1`, `Insert1` and `Skip` are the straight-line copies
the functions are made of. In `RingQueueCalls` a call is one step, but every
iteration of the loop of `ringqPutBlk` is a step of its own, since the queue
may grow in between. `balloc` may refuse any block.

### How `WebAnswer` corresponds to the code

State. `stack` holds what the functions of the server thread have yet to do,
innermost first; it is empty in the event loop. `state` is `wp->state`, `file`
the position in the answer. `todo` and `wrote` belong to the running
`socketWrite`, `flushed` is what `socketFlush` returned. `outBuf`, `block`,
`flushing`, `handler`, `handlerMask`, `saveMask`, `currentEvents` are fields and
flags of `socket_t`. `wire`, `acked` and `broken` are the connection: what the
kernel took, how much of it the browser has, whether it was reset.

| Action | Code |
|---|---|
| `socketWrite`, `socketWriteFull`, `socketWriteFlushed`, `socketWriteEnd` | an iteration of the loop of `socketWrite`, its flush of a full queue, what follows the flush, its end |
| `socketDoOutput`, `socketFlushLater`, `socketFlushError`, `socketFlushEnd` | the loop of `socketFlush`: data sent, would block, error, queue empty |
| `websWriteBlock`, `websWriteBlockFlush` | the header, and the registration of the page's handler |
| `websDefaultWriteEvent`, `websWriteDataNonBlock`, `websWritten` | the loop over the pieces of the page |
| `websTimeout`, `Close` | `websTimeout`; the end of `websDone` |
| `socketSelect`, `socketDoEvent`, `websSocketEvent`, `socketDoEventEnd` | the event loop and the handler it calls |
| `Receive`, `Reset` | the browser |

A step ends at every call of `send`, because the kernel and the browser move in
between; `send` takes any part of a straight line of data that the kernel has
room for. The bytes of the answer are numbered, so a gap, a repetition or a
swap shows. The header, which the code writes line by line, is one block.

Left out: keep-alive and SSL, which are not compiled; failing allocations;
reading and parsing the request, which is one event here; other handlers.
`SIGPIPE` is ignored (`main.c:229`), so a send to a browser that has gone
returns an error, as in the model.

## 3. What TLC checks

Four passing runs use the module `MCIpv4llGroup`, one `MCMsgBuffer`, one
`RingQueueCalls` and one `WebAnswer`. The timing constants of `rayautoipd` are
scaled down, keeping the order that matters: probing is shorter than the periodic
announcements, and `DEFEND_INTERVAL` is shorter than they are (10 s against
55 to 65 s in the code).

| Run | Instance | Properties | Distinct states |
|---|---|---|---|
| `connected` | 2 units, 1 group, 3 addresses of which 2 are drawn, filter at its limit, faults open, addr, write | `TypeOK`, `UniqueInv`, `Unique`, `NeverTakenAway` | 215,720 |
| `three_units` | 3 units, 1 group | `ClaimsOnlyFree` | 374,724 |
| `cable` | 2 units, booted or restarted after a kill, cables, fair | `ListensToHeld`, `ClaimsFileCurrent`, `ClashResolved`, `AssignedWithoutLink` | 428,448 |
| `unreliable` | 2 units, cables, crashes, faults open, send, read | `KeptInv`, `OneAddressPerGroup`, `HeldIsWatched`, `ListensToHeld`, `ClaimsFileCurrent` | 1,108,444 |
| `buffer` | a reader, a timed reader, a sender, 3 elements, fair | `BufferInv`, `FirstInFirstOut`, `TimedReturns`, `OnlyReaderNotified` | 11,949 |
| `ring` | a queue of 4 bytes that may grow to 8, blocks of up to 2 bytes | `TypeOK`, `IsByteQueue`, `PutsProgress` | 1,170,444 |
| `answer` | a header of 4 bytes, a page of 13 read in pieces of 5, a queue of 4, a send buffer of 4, fair | `TypeOK`, `StreamIntact`, `ClosedWhenSent`, `AnswerInv`, `Answered` | 137,171 |

The properties:

- `Unique`: no two units have the same address on their interfaces.
- `ClaimsOnlyFree`: the daemons implement `AddressClaim`.
- `NeverTakenAway`: on a connected network only the end of its own daemon takes
  an address off a unit.
- `ListensToHeld`: a daemon that listens has every address in use in its
  filter, and only a failing open or read keeps it from listening.
- `ClaimsFileCurrent`: the claims file names every address in use.
- `OneAddressPerGroup`: a unit has at most one address of a group, and it is
  the one the daemon knows of.
- `HeldIsWatched`: the address in use is the one the ARP state compares frames
  with and announces.
- `KeptInv`: the inductive invariant behind these two.
- `ClashResolved`: once cables stay plugged, units end with
  different addresses.
- `AssignedWithoutLink`: a unit without carrier ends with an address for every
  group.
- `BufferInv`: `num` elements lead from `first` to `last`; they are exactly the
  elements the buffer owns.
- `FirstInFirstOut`: the buffer implements `MsgQueue`.
- `OnlyReaderNotified`: the only blocking reader of a buffer does not stay
  blocked while there is a message.
- `TimedReturns`: a timed get returns.
- `IsByteQueue`: the ring queue implements `ByteQueue`.
- `PutsProgress`: every iteration of `ringqPutBlk` puts a byte in or is the last.
- `StreamIntact`: what was sent is the answer from its first byte on.
- `ClosedWhenSent`: a connection closed by `websDone(wp, 200)` and not reset has
  been sent all of the answer.
- `AnswerInv`: the inductive invariant of the proofs, see section 4.
- `Answered`: every connection is closed in the end.

Bounds. Two units and two drawn addresses are enough for every pairwise
conflict: same address wanted, same address used and wanted, same address used
twice. A third address can be in use (after a restart) but is never drawn.
`three_units` adds the races in which one unit gives way to two. With
`PROBE_NUM` 2 there is a first and a last probe; `MAX_CONFLICTS` 2 reaches the
rate limit. `MaxQueue` bounds the frames that restarts within a single second
can pile up: a unit fails only while the queues are that short. It restricts
nothing else. Three elements give a list with a first, a middle and a last one;
a thread of each kind is enough for every pair of calls to meet. The ring of
four cells wraps at every offset, and grows in the middle of a block while its
data wraps. The page of `answer` is several times longer than the output queue,
a piece and the send buffer, whose sizes are no multiples of each other, so
short sends and short writes happen at every offset of the ring.

In `answer` the header fits the send buffer and the kernel does not refuse
memory (`Pressure` is false). On a fresh connection this is the usual case: a
header has a few hundred bytes, a send buffer many thousands. What
happens otherwise is the subject of `answer_mask`.

Two groups per unit are checked by `restart_two_groups` below; that addresses
are unique with any number of groups that fit the filter is proved.

Fairness. `Fairness` asks that time goes on and that a daemon with a due
timeout, a queued frame or a start in progress takes a step. The event loop
runs due timeouts and readable sockets until there are none, and the init
system starts the daemon. Nothing is assumed of cables, and the fair
specifications have no crashes. `Repick` and the timers draw any value the
code's random numbers can give; no fairness between the draws is assumed. In `MsgBuffer` a thread that was
woken gets the mutex sooner or later, even if others take it again and again
(strong fairness: a scheduler that does not starve a waiter for ever), timed
waits end, and loops under the mutex go on. No thread has to call anything. In
`WebAnswer` the server thread takes steps while it can, which is the
progress of a thread, and a browser that is still there reads what arrives.
`websTimeout` need not happen, so `Answered` does not rest on it: it is
the server's own steps that end the request.

### Disagreements between the code and its comments

Five runs expect a violation:

| Run | What the repository says | What the code does |
|---|---|---|
| `restart_two_groups` | `arp.h:55`: in a clash one side loses | A restarted daemon adopts the address of its second group while the filter still has 0.0.0.0 for it, so contesting announcements never reach it. |
| `failed_not_picked` | `ipv4ll-group.c:91`: "No point using a failed address" | `continue` goes to the loop condition, which accepts the failed address. |
| `held_is_running` | `ipv4ll-group.c:571`: rebuild if an interface runs IPv4LL | `down` stays set after the first loss. |
| `lost_wakeup` | `src/msg_queue/msg_process.c:37`: notify the threads blocked waiting for messages | Only a message put into an empty buffer signals: of two blocked readers one sleeps on although a second message is there. |
| `answer_mask` | `src/webs/src/src/sock.c:337`: "Restore the users mask if it was saved by the non-blocking code above." | A flush of the header that would block saves the empty mask of the deleted handler. When it is finished, that mask replaces the one the page's handler has registered meanwhile; the page stops until `websTimeout`. |

The first leaves two units with the same address for ever. `lost_wakeup` needs
several blocking readers of one buffer; for one reader `OnlyReaderNotified`
holds. `answer_mask` needs a send that would block while the header is flushed.

Three disagreements of lesser weight are in the model but have no run. A cleared
`state->defend` is compared as the instant 0 (`ipv4ll-group.c:276`), so in the
first `DEFEND_INTERVAL` seconds after boot the first conflict already drops an
address, without a defence. `state->conflicts` is never reset, since periodic
announcements keep `ipv4llg_announced` from running, so "failed to acquire an
IPv4LL address" (`ipv4ll-group.c:303`) can follow conflicts on addresses that
were acquired. `ringqGrow` compares the limit of a ring queue with its size
before growing (`ringq.c:536`), so a queue can grow past `maxsize` by an
increment.

## 4. What is proved

`TypeCorrect` (module `Ipv4llGroupTypes`): `Spec => []TypeOK`, from the
assumptions on the constants alone. It needs `TimedClaim`: a pending timeout
has an address to work on, and `arp_probe1` a probe left to send.

The theorems of `Ipv4llGroupKept` are about `Spec`: any calls may fail, cables
are pulled and plugged, daemons and units stop and restart. They assume nothing
of the constants but disjoint ranges and sane timing.

- `UnitConsistent`: `[]KeptInv`, the inductive invariant.
- `NoAddressLeaks`: `[]OneAddressPerGroup`.
- `HeldAlwaysWatched`: `[]HeldIsWatched`.
- `ClaimsFileNamesHeld`: `[]ClaimsFileCurrent`, if writing the file never fails.

The argument. `ipv4llg_probed` adds the claim to the interface, so
`OneAddressPerGroup` needs that the unit has no other address of the group
then. `HeldIsWatched` gives it for a claim that was probed: a group with an
address has no probing timeout. `Staged` gives it for a group that is being
started: it holds nothing yet, and what it adopts is the only one there.
`InPool` and the disjoint ranges keep one group from touching the addresses of
another. A step of one group leaves the others alone (`OwnStep`) and leaves its
own state consistent (`OwnEnds`); `OwnKeeps` puts these together, and there is
one lemma per action. The claims file needs only the types: it is written
whenever an address is taken, and an address that goes leaves a line too many,
never one too few.

Three theorems of the same module are about `ListensToHeld`. All assume
`NGroups <= ARP_ADDRS_MAX`, the room in the filter (`bpf.c:108` has 3). None
assumes that calls succeed or cables stay plugged.

- `ListensUnlessFoundLate`: `[]ListensToHeld` of a behaviour, started from a
  boot or from killed daemons, in which `FoundBeforeOpen` always holds: no group
  is started that has an address on the interface while the socket is already
  open.
- `OneGroupListens`: with a single group, without a condition on the behaviour.
- `UnkilledListens`: with any number of groups that fits, from a boot, when
  daemons are stopped, units lose power and calls fail but no daemon is killed.

A condition is needed: with two groups and a killed daemon `ListensToHeld` is
false; the run `restart_two_groups` shows what follows from it. The first group
opens the socket; the second finds its address on the interface, and the filter is
built (`arp_new`) before that address is set in its arp state.
`ListensUnlessFoundLate` says that this is the only way. Its inductive invariant
is `HearsClaims`: with an open socket the filter has the claim of every group
that probes or holds an address. `ListensToHeld` is not inductive, since an
address is taken by `ipv4llg_probed` without a new filter; the filter must have
been right while the group probed. The step relies on `KeptInv` for the claim
to be the address in use. For the other two theorems `FoundBeforeOpen` is
derived: with one group the socket is closed until that group is started
(`OpenedByGroup`); without kills the interface has no address of a group that is
yet to be started, since `ipv4llg_drop` and a power cycle remove them
(`CleanStart`).

The theorems of `Ipv4llGroupUnique` are about `ConnectedSpec`, a network whose
cables stay plugged, with crashes, stops, power cycles and failing opens,
address changes and file writes. They assume `Reliable`: sends and reads
succeed, and the groups fit the filter. They hold for any finite set of units,
any groups with disjoint ranges, and any timing with `PROBE_MIN` and
`ANNOUNCE_WAIT` of at least a second.

- `AddressesUnique`: `[]Unique`.
- `InvariantHolds`: `[]UniqueInv`, the inductive invariant.
- `AddressesKept`: `NeverTakenAway`.
- `ClaimsImplemented`: `ClaimsOnlyFree`, the refinement of `AddressClaim`.

The argument. `Unique` is not inductive: a unit might be about to finish
probing for an address another one has. `UniqueInv` adds why this cannot be.
A unit that probes listens (`ProbingListens`). If it probes for an address in
use, a frame saying so is queued on its socket (`UsedIsDoomed`). Of two units
that probe for the same address at least one has a frame queued that will make
it give up (`RivalIsDoomed`). Time passes only when queues are empty. So a unit
that has waited a second after its last probe is the only one left
(`LastOneStanding`), and no frame contests an address in use (`Uncontested`).

The proof splits the invariant into a part about single units (`LocalInv`) and
one about the network (`GlobalInv`). Each action is classified as a quiet step,
a step that probes, a step that takes an address, or `Tick`. There is one lemma
per class for `GlobalInv`, and one per action for `LocalInv`.

`BufferCorrect` (module `MsgBufferProofs`): `Spec => []BufferInv` of the
message buffer, for any threads and elements. That the list is intact is not
inductive by itself. `LoopsAlone` adds that the mutex is held across steps only
by a loop that still has an element, and that nobody else is in a call while
the buffer is disposed of. Every step appends an element (`AppendKeeps`), takes
off the first (`RemoveKeeps`) or leaves the list alone (`SameKeeps`).

`ImplementsQueue`: `Spec => FirstInFirstOut`, the refinement of `MsgQueue`. The
queue is the sequence of elements from `first` along `next` (`Messages`). The
definition chooses it, so the proof needs that there is only one: two chains
with the same start, length and links are equal (`ChainUnique`). This would be an
induction over positions; the proof takes the least position where they differ
instead (`LeastNatural`, from the well-foundedness of `<`). With that a step
that changes the list is a `Send` or a `RemoveOldest` of the queue.

`LoneReaderNotified`: `Spec => OnlyReaderNotified`. The property is a leads-to,
and its proof needs no fairness. As long as no other thread sleeps (`Alone`), a
reader sleeps only while `num = 0` (`Served`): the put that ends `num = 0`
signals, and the only sleeper is the one that wakes. So the state the property
asks to leave is never reached.

The theorems of `RingQueueProofs` are about one queue and any order of calls,
for any sizes, limits and bytes:

- `NeverDamaged`: `[]TypeOK`. The pointers stay inside the buffer and the data
  are bytes that were put in, never a terminator or fresh memory.
- `ImplementsByteQueue`: the refinement of `ByteQueue`, with the data from
  `servp` to `endp` as the sequence.
- `PutsAlwaysProgress`: `PutsProgress`.

`RingQueueLemmas` does the work on offsets: `LenOf`, `Pos` and `WrapAt` give
length, position and wrapping as functions of integers, and each function of
`ringq.c` is then shown to append to, take from or keep `Contents`. The proofs
assume that `getBinBlockSize` is never 0, a fact about powers of two that TLC
evaluates for the instances (`BlockAssumption`).

The theorems of `WebAnswerProofs` are about `Spec` of `WebAnswer`, with any
lengths of header and page, any sizes of queue, piece and send buffer, and a
kernel that may refuse memory:

- `AnswerFits`: `[]AnswerInv`, the inductive invariant.
- `AnswerTypes`: `[]TypeOK`.
- `AnswerInOrder`: `[]StreamIntact`.
- `AnswerComplete`: `[]ClosedWhenSent`.

`StreamIntact` speaks of what was sent only. `AnswerInv` adds that what was
sent followed by the output queue (`Accepted`) is the beginning of the answer
too; that the position in the page, the bytes still to be copied and the length
of `Accepted` agree, depending on which function is running (`PositionFits`);
that a request is handled once, on an empty queue (`RequestedOnce`); and that
`websDone` flushes in blocking mode and closes an empty queue
(`DoneFlushes`). The values of `stack` are enumerated in `AnyStack`. A step
copies into the queue, sends, moves the position, or moves no bytes
(`NoBytes`); there is one lemma per action. The mask defect of `answer_mask`
does not affect these theorems: it stops an answer but never mangles it.

Only model-checked: `ClashResolved`, `AssignedWithoutLink`, `TimedReturns` and
`Answered`, which are liveness properties that need fairness, out of reach of
TLAPS. Every invariant and action property of the passing runs, and every
refinement, has a theorem.

## 5. Not modelled

- Reloading the configuration (SIGHUP), which leaves `state->group` pointing
  to freed memory.
- Addresses changed by other programs.
- More groups than `ARP_ADDRS_MAX`: the filter drops them, and nothing is
  claimed. The shipped configurations have at most two groups.
- The arithmetic of `ipv4llg_pickaddr`; `Draw` stands for its results.
- The claims file at the granularity of system calls.
- Routes.
- Of the message buffer: the computation of the timeout with its static
  `timeout_ns`, which all buffers share; payloads, and `dup_msg_element`, whose
  copy shares the payload; `get_msg_num`, which reads `num` without the lock.
- Of the web server: reading and parsing of requests, forms, CGI and pages with
  scripts, the tables of users and URLs, keep-alive and SSL (not compiled).
- The web gateway (`sock_clt.c`, `queue.c`): a second thread that writes
  answers of core_app to requests of the server thread. It would need the life
  and the memory of every request record, and the output queue at the level of
  single memory accesses.
- The software timers (`src/mul_timer`), which only the demonstration program in
  the same file uses; the supervision script, whose flags are set by programs
  that are not in the repository; LED control, serial tools and network tools,
  which are device I/O or one-shot commands.
- DHCP, DHCPv6, IPv6 and plain IPv4LL of dhcpcd, which the configurations switch
  off, and the unchanged copies of coreutils, iproute2, tar and tcpdump. These
  copies are nearly all of the repository's lines, so the share of its lines
  that is modelled is very small although the parts above are covered closely.

## 6. What would come next

1. The drawing of addresses in `ipv4llg_pickaddr` on bit vectors.
2. The claims file with its temporary file, composed with the start of a daemon.
3. Routes, as consumers of `down` and `held`.
4. Several requests at once in the web server, and the gateway's thread.
