---------------------------- MODULE Ipv4llGroup ----------------------------
(***************************************************************************)
(* rayautoipd: hosts on one Ethernet segment claim an IPv4 address for     *)
(* each configured group ("ipv4llgroup") by ARP probing, keep announcing   *)
(* it, defend it, and give it up (ipv4ll-group.c on top of arp.c).         *)
(*                                                                         *)
(* A host has one interface, one kernel address list and at most one       *)
(* daemon.  A frame reaches the kernels of the linked hosts when it is     *)
(* sent: each kernel answers a request for one of its addresses and queues *)
(* the frame on the daemon's packet socket if the socket's filter accepts  *)
(* it.  The daemon reads the queue later, between its timers.  Time is     *)
(* counted in whole seconds; a second passes only when no daemon has a     *)
(* frame to read or a timer that is due (Tick).                            *)
(***************************************************************************)
EXTENDS Integers, Sequences, FiniteSets, Functions

CONSTANTS
  Host,          \* the units on the network segment
  NGroups,       \* number of ipv4llgroup lines of the configuration
  Addr,          \* IPv4 addresses
  Pool,          \* Pool[g]: the addresses range_begin..range_end of group g
  Draw,          \* Draw[g]: the addresses bottom | (random() % size) can give
  INADDR_ANY,    \* 0.0.0.0, also "no address" (NULL state->addr)
  Faults,        \* kernel calls that may fail: "open", "send", "read",
                 \* "addr", "write"
  PROBE_WAIT, PROBE_NUM, PROBE_MIN, PROBE_MAX, ANNOUNCE_WAIT,
  ANNOUNCE_ALWAYS_WAIT, ANNOUNCE_ALWAYS_WAIT_SPREAD,
  MAX_CONFLICTS, RATE_LIMIT_INTERVAL, DEFEND_INTERVAL,
  ARP_ADDRS_MAX,
  MaxQueue       \* units fail only while no socket queues more frames than
                 \* this (bounds the frames of restarts within one second)

Group == 1..NGroups
OptAddr == Addr \cup {INADDR_ANY}

ASSUME SetAssumption ==
  /\ IsFiniteSet(Host)
  /\ NGroups \in Nat \ {0}
  /\ INADDR_ANY \notin Addr
  /\ Faults \subseteq {"open", "send", "read", "addr", "write"}
  /\ Pool \in [Group -> SUBSET Addr]
  /\ Draw \in [Group -> SUBSET Addr]
  /\ \A g \in Group : Draw[g] # {} /\ Draw[g] \subseteq Pool[g]
  /\ \A g1, g2 \in Group : g1 # g2 => Pool[g1] \cap Pool[g2] = {}

ASSUME TimeAssumption ==
  /\ PROBE_WAIT \in Nat /\ PROBE_NUM \in Nat \ {0}
  /\ PROBE_MIN \in Nat \ {0} /\ PROBE_MAX \in Nat /\ PROBE_MIN <= PROBE_MAX
  /\ ANNOUNCE_WAIT \in Nat \ {0}
  /\ ANNOUNCE_ALWAYS_WAIT \in Nat \ {0}
  /\ ANNOUNCE_ALWAYS_WAIT_SPREAD \in Nat \ {0}
  /\ MAX_CONFLICTS \in Nat \ {0} /\ RATE_LIMIT_INTERVAL \in Nat
  /\ DEFEND_INTERVAL \in Nat /\ ARP_ADDRS_MAX \in Nat /\ MaxQueue \in Nat

VARIABLES
  link,       \* link[h]: the cable of h is plugged
  ifaddrs,    \* ifaddrs[h]: the addresses on the interface of h
  uptime,     \* seconds since boot, saturating at DEFEND_INTERVAL
  claims,     \* claims[h][g]: address of g in the claims file of h
  proc,       \* 0: no daemon; g \in Group: ipv4llg_start is about to start
              \* group g; NGroups + 1: the daemon is in its event loop
  fd,         \* iarp_state.fd is an open packet socket
  filter,     \* addresses of the BPF filter attached to it
  rx,         \* frames queued on the socket and not yet read
  last,       \* group->last_address
  claim,      \* astate->addr
  failed,     \* astate->failed
  probes,     \* astate->probes
  cb,         \* the pending eloop timeout of the astate, "none" if none
  left,       \* seconds until it fires
  held,       \* state->addr->addr, INADDR_ANY for a NULL state->addr
  conflicts,  \* state->conflicts, saturating at MAX_CONFLICTS
  defended,   \* state->defend is not 0
  since,      \* seconds since state->defend, saturating at DEFEND_INTERVAL
  down        \* state->down

kernel == <<link, ifaddrs, uptime>>
sock == <<fd, filter, rx>>
arp == <<claim, failed, probes, cb, left>>
llg == <<held, conflicts, defended, since, down>>
vars == <<link, ifaddrs, uptime, claims, proc, fd, filter, rx, last, claim,
          failed, probes, cb, left, held, conflicts, defended, since, down>>

Running == NGroups + 1
Callback == {"none", "ipv4llg_probe", "arp_probe1", "arp_probed",
             "arp_announce1"}

(* The frames the protocol exchanges: a probe has sip 0 and tip addr; a    *)
(* claim has sip addr: an announcement, or a kernel's answer.              *)
Frame == [kind : {"probe", "claim"}, addr : Addr]

(* Every variable of the daemon and of the kernel stays in its range. *)
TypeOK ==
  /\ link \in [Host -> BOOLEAN]
  /\ ifaddrs \in [Host -> SUBSET Addr]
  /\ uptime \in [Host -> 0..DEFEND_INTERVAL]
  /\ claims \in [Host -> [Group -> OptAddr]]
  /\ proc \in [Host -> 0..Running]
  /\ fd \in [Host -> BOOLEAN]
  /\ filter \in [Host -> SUBSET OptAddr]
  /\ rx \in [Host -> Seq(Frame)]
  /\ last \in [Host -> [Group -> OptAddr]]
  /\ claim \in [Host -> [Group -> OptAddr]]
  /\ failed \in [Host -> [Group -> OptAddr]]
  /\ probes \in [Host -> [Group -> 0..PROBE_NUM]]
  /\ cb \in [Host -> [Group -> Callback]]
  /\ left \in [Host -> [Group -> Nat]]
  /\ held \in [Host -> [Group -> OptAddr]]
  /\ conflicts \in [Host -> [Group -> 0..MAX_CONFLICTS]]
  /\ defended \in [Host -> [Group -> BOOLEAN]]
  /\ since \in [Host -> [Group -> 0..DEFEND_INTERVAL]]
  /\ down \in [Host -> [Group -> BOOLEAN]]

-----------------------------------------------------------------------------
(* The wire, the kernels and the packet socket.                            *)

Outcome(call) == IF call \in Faults THEN BOOLEAN ELSE {TRUE}

(* Mutant: the loop over the arp states stops one state early. *)
bpf_arp_short(c, states) == {c[g] : g \in {i \in 1..states : i < ARP_ADDRS_MAX}}

(* bpf_arp: the filter compares sip, and the tip of a frame with sip 0,    *)
(* with the addresses of the first ARP_ADDRS_MAX arp states.  An arp state *)
(* whose address is still 0.0.0.0 lets every probe through.                *)
bpf_arp(c, states) == {c[g] : g \in {i \in 1..states : i <= ARP_ADDRS_MAX}}

Accepts(flt, f) == f.addr \in flt \/ (f.kind = "probe" /\ INADDR_ANY \in flt)

(* The other kernels that answer a request for address a sent by h. *)
Owners(h, a) ==
  {k \in Host \ {h} : link[h] /\ link[k] /\ a \in ifaddrs[k]}

(* How many kernels may answer, one after the other.  A kernel answers     *)
(* every probe for its address.  It may or may not answer a request whose  *)
(* sender also claims that address.                                        *)
Answers(h, f) ==
  {n \in 0..Cardinality(Host) :
     \E s \in [1..n -> Owners(h, f.addr)] :
       IsInjective(s) /\ (f.kind = "probe" => Range(s) = Owners(h, f.addr))}

(* The socket queues q after h broadcasts f and n kernels answer. *)
Deliver(q, h, f, n) ==
  LET reply == [kind |-> "claim", addr |-> f.addr]
  IN  [k \in Host |->
         IF k = h
         THEN IF Accepts(filter'[h], reply) THEN q[h] \o [i \in 1..n |-> reply]
                                            ELSE q[h]
         ELSE IF link[h] /\ link[k] /\ fd[k] /\ Accepts(filter[k], f)
              THEN Append(q[k], f) ELSE q[k]]

(* arp_request, with q the queues before the call.  It fails on a closed   *)
(* socket and when the kernel refuses the write.                           *)
arp_request(q, h, f) == \E n \in Answers(h, f) : rx' = Deliver(q, h, f, n)

(* A caller that only logs the failure of arp_request. *)
TryRequest(q, h, f) ==
  \E sent \in Outcome("send") :
    IF fd'[h] /\ sent THEN arp_request(q, h, f) ELSE rx' = q

-----------------------------------------------------------------------------
(* arp.c                                                                   *)

SetTimer(h, g, f, delays) ==
  /\ cb' = [cb EXCEPT ![h][g] = f]
  /\ \E d \in delays : left' = [left EXCEPT ![h][g] = d]

NoTimer(h, g) == SetTimer(h, g, "none", {0})

(* arp_probe1, run with n probes already sent for the claim. *)
arp_probe1(h, g, n) ==
  /\ probes' = [probes EXCEPT ![h][g] = n + 1]
  /\ IF n + 1 < PROBE_NUM
     THEN SetTimer(h, g, "arp_probe1", PROBE_MIN..PROBE_MAX)
     ELSE SetTimer(h, g, "arp_probed", {ANNOUNCE_WAIT})
  /\ TryRequest(rx, h, [kind |-> "probe", addr |-> claim'[h][g]])

(* Mutant: the count of probes is not reset for the new claim. *)
arp_probe_resume(h, g, states) ==
  \E open \in Outcome("open") :
    IF fd[h] \/ open
    THEN /\ fd' = [fd EXCEPT ![h] = TRUE]
         /\ filter' = [filter EXCEPT ![h] = bpf_arp(claim'[h], states)]
         /\ arp_probe1(h, g, probes[h][g])
    ELSE NoTimer(h, g) /\ UNCHANGED <<probes, fd, filter, rx>>

(* Mutant: the filter of an open socket is not rebuilt for the new claim. *)
arp_probe_stale(h, g, states) ==
  \E open \in Outcome("open") :
    IF fd[h] \/ open
    THEN /\ fd' = [fd EXCEPT ![h] = TRUE]
         /\ filter' = [filter EXCEPT ![h] = IF fd[h] THEN @
                                            ELSE bpf_arp(claim'[h], states)]
         /\ arp_probe1(h, g, 0)
    ELSE NoTimer(h, g) /\ UNCHANGED <<probes, fd, filter, rx>>

(* arp_probe, with the number of arp states of the interface. *)
arp_probe(h, g, states) ==
  \E open \in Outcome("open") :
    IF fd[h] \/ open
    THEN /\ fd' = [fd EXCEPT ![h] = TRUE]
         /\ filter' = [filter EXCEPT ![h] = bpf_arp(claim'[h], states)]
         /\ arp_probe1(h, g, 0)
    ELSE NoTimer(h, g) /\ UNCHANGED <<probes, fd, filter, rx>>

(* arp_announce1 of an always_announce state. *)
arp_announce1(h, g) ==
  /\ SetTimer(h, g, "arp_announce1",
              ANNOUNCE_ALWAYS_WAIT ..
                (ANNOUNCE_ALWAYS_WAIT + ANNOUNCE_ALWAYS_WAIT_SPREAD - 1))
  /\ TryRequest(rx, h, [kind |-> "claim", addr |-> claim'[h][g]])

(* arp_announce: arp_open builds the filter of a new socket only; flt is   *)
(* the filter of an open one.                                              *)
arp_announce(h, g, states, flt) ==
  \E open \in Outcome("open") :
    IF fd[h] \/ open
    THEN /\ fd' = [fd EXCEPT ![h] = TRUE]
         /\ filter' = [filter EXCEPT ![h] = IF fd[h] THEN flt
                                            ELSE bpf_arp(claim'[h], states)]
         /\ arp_announce1(h, g)
    ELSE NoTimer(h, g) /\ UNCHANGED <<fd, filter, rx>>

-----------------------------------------------------------------------------
(* ipv4ll-group.c                                                          *)

(* ipv4llg_pickaddr: the address of the claims file once, then random ones *)
(* until one is not on an interface.  The test against astate->failed ends *)
(* in a "continue", which goes on to the loop condition: it skips nothing. *)
ipv4llg_pickaddr(h, g, addrs) ==
  IF last[h][g] # INADDR_ANY /\ last[h][g] \notin addrs
  THEN {last[h][g]} ELSE Draw[g] \ addrs

(* Mutant: the claims are written before state->addr is set. *)
ipv4llg_writeclaims_early(h) ==
  \E ok \in Outcome("write") :
    claims' = IF ok THEN [claims EXCEPT ![h] = held[h]] ELSE claims

(* ipv4llg_writeclaims: the file is replaced as a whole, or not at all. *)
ipv4llg_writeclaims(h) ==
  \E ok \in Outcome("write") :
    claims' = IF ok THEN [claims EXCEPT ![h] = held'[h]] ELSE claims

(* Mutant: state->addr is only set once the socket is open. *)
ipv4llg_probed_late(h, g, states, flt) ==
  \E ok \in Outcome("addr") :
    IF ok \/ claim'[h][g] \in ifaddrs[h]
    THEN /\ ifaddrs' = [ifaddrs EXCEPT ![h] = @ \cup {claim'[h][g]}]
         /\ arp_announce(h, g, states, flt)
         /\ held' = IF fd'[h] THEN [held EXCEPT ![h][g] = claim'[h][g]] ELSE held
         /\ defended' = [defended EXCEPT ![h][g] = FALSE]
         /\ since' = [since EXCEPT ![h][g] = 0]
         /\ ipv4llg_writeclaims(h)
    ELSE /\ NoTimer(h, g)
         /\ filter' = [filter EXCEPT ![h] = flt]
         /\ UNCHANGED <<ifaddrs, held, defended, since, fd, rx, claims>>

(* ipv4llg_probed: put the claimed address on the interface and announce   *)
(* it.  When the kernel refuses the address the daemon just returns.       *)
ipv4llg_probed(h, g, states, flt) ==
  \E ok \in Outcome("addr") :
    IF ok \/ claim'[h][g] \in ifaddrs[h]
    THEN /\ ifaddrs' = [ifaddrs EXCEPT ![h] = @ \cup {claim'[h][g]}]
         /\ held' = [held EXCEPT ![h][g] = claim'[h][g]]
         /\ defended' = [defended EXCEPT ![h][g] = FALSE]
         /\ since' = [since EXCEPT ![h][g] = 0]
         /\ arp_announce(h, g, states, flt)
         /\ ipv4llg_writeclaims(h)
    ELSE /\ NoTimer(h, g)
         /\ filter' = [filter EXCEPT ![h] = flt]
         /\ UNCHANGED <<ifaddrs, held, defended, since, fd, rx, claims>>

(* ipv4llg_start up to its loop over the groups: allocate the states and   *)
(* take the preferred addresses from the claims file.                      *)
ipv4llg_start(h) ==
  /\ proc[h] = 0
  /\ proc' = [proc EXCEPT ![h] = 1]
  /\ last' = [last EXCEPT ![h] = claims[h]]
  /\ UNCHANGED <<kernel, claims, sock, arp, llg>>

(* ipv4llg_start_one for the next group: arp_new rebuilds the filter of an *)
(* open socket with 0.0.0.0 for the new state; an address of the group     *)
(* that is already on the interface is used without probing, otherwise an  *)
(* address is picked and probed.                                           *)
ipv4llg_start_one(h) ==
  LET g == proc[h]
      kept == ifaddrs[h] \cap Pool[g]
      flt == IF fd[h] THEN bpf_arp(claim[h], g) ELSE filter[h]
  IN  /\ proc[h] \in Group
      /\ proc' = [proc EXCEPT ![h] = g + 1]
      /\ \/ /\ \E a \in kept : claim' = [claim EXCEPT ![h][g] = a]
            /\ ipv4llg_probed(h, g, g, flt)
            /\ UNCHANGED <<last, probes>>
         \/ /\ kept = {}
            /\ \E a \in ipv4llg_pickaddr(h, g, ifaddrs[h]) :
                 claim' = [claim EXCEPT ![h][g] = a]
            /\ last' = [last EXCEPT ![h][g] = INADDR_ANY]
            /\ arp_probe(h, g, g)
            /\ UNCHANGED <<ifaddrs, held, defended, since, claims>>
      /\ UNCHANGED <<link, uptime, failed, conflicts, down>>

(* A timeout of group g of host h is due. *)
Due(h, g, f) == proc[h] = Running /\ cb[h][g] = f /\ left[h][g] = 0

ProbeTimeout(h, g) ==
  /\ Due(h, g, "ipv4llg_probe")
  /\ UNCHANGED claim
  /\ arp_probe(h, g, NGroups)
  /\ UNCHANGED <<kernel, claims, proc, last, failed, llg>>

Probe1Timeout(h, g) ==
  /\ Due(h, g, "arp_probe1")
  /\ UNCHANGED <<claim, fd, filter>>
  /\ arp_probe1(h, g, probes[h][g])
  /\ UNCHANGED <<kernel, claims, proc, last, failed, llg>>

ProbedTimeout(h, g) ==
  /\ Due(h, g, "arp_probed")
  /\ UNCHANGED claim
  /\ ipv4llg_probed(h, g, NGroups, filter[h])
  /\ UNCHANGED <<link, uptime, proc, last, failed, probes, conflicts, down>>

Announce1Timeout(h, g) ==
  /\ Due(h, g, "arp_announce1")
  /\ UNCHANGED <<claim, fd, filter>>
  /\ arp_announce1(h, g)
  /\ UNCHANGED <<kernel, claims, proc, last, failed, probes, llg>>

-----------------------------------------------------------------------------
(* Reading a frame.                                                        *)

(* Mutant: probes of others do not count as conflicts. *)
Fails_claims_only(h, g, f) == f.addr = claim[h][g] /\ f.kind = "claim"

(* Mutant: probes for an address on our interface count as conflicts. *)
Fails_always(h, g, f) == f.addr = claim[h][g]

(* The test of ipv4llg_conflicted: the frame comes from our address, or    *)
(* probes for it while it is not on our interface.                         *)
Fails(h, g, f) ==
  f.addr = claim[h][g] /\ (f.kind = "claim" \/ f.addr \notin ifaddrs[h])

(* The address was last defended DEFEND_INTERVAL or more ago.  A cleared   *)
(* state->defend stands for the instant of boot.                           *)
CanDefend(h, g) ==
  DEFEND_INTERVAL <= IF defended[h][g] THEN since[h][g] ELSE uptime[h]

(* Mutant: the address that replaces the lost one is never probed. *)
Repick_untimed(h, g) ==
  LET n == IF conflicts[h][g] < MAX_CONFLICTS THEN conflicts[h][g] + 1
                                              ELSE MAX_CONFLICTS
  IN  /\ conflicts' = [conflicts EXCEPT ![h][g] = n]
      /\ \E a \in ipv4llg_pickaddr(h, g, ifaddrs'[h]) :
           claim' = [claim EXCEPT ![h][g] = a]
      /\ last' = [last EXCEPT ![h][g] = INADDR_ANY]
      /\ NoTimer(h, g)

(* Pick another address and probe it later: the end of ipv4llg_conflicted. *)
Repick(h, g) ==
  LET n == IF conflicts[h][g] < MAX_CONFLICTS THEN conflicts[h][g] + 1
                                              ELSE MAX_CONFLICTS
  IN  /\ conflicts' = [conflicts EXCEPT ![h][g] = n]
      /\ \E a \in ipv4llg_pickaddr(h, g, ifaddrs'[h]) :
           claim' = [claim EXCEPT ![h][g] = a]
      /\ last' = [last EXCEPT ![h][g] = INADDR_ANY]
      /\ SetTimer(h, g, "ipv4llg_probe",
                  {IF n >= MAX_CONFLICTS THEN RATE_LIMIT_INTERVAL
                                         ELSE PROBE_WAIT})

(* Mutant: the time of the defence is not kept. *)
DefendClaim_untimed(h, g, rest) ==
  /\ held[h][g] = claim[h][g]
  /\ CanDefend(h, g)
  /\ UNCHANGED filter
  /\ arp_request(rest, h, [kind |-> "claim", addr |-> held[h][g]])
  /\ UNCHANGED <<ifaddrs, last, claim, cb, left, held, conflicts, defended,
                 since, down>>

(* ipv4llg_conflicted for a frame that was read, rest being the queues     *)
(* without it.                                                             *)
DefendClaim(h, g, rest) ==
  /\ held[h][g] = claim[h][g]
  /\ CanDefend(h, g)
  /\ UNCHANGED filter
  /\ arp_request(rest, h, [kind |-> "claim", addr |-> held[h][g]])
  /\ defended' = [defended EXCEPT ![h][g] = TRUE]
  /\ since' = [since EXCEPT ![h][g] = 0]
  /\ UNCHANGED <<ifaddrs, last, claim, cb, left, held, conflicts, down>>

(* Mutant: the lost address stays on the interface. *)
LoseClaim_leak(h, g, rest) ==
  /\ held[h][g] = claim[h][g]
  /\ ~CanDefend(h, g) \/ "send" \in Faults
  /\ down' = [down EXCEPT ![h][g] = TRUE]
  /\ held' = [held EXCEPT ![h][g] = INADDR_ANY]
  /\ UNCHANGED <<ifaddrs, filter, defended, since>>
  /\ Repick(h, g)
  /\ rx' = rest

(* Mutant: state->addr still points to the lost address. *)
LoseClaim_dangling(h, g, rest) ==
  /\ held[h][g] = claim[h][g]
  /\ ~CanDefend(h, g) \/ "send" \in Faults
  /\ ifaddrs' = [ifaddrs EXCEPT ![h] = @ \ {held[h][g]}]
  /\ down' = [down EXCEPT ![h][g] = TRUE]
  /\ Repick(h, g)
  /\ rx' = rest
  /\ UNCHANGED <<filter, defended, since, held>>

LoseClaim(h, g, rest) ==
  /\ held[h][g] = claim[h][g]
  /\ ~CanDefend(h, g) \/ "send" \in Faults
  /\ ifaddrs' = [ifaddrs EXCEPT ![h] = @ \ {held[h][g]}]
  /\ down' = [down EXCEPT ![h][g] = TRUE]
  /\ held' = [held EXCEPT ![h][g] = INADDR_ANY]
  /\ Repick(h, g)
  /\ rx' = rest
  /\ UNCHANGED <<filter, defended, since>>

AbandonProbe(h, g, rest) ==
  /\ held[h][g] # claim[h][g]
  /\ UNCHANGED <<filter, ifaddrs, held, defended, since, down>>
  /\ Repick(h, g)
  /\ rx' = rest

ipv4llg_conflicted(h, g, rest) ==
  /\ failed' = [failed EXCEPT ![h][g] = claim[h][g]]
  /\ \/ DefendClaim(h, g, rest)
     \/ LoseClaim(h, g, rest)
     \/ AbandonProbe(h, g, rest)

(* arp_read takes one frame off the socket; arp_packet hands it to the arp *)
(* state whose address it carries.                                         *)
arp_read(h) ==
  LET f == Head(rx[h])
      rest == [rx EXCEPT ![h] = Tail(@)]
  IN  /\ proc[h] = Running /\ fd[h] /\ rx[h] # <<>>
      /\ \/ \E g \in Group : Fails(h, g, f) /\ ipv4llg_conflicted(h, g, rest)
         \/ /\ \A g \in Group : ~Fails(h, g, f)
            /\ rx' = rest
            /\ UNCHANGED <<filter, ifaddrs, last, claim, failed, cb, left, llg>>
      /\ UNCHANGED <<link, uptime, claims, proc, fd, probes>>

(* arp_read when recvmsg fails: arp_close. *)
arp_read_error(h) ==
  /\ "read" \in Faults
  /\ proc[h] = Running /\ fd[h]
  /\ fd' = [fd EXCEPT ![h] = FALSE]
  /\ filter' = [filter EXCEPT ![h] = {}]
  /\ rx' = [rx EXCEPT ![h] = <<>>]
  /\ UNCHANGED <<kernel, claims, proc, last, arp, llg>>

-----------------------------------------------------------------------------
(* The environment of a unit.                                              *)

PerGroup(v) == [g \in Group |-> v]

(* What a process that ends leaves of its memory and its socket: nothing. *)
ProcessEnds(h) ==
  /\ proc' = [proc EXCEPT ![h] = 0]
  /\ fd' = [fd EXCEPT ![h] = FALSE]
  /\ filter' = [filter EXCEPT ![h] = {}]
  /\ rx' = [rx EXCEPT ![h] = <<>>]
  /\ last' = [last EXCEPT ![h] = PerGroup(INADDR_ANY)]
  /\ claim' = [claim EXCEPT ![h] = PerGroup(INADDR_ANY)]
  /\ failed' = [failed EXCEPT ![h] = PerGroup(INADDR_ANY)]
  /\ probes' = [probes EXCEPT ![h] = PerGroup(0)]
  /\ cb' = [cb EXCEPT ![h] = PerGroup("none")]
  /\ left' = [left EXCEPT ![h] = PerGroup(0)]
  /\ held' = [held EXCEPT ![h] = PerGroup(INADDR_ANY)]
  /\ conflicts' = [conflicts EXCEPT ![h] = PerGroup(0)]
  /\ defended' = [defended EXCEPT ![h] = PerGroup(FALSE)]
  /\ since' = [since EXCEPT ![h] = PerGroup(0)]
  /\ down' = [down EXCEPT ![h] = PerGroup(FALSE)]

QueuesBounded == \A k \in Host : Len(rx[k]) <= MaxQueue

(* The daemon is killed: the kernel keeps its addresses. *)
Crash(h) ==
  /\ proc[h] # 0 /\ QueuesBounded
  /\ ProcessEnds(h)
  /\ UNCHANGED <<link, ifaddrs, uptime, claims>>

(* SIGTERM: stop_all_interfaces, dhcpcd_drop, ipv4llg_drop and arp_drop    *)
(* take the held addresses off the interface and close the socket.         *)
ipv4llg_drop(h) ==
  /\ proc[h] = Running /\ QueuesBounded
  /\ ifaddrs' = [ifaddrs EXCEPT ![h] = @ \ {held[h][g] : g \in Group}]
  /\ ProcessEnds(h)
  /\ UNCHANGED <<link, uptime, claims>>

(* The unit loses power and boots; only the claims file survives. *)
Reboot(h) ==
  /\ QueuesBounded
  /\ ifaddrs' = [ifaddrs EXCEPT ![h] = {}]
  /\ uptime' = [uptime EXCEPT ![h] = 0]
  /\ ProcessEnds(h)
  /\ UNCHANGED <<link, claims>>

(* The cable is pulled or plugged; a "nolink" configuration makes          *)
(* dhcpcd_handlecarrier return at once.                                    *)
Cable(h) ==
  /\ link' = [link EXCEPT ![h] = ~@]
  /\ UNCHANGED <<ifaddrs, uptime, claims, proc, sock, last, arp, llg>>

(* A second passes, once every daemon has nothing left to do in this one. *)
Tick ==
  /\ \A h \in Host : /\ proc[h] \notin Group
                     /\ proc[h] = Running => rx[h] = <<>>
                     /\ \A g \in Group : cb[h][g] # "none" => left[h][g] > 0
  /\ uptime' = [h \in Host |-> IF uptime[h] < DEFEND_INTERVAL
                               THEN uptime[h] + 1 ELSE uptime[h]]
  /\ left' = [h \in Host |-> [g \in Group |->
                IF cb[h][g] = "none" THEN left[h][g] ELSE left[h][g] - 1]]
  /\ since' = [h \in Host |-> [g \in Group |->
                 IF defended[h][g] /\ since[h][g] < DEFEND_INTERVAL
                 THEN since[h][g] + 1 ELSE since[h][g]]]
  /\ UNCHANGED <<link, ifaddrs, claims, proc, sock, last, claim, failed,
                 probes, cb, held, conflicts, defended, down>>

-----------------------------------------------------------------------------
(* The specifications.                                                     *)

NoDaemon ==
  /\ proc = [h \in Host |-> 0]
  /\ fd = [h \in Host |-> FALSE]
  /\ filter = [h \in Host |-> {}]
  /\ rx = [h \in Host |-> <<>>]
  /\ last = [h \in Host |-> PerGroup(INADDR_ANY)]
  /\ claim = [h \in Host |-> PerGroup(INADDR_ANY)]
  /\ failed = [h \in Host |-> PerGroup(INADDR_ANY)]
  /\ probes = [h \in Host |-> PerGroup(0)]
  /\ cb = [h \in Host |-> PerGroup("none")]
  /\ left = [h \in Host |-> PerGroup(0)]
  /\ held = [h \in Host |-> PerGroup(INADDR_ANY)]
  /\ conflicts = [h \in Host |-> PerGroup(0)]
  /\ defended = [h \in Host |-> PerGroup(FALSE)]
  /\ since = [h \in Host |-> PerGroup(0)]
  /\ down = [h \in Host |-> PerGroup(FALSE)]

(* New units, all booted now. *)
Init ==
  /\ NoDaemon
  /\ link = [h \in Host |-> TRUE]
  /\ ifaddrs = [h \in Host |-> {}]
  /\ uptime = [h \in Host |-> 0]
  /\ claims = [h \in Host |-> PerGroup(INADDR_ANY)]

(* Units that got an address for each group, perhaps with cables unplugged *)
(* meanwhile, and whose daemons were killed.                               *)
KilledInit ==
  /\ NoDaemon
  /\ link = [h \in Host |-> TRUE]
  /\ uptime = [h \in Host |-> DEFEND_INTERVAL]
  /\ claims \in {c \in [Host -> [Group -> Addr]] :
                   \A h \in Host, g \in Group : c[h][g] \in Draw[g]}
  /\ ifaddrs = [h \in Host |-> {claims[h][g] : g \in Group}]

(* One callback of the event loop of h, or a step of its start. *)
DaemonStep(h) ==
  \/ ipv4llg_start(h)
  \/ ipv4llg_start_one(h)
  \/ \E g \in Group : \/ ProbeTimeout(h, g)
                      \/ Probe1Timeout(h, g)
                      \/ ProbedTimeout(h, g)
                      \/ Announce1Timeout(h, g)
  \/ arp_read(h)

UnitFault(h) == Crash(h) \/ ipv4llg_drop(h) \/ Reboot(h)

(* Daemons on a network whose cables stay plugged. *)
ConnectedNext ==
  \/ Tick
  \/ \E h \in Host : DaemonStep(h) \/ arp_read_error(h) \/ UnitFault(h)

(* The same with cables being pulled and plugged. *)
Next == ConnectedNext \/ \E h \in Host : Cable(h)

ConnectedSpec == Init /\ [][ConnectedNext]_vars
Spec == Init /\ [][Next]_vars

(* The init system starts the daemon, the event loop runs every due        *)
(* callback and every readable socket, and time goes on.  Nothing is       *)
(* assumed of failures and of cables.                                      *)
Fairness == WF_vars(Tick) /\ \A h \in Host : WF_vars(DaemonStep(h))

(* Cables are pulled and plugged, but the units keep running.  They have   *)
(* booted, or their daemons were killed before and are started again.      *)
CableNext == Tick \/ \E h \in Host : DaemonStep(h) \/ Cable(h)
CableSpec == (Init \/ KilledInit) /\ [][CableNext]_vars /\ Fairness

(* Daemons are restarted once after having been killed. *)
RestartSpec ==
  KilledInit /\ [][Tick \/ \E h \in Host : DaemonStep(h)]_vars /\ Fairness

-----------------------------------------------------------------------------
(* Properties.                                                             *)

(* No two units have the same address on their interfaces: what probing    *)
(* (ipv4llg_start_one .. ipv4llg_probed) is for.                           *)
Unique == \A h, k \in Host : h # k => ifaddrs[h] \cap ifaddrs[k] = {}

(* A unit takes an address only when no unit has it, whatever daemons and  *)
(* units crash, stop and restart meanwhile.                                *)
Abstract == INSTANCE AddressClaim WITH own <- ifaddrs
ClaimsOnlyFree == Abstract!ASpec

(* While the cables stay plugged a unit that has an address keeps it until *)
(* its own daemon or the unit stops: ipv4llg_conflicted never takes it     *)
(* away, because no frame that reaches the daemon contests it.             *)
NeverTakenAway ==
  [][\A h \in Host : ifaddrs[h] \subseteq ifaddrs'[h] \/ proc'[h] = 0]_vars

(* The daemon never leaks an address: at any moment an interface has at    *)
(* most one address of a group, and once the group is started that address *)
(* is state->addr, the one ipv4llg_drop and ipv4llg_conflicted remove.     *)
OneAddressPerGroup ==
  \A h \in Host, g \in Group :
    /\ \A a, b \in ifaddrs[h] \cap Pool[g] : a = b
    /\ g < proc[h] => ifaddrs[h] \cap Pool[g] \subseteq {held[h][g]}

(* An address in use is the one its arp state watches and announces, so    *)
(* that ipv4llg_conflicted compares frames with the right address.         *)
HeldIsWatched ==
  \A h \in Host, g \in Group :
    held[h][g] # INADDR_ANY =>
      /\ held[h][g] = claim[h][g] /\ held[h][g] \in ifaddrs[h]
      /\ cb[h][g] \in {"arp_announce1", "none"}
      /\ cb[h][g] = "none" => "open" \in Faults

(* The socket's filter lets through the frames that contest an address in  *)
(* use: "Keep the ARP state open to handle ongoing ACD." (arp.c)  Only a   *)
(* failing open or read leaves such an address without a socket.           *)
ListensToHeld ==
  \A h \in Host, g \in Group :
    held[h][g] # INADDR_ANY =>
      /\ fd[h] => held[h][g] \in filter[h]
      /\ fd[h] \/ "open" \in Faults \/ "read" \in Faults

(* The claims file names every address in use, so that a unit that loses   *)
(* power asks for the same address again.                                  *)
ClaimsFileCurrent ==
  \A h \in Host, g \in Group :
    held[h][g] # INADDR_ANY => claims[h][g] = held[h][g]

(* Two units that came to use the same address while a cable was unplugged *)
(* do not both keep it: "If there is an address clash, then either we will *)
(* lose the defense, or the other side will lose." (arp.h)                 *)
ClashResolved == <>[](\A h \in Host : link[h]) => <>[]Unique

(* A unit without carrier gets an address for every group and keeps it:    *)
(* "Assign address even if we have no link" (configs/).                    *)
AssignedWithoutLink ==
  \A h \in Host : <>[](~link[h]) => <>[](\A g \in Group : held[h][g] # INADDR_ANY)

-----------------------------------------------------------------------------
(* What comments and messages of the code say and the code does not do.    *)

(* "No point using a failed address": the address picked after a conflict  *)
(* is not the one that failed (ipv4llg_pickaddr).                          *)
FailedNotPicked ==
  \A h \in Host, g \in Group :
    cb[h][g] = "ipv4llg_probe" => claim[h][g] # failed[h][g]

(* "If any interface is running IPv4LL, rebuild our routing table": a      *)
(* group with an address counts as IPV4LLG_STATE_RUNNING.                  *)
HeldIsRunning ==
  \A h \in Host, g \in Group : held[h][g] # INADDR_ANY => ~down[h][g]

-----------------------------------------------------------------------------
(* The inductive invariant of a connected network.                         *)

Probing(h, g) == cb[h][g] \in {"arp_probe1", "arp_probed"}

Claiming(h, g) == Probing(h, g) \/ cb[h][g] = "ipv4llg_probe"

(* A second has passed since the last probe. *)
AlmostProbed(h, g) == cb[h][g] = "arp_probed" /\ left[h][g] < ANNOUNCE_WAIT

(* A frame that will make group g of h give up its claim is queued. *)
Doomed(h, g) == \E f \in Range(rx[h]) : Fails(h, g, f)

AllLinked == \A h \in Host : link[h]

(* A pending timeout has an address to work on, and arp_probe1 a probe to  *)
(* send.                                                                   *)
TimedClaim ==
  \A h \in Host, g \in Group :
    /\ cb[h][g] # "none" => claim[h][g] \in Addr
    /\ cb[h][g] = "arp_probe1" => probes[h][g] < PROBE_NUM

TypeInv == TypeOK /\ TimedClaim

(* Groups use the addresses of their own range. *)
InPool ==
  \A h \in Host, g \in Group :
    {claims[h][g], last[h][g], claim[h][g], held[h][g]}
       \subseteq Pool[g] \cup {INADDR_ANY}

(* Timers belong to started groups. *)
TimersOfStarted ==
  \A h \in Host, g \in Group : cb[h][g] # "none" => g < proc[h]

(* arp_announce1 runs for addresses in use only. *)
AnnouncesHeld ==
  \A h \in Host, g \in Group :
    /\ held[h][g] # INADDR_ANY => /\ held[h][g] = claim[h][g]
                                  /\ held[h][g] \in ifaddrs[h]
    /\ cb[h][g] = "arp_announce1" => held[h][g] # INADDR_ANY

(* A group that wants an address does not use it yet, and hears about it   *)
(* while it probes.                                                        *)
ProbingListens ==
  \A h \in Host, g \in Group :
    /\ Claiming(h, g) => claim[h][g] \in Addr \ ifaddrs[h]
    /\ Probing(h, g) => fd[h] /\ claim[h][g] \in filter[h]

(* A unit that probes for an address in use, and all but one of the units  *)
(* that probe for the same address, have a frame queued that tells them.   *)
UsedIsDoomed ==
  \A h, k \in Host, g \in Group :
    h # k /\ Probing(h, g) /\ claim[h][g] \in ifaddrs[k] => Doomed(h, g)

RivalIsDoomed ==
  \A h, k \in Host, g1, g2 \in Group :
    h # k /\ Probing(h, g1) /\ Probing(k, g2) /\ claim[h][g1] = claim[k][g2]
      => Doomed(h, g1) \/ Doomed(k, g2)

(* A unit about to end its probing is the only one that wants the address, *)
(* and nothing it has yet to read says that the address is in use.         *)
LastOneStanding ==
  \A h \in Host, g1 \in Group : AlmostProbed(h, g1) =>
    /\ \A k \in Host \ {h} :
         /\ claim[h][g1] \notin ifaddrs[k]
         /\ \A g2 \in Group : AlmostProbed(k, g2) => claim[h][g1] # claim[k][g2]
    /\ \A f \in Range(rx[h]) : f.kind = "claim" => f.addr # claim[h][g1]

(* No queued frame contests an address in use. *)
Uncontested ==
  \A h \in Host : \A f \in Range(rx[h]) :
    f.kind = "claim" => f.addr \notin ifaddrs[h]

(* The part about single units, and the part about the network. *)
LocalInv ==
  /\ TypeInv /\ AllLinked /\ InPool /\ TimersOfStarted /\ AnnouncesHeld
  /\ ProbingListens

GlobalInv ==
  /\ UsedIsDoomed /\ RivalIsDoomed /\ LastOneStanding /\ Uncontested /\ Unique

UniqueInv == LocalInv /\ GlobalInv

-----------------------------------------------------------------------------
(* The inductive invariant of single units, whatever fails.                *)

(* Only started groups have timeouts and addresses, arp_announce1 runs for *)
(* addresses in use only, and a claim is not in use before it was probed.  *)
Staged ==
  \A h \in Host, g \in Group :
    /\ cb[h][g] # "none" \/ held[h][g] # INADDR_ANY => g < proc[h]
    /\ cb[h][g] = "arp_announce1" => held[h][g] # INADDR_ANY
    /\ Claiming(h, g) => claim[h][g] \notin ifaddrs[h]

(* What a unit knows of its addresses is what its kernel has, whichever    *)
(* calls fail, cables are pulled, and daemons and units stop and restart.  *)
KeptInv == TypeInv /\ InPool /\ OneAddressPerGroup /\ HeldIsWatched /\ Staged
=============================================================================
